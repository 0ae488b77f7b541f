--------------------------- MODULE AgentPanes_proofs ---------------------------
(***************************************************************************)
(* Proofs about AgentPanes, for every number of agents, panes and faults.  *)
(*                                                                         *)
(* The inductive invariant says of the rows and the panes what is always   *)
(* true of them (Rows, Owners), and of the launch or restoration that is   *)
(* in progress what it may rely on across its awaits (JobKnows).  The      *)
(* plans of the grid enter through GridSound, a formula without parameters *)
(* that TLC evaluates.                                                     *)
(***************************************************************************)
EXTENDS AgentPanes, FiniteSetTheorems, WellFoundedInduction, TLAPS

-----------------------------------------------------------------------------
(* The inductive invariant.                                                *)

\* A launch row is there from the launch on; a reservation is made only for an
\* agent whose pane and whose processes are gone.
Rows ==
  \A a \in Agents :
    /\ status[a] = "planned" <=> launch[a] = None
    /\ restoration[a] # None =>
         /\ launch[a] # None
         /\ restoration[a].phase # "reserved" =>
              restoration[a].replacement = launch[a].pane
    /\ Reserved(a) => launch[a].proc = "dead" /\ launch[a].pane \notin Open

\* An open pane is some agent's; while the agent waits for a replacement, it
\* was made for that; a command was typed only into the agent's launch pane.
Owners ==
  \A p \in Open :
    /\ pane[p].agent \in Agents
    /\ Reserved(pane[p].agent) => pane[p].nonce
    /\ pane[p].pi # "none" => /\ launch[pane[p].agent] # None
                              /\ launch[pane[p].agent].pane = p

\* The rows and the panes between the steps of a job.
Settled == TypeOK /\ Rows /\ Owners /\ SlotsUnique /\ RestoredInPlace

\* No agent is planned for two slots.
Wanted ==
  \A i, j \in 1 .. Len(job.want) : job.want[i] = job.want[j] => i = j

\* A restoration holds agents of the roster, at the slots of their launches,
\* and starts them once all of them are bound.
Restores ==
  /\ job.todo # {} /\ job.step # "provisioned"
  /\ \A a \in job.todo :
       /\ a \in Active /\ restoration[a] # None
       /\ launch[a].slot + 1 \in 1 .. Len(job.want)
       /\ job.want[launch[a].slot + 1] = a
       /\ job.step \in {"start", "await", "confirm"} => ~Reserved(a)

Launches ==
  /\ job.todo = {job.agent} /\ job.step \notin {"bind", "confirm"}
  /\ \E i \in 1 .. Len(job.want) : job.want[i] = job.agent
  /\ job.step \in {"start", "await"} => launch[job.agent] # None

\* The panes of the grid that are still open are in their places.
GridOwned ==
  /\ Len(job.grid) = Len(job.want) /\ Len(job.want) \in 1 .. MaxGridPanes
  /\ \A i \in 1 .. Len(job.grid) : job.grid[i] \in Open =>
       /\ pane[job.grid[i]].slot = i - 1
       /\ pane[job.grid[i]].agent = job.want[i]

GridSteps == {"growing", "provisioned", "bind"}

JobKnows ==
  /\ job.step = "listed" => job.agent = None /\ Open \subseteq job.seen
  /\ job.step \notin {"idle", "listed"} =>
       IF job.agent = None THEN Restores ELSE Launches
  /\ job.step \in GridSteps => GridOwned
  /\ job.step \in {"provisioned", "bind"} => Full
  /\ job.step = "growing" =>
       \A p \in Open : /\ pane[p].slot \in 0 .. Len(job.want) - 1
                       /\ job.grid[pane[p].slot + 1] = p

IInv == Settled /\ Wanted /\ JobKnows

-----------------------------------------------------------------------------
(* The constants, and the helpers of the model.                            *)

JobType == [step : Steps \cup {"idle"}, agent : Agents \cup {None},
            seen : SUBSET PaneIds, want : Seq(Agents),
            grid : Seq(PaneIds \cup {None}), todo : SUBSET Agents,
            stale : BOOLEAN]

(* There are finitely many agents, numbered from one, and None is no row. *)
LEMMA ConstantFacts ==
  /\ IsFiniteSet(Agents) /\ Cardinality(Agents) \in Nat \ {0}
  /\ Agents = 1 .. Cardinality(Agents)
  /\ None \notin Agents /\ None \notin PaneIds
  /\ None \notin LaunchRow /\ None \notin RestorationRow
<1>1. Agents = 1 .. Cardinality(Agents) /\ Agents # {} /\ IsFiniteSet(Agents)
  BY AgentsAssumption
<1>2. Cardinality(Agents) \in Nat
  BY <1>1, FS_CardinalityType
<1>3. Cardinality(Agents) # 0
  BY <1>1, <1>2
<1>4. QED BY <1>1, <1>2, <1>3, NoneAssumption, BoundAssumption DEF PaneIds

(* A set of natural numbers has a smallest element. *)
LEMMA Smallest ==
  ASSUME NEW T \in SUBSET Nat, T # {}
  PROVE  \E n \in T : \A m \in T : n <= m
<1>1. IsWellFoundedOn(OpToRel(<, Nat), Nat)
  BY NatLessThanWellFounded
<1>2. PICK n \in T : \A m \in T : ~(<<m, n>> \in OpToRel(<, Nat))
  BY <1>1, WFMin
<1>3. \A m \in T : ~(m < n)
  BY <1>2 DEF OpToRel
<1>4. QED BY <1>3

(* The next of some launched agents, by slot, is one of them. *)
LEMMA NextIsIn ==
  ASSUME TypeOK, NEW A \in SUBSET Agents, A # {},
         \A a \in A : launch[a] # None
  PROVE  NextIn(A) \in A
<1>1. \A a \in A : launch[a].slot \in Nat
  BY ConstantFacts DEF TypeOK, LaunchRow, Slots
<1> DEFINE T == {launch[a].slot : a \in A}
<1>2. T \in SUBSET Nat /\ T # {}
  BY <1>1
<1>3. PICK n \in T : \A m \in T : n <= m
  <2> HIDE DEF T
  <2>1. QED BY <1>2, Smallest
<1>4. PICK a \in A : launch[a].slot = n
  OBVIOUS
<1>5. \A b \in A : launch[a].slot <= launch[b].slot
  BY <1>3, <1>4
<1>6. QED BY <1>5 DEF NextIn

(* A plan for distinct agents has no more places than there are agents. *)
LEMMA WantFits ==
  ASSUME NEW want \in Seq(Agents),
         \A i, j \in 1 .. Len(want) : want[i] = want[j] => i = j
  PROVE  Len(want) <= Cardinality(Agents)
<1>1. Len(want) \in Nat /\ want \in Injection(1 .. Len(want), Agents)
  BY DEF Injection, IsInjective
<1>2. Cardinality(1 .. Len(want)) <= Cardinality(Agents)
  BY <1>1, ConstantFacts, FS_Injection
<1>3. Cardinality(1 .. Len(want)) = Len(want)
  BY <1>1, FS_Interval
<1>4. QED BY <1>2, <1>3

(* As long as a slot is missing, the plan of the grid names one to split off. *)
LEMMA SplitFacts ==
  ASSUME NEW n \in 1 .. MaxGridPanes, NEW held \in SUBSET (0 .. n - 1),
         0 \in held, held # 0 .. n - 1
  PROVE  NextSplitOf(n, held)[2] \in (0 .. n - 1) \ held
<1> DEFINE plan == Splits(n)
           Ahead == {i \in 1 .. n - 1 : plan[i][2] \notin held}
<1>1. /\ DOMAIN plan = 1 .. n - 1
      /\ \A i \in 1 .. n - 1 :
           /\ plan[i][2] \in 1 .. n - 1
           /\ \A j \in 1 .. i - 1 : plan[j][2] # plan[i][2]
  BY PlansAssumption DEF GridSound
<1> HIDE DEF plan
<1>2. n \in Nat /\ n - 1 \in Nat
  BY DEF MaxGridPanes
<1>3. Ahead # {}
  <2> DEFINE new == [i \in 1 .. n - 1 |-> plan[i][2]]
  <2>1. \A i, j \in 1 .. n - 1 : plan[i][2] = plan[j][2] => i = j
    <3> SUFFICES ASSUME NEW i \in 1 .. n - 1, NEW j \in 1 .. n - 1,
                        plan[i][2] = plan[j][2], i # j
                 PROVE  FALSE
      OBVIOUS
    <3>1. i \in 1 .. j - 1 \/ j \in 1 .. i - 1
      BY <1>2
    <3>2. QED BY <3>1, <1>1
  <2>2. new \in Injection(1 .. n - 1, 1 .. n - 1)
    BY <1>1, <2>1 DEF Injection, IsInjective
  <2>3. new \in Surjection(1 .. n - 1, 1 .. n - 1)
    BY <2>2, <1>2, FS_Interval, FS_Injection
  <2>4. PICK slot \in 0 .. n - 1 : slot \notin held
    OBVIOUS
  <2>5. slot \in 1 .. n - 1
    BY <2>4, <1>2
  <2>6. PICK i \in 1 .. n - 1 : new[i] = slot
    BY <2>3, <2>5 DEF Surjection
  <2>7. QED BY <2>4, <2>6
<1>4. PICK i \in Ahead : \A j \in Ahead : i <= j
  <2>1. Ahead \in SUBSET Nat
    BY <1>2
  <2> HIDE DEF Ahead
  <2>2. QED BY <2>1, <1>3, Smallest
<1>5. /\ i \in DOMAIN plan /\ plan[i][2] \notin held
      /\ \A j \in 1 .. i - 1 : plan[j][2] \in held
  <2>1. \A j \in 1 .. i - 1 : j \in 1 .. n - 1 /\ ~(i <= j)
    BY <1>2, <1>4
  <2>2. QED BY <1>1, <1>4, <2>1
<1> DEFINE k == CHOOSE k \in DOMAIN plan :
                  /\ plan[k][2] \notin held
                  /\ \A j \in 1 .. k - 1 : plan[j][2] \in held
<1>6. k \in DOMAIN plan /\ plan[k][2] \notin held
  BY <1>5
<1>7. NextSplitOf(n, held) = plan[k]
  BY DEF NextSplitOf, plan
<1>8. QED BY <1>1, <1>2, <1>6, <1>7

-----------------------------------------------------------------------------
(* Steps that only take away: panes are closed or tagged, processes come   *)
(* and go in the panes of launches, rows record what became of them.       *)

Fades ==
  /\ \A p \in PaneIds : pane'[p].open =>
       /\ pane[p].open /\ pane'[p].agent = pane[p].agent
       /\ pane'[p].slot = pane[p].slot /\ pane'[p].nonce = pane[p].nonce
       /\ pane'[p].pi # "none" =>
            \/ pane[p].pi # "none"
            \/ /\ launch[pane[p].agent] # None
               /\ launch[pane[p].agent].pane = p
  /\ \A a \in Agents :
       /\ launch'[a] = None <=> launch[a] = None
       /\ launch[a] # None =>
            /\ launch'[a].slot = launch[a].slot
            /\ launch'[a].pane = launch[a].pane
            /\ launch[a].proc = "dead" => launch'[a].proc = "dead"

(* An agent may become active or leave the roster, but is planned only until  *)
(* its launch and closed for good.                                           *)
StatusMoves ==
  \A a \in Agents : /\ status'[a] = "planned" <=> status[a] = "planned"
                    /\ status[a] = "closed" => status'[a] = "closed"

(* Such a step leaves rows and panes in order. *)
LEMMA SettledFades ==
  ASSUME Settled, TypeOK', Fades, StatusMoves, UNCHANGED restoration
  PROVE  Settled'
<1>1. /\ TypeOK /\ Rows /\ Owners /\ SlotsUnique /\ RestoredInPlace
      /\ \A a \in Agents : Reserved(a)' <=> Reserved(a)
  BY DEF Settled, Reserved
<1>2. \A p \in Open' : p \in Open
  BY DEF Fades, Open
<1>3. Rows'
  BY <1>1, <1>2 DEF Rows, Fades, StatusMoves, TypeOK
<1>4. Owners'
  BY <1>1, <1>2 DEF Owners, Fades, Open
<1>5. SlotsUnique'
  BY <1>1, <1>2 DEF SlotsUnique, Fades, StatusMoves, Open
<1>6. RestoredInPlace'
  BY <1>1, <1>2 DEF RestoredInPlace, Fades, Open
<1>7. QED BY <1>3, <1>4, <1>5, <1>6 DEF Settled

JobKept ==
  /\ job'.step = job.step /\ job'.agent = job.agent /\ job'.seen = job.seen
  /\ job'.want = job.want /\ job'.grid = job.grid /\ job'.todo = job.todo

(* And it leaves the job in progress what it relies on. *)
LEMMA JobFades ==
  ASSUME IInv, TypeOK', Fades, UNCHANGED restoration, JobKept,
         \A a \in Active : a \in Active'
  PROVE  Wanted' /\ JobKnows'
<1>1. /\ TypeOK /\ Wanted /\ JobKnows
      /\ \A a \in Agents : Reserved(a)' <=> Reserved(a)
  BY DEF IInv, Settled, Reserved
<1>2. \A p \in Open' : p \in Open /\ pane'[p].agent = pane[p].agent
                         /\ pane'[p].slot = pane[p].slot
  BY DEF Fades, Open
<1>3. Wanted'
  BY <1>1 DEF Wanted, JobKept
<1>4. job.todo \subseteq Agents /\ job.agent \in Agents \cup {None}
  BY <1>1 DEF TypeOK
<1>5. Restores => Restores'
  BY <1>1, <1>4 DEF Restores, JobKept, Fades
<1>6. job.agent # None /\ Launches => Launches'
  BY <1>1, <1>4 DEF Launches, JobKept, Fades
<1>7. GridOwned => GridOwned'
  BY <1>1, <1>2 DEF GridOwned, JobKept
<1>8. Full => Full'
  BY DEF Full, JobKept
<1>9. JobKnows'
  BY <1>1, <1>2, <1>5, <1>6, <1>7, <1>8 DEF JobKnows, JobKept
<1>10. QED BY <1>3, <1>9

(* The idle job. *)
LEMMA IdleFields ==
  /\ Idle \in JobType /\ Idle.step = "idle" /\ Idle.agent = None
  /\ Idle.want = <<>>
BY DEF Idle, JobType

(* No job, no obligations. *)
LEMMA IdleKnows ==
  ASSUME job' = Idle
  PROVE  Wanted' /\ JobKnows' /\ Idle \in JobType
<1>1. Idle \in JobType /\ Idle.step = "idle" /\ Idle.want = <<>>
  BY IdleFields
<1>2. Wanted'
  BY <1>1 DEF Wanted
<1>3. JobKnows'
  BY <1>1 DEF JobKnows, GridSteps
<1>4. QED BY <1>1, <1>2, <1>3

(* At first there is nothing. *)
LEMMA InitInv == Init => IInv
<1> SUFFICES ASSUME Init PROVE IInv
  OBVIOUS
<1>1. /\ status = [a \in Agents |-> "planned"] /\ job = Idle
      /\ launch = [a \in Agents |-> None] /\ faults = 0
      /\ restoration = [a \in Agents |-> None] /\ controller = "up"
      /\ pane = [p \in PaneIds |-> Gone]
  BY DEF Init
<1>2. Gone \in PaneRow /\ Gone.open = FALSE
  BY ConstantFacts DEF Gone, PaneRow, Slots
<1>3. Open = {} /\ \A a \in Agents : ~Reserved(a)
  BY <1>1, <1>2 DEF Open, Reserved
<1>4. job \in JobType /\ job.step = "idle" /\ job.want = <<>>
  BY <1>1 DEF Idle, JobType
<1>5. TypeOK
  <2>1. MaxFaults \in Nat /\ "planned" \in Status
    BY BoundAssumption DEF Status
  <2>2. QED BY <1>1, <1>2, <1>4, <2>1 DEF TypeOK, JobType
<1>6. Rows /\ Owners /\ SlotsUnique /\ RestoredInPlace
  BY <1>1, <1>3 DEF Rows, Owners, SlotsUnique, RestoredInPlace
<1>7. Wanted /\ JobKnows
  BY <1>4 DEF Wanted, JobKnows, GridSteps
<1>8. QED BY <1>5, <1>6, <1>7 DEF IInv, Settled

(* So a step of this kind keeps the invariant, whether the job goes on or is *)
(* over. *)
LEMMA FadingStep ==
  ASSUME IInv, TypeOK', Fades, StatusMoves, UNCHANGED restoration,
         \/ JobKept /\ \A a \in Active : a \in Active'
         \/ job' = Idle
  PROVE  IInv'
<1>1. Settled'
  BY SettledFades DEF IInv
<1>2. Wanted' /\ JobKnows'
  BY JobFades, IdleKnows
<1>3. QED BY <1>1, <1>2 DEF IInv

(* Nothing but the status of an agent, the job or the process changes. *)
LEMMA FadesTrivially ==
  ASSUME UNCHANGED <<launch, pane>>
  PROVE  Fades
BY DEF Fades

(* What closes or clears a pane takes away only. *)
LEMMA ClosedFades ==
  ASSUME TypeOK, NEW p \in PaneIds
  PROVE  /\ Closed(p) \in PaneRow /\ ~Closed(p).open
         /\ Gone \in PaneRow /\ ~Gone.open
<1>1. Gone \in PaneRow /\ ~Gone.open
  BY ConstantFacts DEF Gone, PaneRow, Slots
<1>2. /\ [pane[p] EXCEPT !.open = FALSE] \in PaneRow
      /\ ~[pane[p] EXCEPT !.open = FALSE].open
  <2>1. pane[p] \in PaneRow
    BY DEF TypeOK
  <2>2. QED BY <2>1 DEF PaneRow
<1>3. QED BY <1>1, <1>2 DEF Closed

(* What an exit records of the processes of a launch. *)
LEMMA ExitedFades ==
  ASSUME TypeOK, NEW p \in PaneIds, Exited(p)
  PROVE  /\ launch' \in [Agents -> LaunchRow \cup {None}]
         /\ \A a \in Agents :
              /\ launch'[a] = None <=> launch[a] = None
              /\ launch[a] # None =>
                   /\ launch'[a].slot = launch[a].slot
                   /\ launch'[a].pane = launch[a].pane
                   /\ launch[a].proc = "dead" => launch'[a].proc = "dead"
<1> SUFFICES ASSUME NEW a \in Agents
             PROVE  /\ launch'[a] \in LaunchRow \cup {None}
                    /\ launch'[a] = None <=> launch[a] = None
                    /\ launch[a] # None =>
                         /\ launch'[a].slot = launch[a].slot
                         /\ launch'[a].pane = launch[a].pane
                         /\ launch[a].proc = "dead" => launch'[a].proc = "dead"
  BY DEF Exited
<1>1. launch[a] \in LaunchRow \cup {None} /\ None \notin LaunchRow
  BY ConstantFacts DEF TypeOK
<1>2. CASE Recorded(a, p) /\ launch[a].proc = "alive"
  <2>1. launch'[a] = [launch[a] EXCEPT !.proc = "dead"] /\ launch[a] \in LaunchRow
    BY <1>1, <1>2 DEF Exited, Recorded
  <2>2. /\ launch'[a] \in LaunchRow /\ launch'[a].slot = launch[a].slot
        /\ launch'[a].pane = launch[a].pane /\ launch'[a].proc = "dead"
    BY <2>1 DEF LaunchRow
  <2>3. QED BY <1>1, <2>1, <2>2
<1>3. CASE ~(Recorded(a, p) /\ launch[a].proc = "alive")
  BY <1>1, <1>3 DEF Exited
<1>4. QED BY <1>2, <1>3

-----------------------------------------------------------------------------
(* Herdr, the processes and the agents.                                    *)

(* Commands start, exit and die with their panes, and panes are closed. *)
LEMMA HerdrKeeps ==
  ASSUME IInv, NEW p \in PaneIds, Herdr(p)
  PROVE  IInv'
<1>1. TypeOK /\ Owners /\ UNCHANGED <<controller, status, restoration, job>>
  BY DEF IInv, Settled, Herdr, PiStarts, PiExits, ClosePane, OrphanDies
<1>2. JobKept /\ StatusMoves /\ \A a \in Active : a \in Active'
  BY <1>1 DEF JobKept, StatusMoves, Active
<1>3. pane[p] \in PaneRow
  BY <1>1 DEF TypeOK
<1>4. /\ faults \in 0 .. MaxFaults
      /\ faults' \in 0 .. MaxFaults
  BY <1>1, BoundAssumption
     DEF TypeOK, Herdr, PiStarts, PiExits, ClosePane, OrphanDies, Fault
<1>5. CASE PiStarts(p)
  <2>1. /\ pane' = [pane EXCEPT ![p] = [pane[p] EXCEPT !.pi = "running"]]
        /\ pane[p].pi = "typed" /\ launch' = launch /\ p \in Open
    BY <1>5 DEF PiStarts
  <2>2. [pane[p] EXCEPT !.pi = "running"] \in PaneRow
    BY <1>3 DEF PaneRow
  <2>3. TypeOK'
    BY <1>1, <1>4, <2>1, <2>2 DEF TypeOK
  <2>4. Fades
    BY <1>1, <1>3, <2>1 DEF Fades, PaneRow, TypeOK
  <2>5. QED BY <1>1, <1>2, <2>3, <2>4, FadingStep
<1>6. CASE PiExits(p)
  <2>1. /\ pane' = [pane EXCEPT ![p] = [pane[p] EXCEPT !.pi = "none"]]
        /\ Exited(p) /\ p \in Open
    BY <1>6 DEF PiExits
  <2>2. [pane[p] EXCEPT !.pi = "none"] \in PaneRow
    BY <1>3 DEF PaneRow
  <2>3. TypeOK'
    BY <1>1, <1>4, <2>1, <2>2, ExitedFades DEF TypeOK
  <2>4. Fades
    BY <1>1, <1>3, <2>1, ExitedFades DEF Fades, PaneRow, TypeOK
  <2>5. QED BY <1>1, <1>2, <2>3, <2>4, FadingStep
<1>7. CASE ClosePane(p)
  <2>1. pane' = [pane EXCEPT ![p] = Closed(p)] /\ launch' = launch
    BY <1>7 DEF ClosePane
  <2>2. Closed(p) \in PaneRow /\ ~Closed(p).open
    BY <1>1, ClosedFades
  <2>3. TypeOK'
    BY <1>1, <1>4, <2>1, <2>2 DEF TypeOK
  <2>4. Fades
    BY <1>1, <2>1, <2>2 DEF Fades, TypeOK
  <2>5. QED BY <1>1, <1>2, <2>3, <2>4, FadingStep
<1>8. CASE OrphanDies(p)
  <2>1. pane' = [pane EXCEPT ![p] = Gone] /\ Exited(p)
    BY <1>8 DEF OrphanDies
  <2>2. Gone \in PaneRow /\ ~Gone.open
    BY <1>1, ClosedFades
  <2>3. TypeOK'
    BY <1>1, <1>4, <2>1, <2>2, ExitedFades DEF TypeOK
  <2>4. Fades
    BY <1>1, <2>1, <2>2, ExitedFades DEF Fades, TypeOK
  <2>5. QED BY <1>1, <1>2, <2>3, <2>4, FadingStep
<1>9. QED BY <1>5, <1>6, <1>7, <1>8 DEF Herdr

(* Messages of an agent and the record of its lost pane, both only between *)
(* jobs, and the parent's restart, also during one. *)
LEMMA AgentKeeps ==
  ASSUME IInv, NEW a \in Agents,
         Child(a) \/ RecordPaneLoss(a) \/ RestartControl(a)
  PROVE  IInv'
<1>1. TypeOK /\ UNCHANGED <<controller, launch, restoration, pane>>
  BY DEF IInv, Settled, Child, SessionStarted, Complete, ShutDown, Handled,
         RecordPaneLoss, RestartControl
<1>2. Fades
  BY <1>1, FadesTrivially
<1>3. CASE Child(a) \/ RecordPaneLoss(a)
  <2>1. PICK to \in Status \ {"planned"} :
          /\ job' = Idle /\ faults' = faults
          /\ status[a] \notin {"planned", "closed"}
          /\ status' = [status EXCEPT ![a] = to]
    BY <1>3 DEF Child, SessionStarted, Complete, ShutDown, Handled,
                RecordPaneLoss, Status
  <2>2. TypeOK'
    BY <1>1, <2>1, IdleKnows DEF TypeOK, JobType
  <2>3. StatusMoves
    BY <1>1, <2>1 DEF StatusMoves, TypeOK
  <2>4. QED BY <1>1, <1>2, <2>1, <2>2, <2>3, FadingStep
<1>4. CASE RestartControl(a)
  <2>1. /\ status[a] \in {"launching", "live"} /\ faults' \in 0 .. MaxFaults
        /\ status' = [status EXCEPT ![a] = "disconnected"]
        /\ job' = [job EXCEPT !.stale = job.step \in {"listed", "decided"}]
    BY <1>1, <1>4, BoundAssumption DEF RestartControl, Fault, TypeOK
  <2>2. (job.step \in {"listed", "decided"}) \in BOOLEAN
    OBVIOUS
  <2>3. job' \in JobType /\ JobKept
    BY <1>1, <2>1, <2>2 DEF TypeOK, JobType, JobKept
  <2>4. TypeOK'
    BY <1>1, <2>1, <2>3 DEF TypeOK, JobType, Status
  <2>5. StatusMoves /\ \A b \in Active : b \in Active'
    BY <1>1, <2>1 DEF StatusMoves, Active, TypeOK
  <2>6. QED BY <1>1, <1>2, <2>3, <2>4, <2>5, FadingStep
<1>5. QED BY <1>3, <1>4

(* The controller dies and comes back; nothing else changes. *)
LEMMA ControllerKeeps ==
  ASSUME IInv, Crash \/ StartAgain \/ StartByLaunch
  PROVE  IInv'
<1>1. TypeOK /\ UNCHANGED <<status, launch, restoration, pane>>
  BY DEF IInv, Settled, Crash, StartAgain, StartByLaunch
<1>2. Fades /\ StatusMoves /\ \A a \in Active : a \in Active'
  BY <1>1, FadesTrivially DEF StatusMoves, Active
<1>3. /\ job' = Idle \/ job' = job
      /\ controller' \in {"up", "down", "gated"} /\ faults' \in 0 .. MaxFaults
  BY <1>1, BoundAssumption
     DEF Crash, StartAgain, StartByLaunch, Fault, TypeOK
<1>4. TypeOK'
  BY <1>1, <1>3, IdleKnows DEF TypeOK, JobType
<1>5. QED BY <1>1, <1>2, <1>3, <1>4, FadingStep DEF JobKept

(* A job that gives up closes at most the pane it was about to use. *)
LEMMA GiveUpKeeps ==
  ASSUME IInv, Refuse \/ Fail
  PROVE  IInv'
<1>1. TypeOK /\ GiveUp /\ faults' \in 0 .. MaxFaults
  BY BoundAssumption DEF IInv, Settled, Refuse, Fail, Fault, TypeOK
<1>2. /\ job' = Idle /\ UNCHANGED <<controller, status, launch, restoration>>
      /\ \/ pane' = pane
         \/ \E p \in PaneIds : pane' = [pane EXCEPT ![p] = Closed(p)]
  BY <1>1 DEF GiveUp, Open
<1>3. StatusMoves
  BY <1>2 DEF StatusMoves
<1>4. TypeOK' /\ Fades
  <2>1. CASE pane' = pane
    BY <1>1, <1>2, <2>1, IdleKnows, FadesTrivially DEF TypeOK, JobType
  <2>2. CASE \E p \in PaneIds : pane' = [pane EXCEPT ![p] = Closed(p)]
    <3>1. PICK p \in PaneIds : pane' = [pane EXCEPT ![p] = Closed(p)]
      BY <2>2
    <3>2. Closed(p) \in PaneRow /\ ~Closed(p).open
      BY <1>1, ClosedFades
    <3>3. TypeOK'
      BY <1>1, <1>2, <3>1, <3>2, IdleKnows DEF TypeOK, JobType
    <3>4. Fades
      BY <1>1, <1>2, <3>1, <3>2 DEF Fades, TypeOK
    <3>5. QED BY <3>3, <3>4
  <2>3. QED BY <1>2, <2>1, <2>2
<1>5. QED BY <1>2, <1>3, <1>4, FadingStep

-----------------------------------------------------------------------------
(* The steps of a job.                                                     *)

(* Rows and panes stay in order when they are left alone. *)
LEMMA SettledSame ==
  ASSUME IInv, TypeOK', UNCHANGED <<status, launch, restoration, pane>>
  PROVE  Settled'
BY SettledFades, FadesTrivially DEF IInv, StatusMoves

(* The panes are listed. *)
LEMMA BeginRestoreKeeps ==
  ASSUME IInv, BeginRestore
  PROVE  IInv'
<1>1. /\ TypeOK /\ UNCHANGED <<controller, status, launch, restoration, pane, faults>>
      /\ job' = [Idle EXCEPT !.step = "listed", !.seen = Open]
  BY DEF IInv, Settled, BeginRestore
<1>2. Open' = Open /\ Open \subseteq PaneIds
  BY <1>1 DEF Open
<1>3. /\ job' \in JobType /\ job'.step = "listed" /\ job'.agent = None
      /\ job'.seen = Open /\ job'.want = <<>>
  BY <1>1, <1>2, IdleFields DEF JobType, Steps
<1>4. TypeOK'
  BY <1>1, <1>3 DEF TypeOK, JobType
<1>5. Wanted' /\ JobKnows'
  BY <1>2, <1>3 DEF Wanted, JobKnows, GridSteps
<1>6. QED BY <1>1, <1>4, <1>5, SettledSame DEF IInv

(* The first slots are taken by the discovered panes, the next one is the *)
(* new agent's. *)
LEMMA BeginLaunchKeeps ==
  ASSUME IInv, NEW a \in Agents, BeginLaunch(a)
  PROVE  IInv'
<1> DEFINE n == Cardinality(Discovered)
           At(slot) == CHOOSE p \in Discovered : pane[p].slot = slot
           agents == [i \in 1 .. n |-> pane[At(i - 1)].agent]
           want == IF a \in ToSet(agents) THEN agents ELSE Append(agents, a)
<1>1. /\ TypeOK /\ UNCHANGED <<controller, status, launch, restoration, pane, faults>>
      /\ job' = [Idle EXCEPT !.step = "decided", !.agent = a,
                             !.seen = Discovered, !.todo = {a}, !.want = want]
      /\ Allocatable(a)
  BY DEF IInv, Settled, BeginLaunch
<1>2. Discovered \subseteq PaneIds /\ n \in Nat
  <2>1. Discovered \subseteq PaneIds /\ IsFiniteSet(PaneIds)
    BY FS_Interval, BoundAssumption DEF Discovered, Open, PaneIds
  <2>2. QED BY <2>1, FS_Subset, FS_CardinalityType
<1>3. ASSUME NEW i \in 1 .. n
      PROVE  At(i - 1) \in Discovered /\ pane[At(i - 1)].slot = i - 1
  <2>1. i - 1 \in 0 .. n - 1
    BY <1>2
  <2>2. \E p \in Discovered : pane[p].slot = i - 1
    BY <1>1, <2>1 DEF Allocatable
  <2>3. QED BY <2>2
<1>4. ASSUME NEW i \in 1 .. n PROVE agents[i] \in Agents
  <2>1. pane[At(i - 1)].agent \in Expecting \cup {a}
    BY <1>1, <1>3 DEF Allocatable
  <2>2. QED BY <2>1 DEF Expecting
<1>5. ASSUME NEW i \in 1 .. n, NEW j \in 1 .. n, agents[i] = agents[j]
      PROVE  i = j
  <2>1. At(i - 1) = At(j - 1)
    BY <1>1, <1>3, <1>5 DEF Allocatable
  <2>2. i - 1 = j - 1
    BY <1>3, <2>1
  <2>3. QED BY <2>2, <1>2
<1> HIDE DEF n, At
<1>6. agents \in Seq(Agents) /\ Len(agents) = n
  BY <1>2, <1>4
<1>7. /\ want \in Seq(Agents)
      /\ \A i, j \in 1 .. Len(want) : want[i] = want[j] => i = j
      /\ \E i \in 1 .. Len(want) : want[i] = a
  <2> HIDE DEF agents
  <2>1. CASE a \in ToSet(agents)
    BY <1>5, <1>6, <2>1 DEF ToSet
  <2>2. CASE a \notin ToSet(agents)
    <3>1. \A i \in 1 .. n : agents[i] # a
      BY <1>6, <2>2 DEF ToSet
    <3>2. want = Append(agents, a)
      BY <2>2
    <3>3. /\ want \in Seq(Agents) /\ Len(want) = n + 1 /\ want[n + 1] = a
          /\ \A i \in 1 .. n : want[i] = agents[i]
      BY <3>2, <1>6, <1>2
    <3>4. QED BY <1>2, <1>5, <3>1, <3>3
  <2>3. QED BY <2>1, <2>2
<1> HIDE DEF want
<1>8. /\ job' \in JobType /\ job'.step = "decided" /\ job'.agent = a
      /\ job'.todo = {a} /\ job'.want = want
  BY <1>1, <1>2, <1>7, IdleFields DEF JobType, Steps
<1>9. TypeOK'
  BY <1>1, <1>8 DEF TypeOK, JobType
<1>10. Wanted' /\ JobKnows'
  BY <1>7, <1>8, ConstantFacts DEF Wanted, JobKnows, Launches, GridSteps
<1>11. QED BY <1>1, <1>9, <1>10, SettledSame DEF IInv

(* The grid that is found is the agents' in their slots. *)
LEMMA ListGridKeeps ==
  ASSUME IInv, ListGrid
  PROVE  IInv'
<1> DEFINE n == Len(job.want)
           grid == [i \in 1 .. n |-> IF Found(i - 1) = {} THEN None
                                     ELSE CHOOSE p \in Found(i - 1) : TRUE]
<1>1. /\ TypeOK /\ UNCHANGED <<controller, status, launch, restoration, pane, faults>>
      /\ job' = [job EXCEPT !.step = "growing", !.grid = grid]
      /\ GridAcceptable /\ SlotsUnique /\ Wanted /\ JobKnows
      /\ job.step = "decided"
  BY DEF IInv, Settled, ListGrid
<1>2. n \in Nat /\ n \in 1 .. MaxGridPanes
  BY <1>1 DEF GridAcceptable, MaxGridPanes
<1>3. ASSUME NEW i \in 1 .. n
      PROVE  /\ grid[i] \in PaneIds \cup {None}
             /\ grid[i] \in Open => grid[i] \in Found(i - 1)
             /\ Found(i - 1) # {} => grid[i] \in Found(i - 1)
  <2>1. Found(i - 1) \subseteq PaneIds /\ Open \subseteq PaneIds
    BY DEF Found, Open
  <2>2. CASE Found(i - 1) = {}
    BY <2>1, <2>2, ConstantFacts
  <2>3. CASE Found(i - 1) # {}
    BY <2>1, <2>3
  <2>4. QED BY <2>2, <2>3
<1>4. grid \in Seq(PaneIds \cup {None}) /\ Len(grid) = n
  <2>1. grid \in [1 .. n -> PaneIds \cup {None}]
    BY <1>3
  <2> HIDE DEF grid
  <2>2. QED BY <2>1, <1>2
<1> HIDE DEF grid
<1>5. /\ job' \in JobType /\ job'.step = "growing" /\ job'.agent = job.agent
      /\ job'.todo = job.todo /\ job'.want = job.want /\ job'.grid = grid
  BY <1>1, <1>4 DEF TypeOK, JobType, Steps
<1>6. TypeOK'
  BY <1>1, <1>5 DEF TypeOK, JobType
<1>7. Open' = Open
  BY <1>1 DEF Open
<1>8. GridOwned'
  <2>1. ASSUME NEW i \in 1 .. n, grid[i] \in Open
        PROVE  pane[grid[i]].slot = i - 1 /\ pane[grid[i]].agent = job.want[i]
    <3>1. pane[grid[i]].slot = i - 1
      BY <1>3, <2>1 DEF Found
    <3>2. job.want[pane[grid[i]].slot + 1] = pane[grid[i]].agent
      BY <1>1, <2>1 DEF GridAcceptable
    <3>3. QED BY <3>1, <3>2
  <2>2. QED BY <1>1, <1>2, <1>4, <1>5, <1>7, <2>1 DEF GridOwned
<1>9. ASSUME NEW p \in Open
      PROVE  pane[p].slot \in 0 .. n - 1 /\ grid[pane[p].slot + 1] = p
  <2>1. pane[p].slot \in 0 .. n - 1
    BY <1>1 DEF GridAcceptable, SlotsOf
  <2>2. pane[p].slot + 1 \in 1 .. n /\ pane[p].slot + 1 - 1 = pane[p].slot
    BY <1>2, <2>1
  <2>3. p \in Found(pane[p].slot)
    BY DEF Found
  <2>4. grid[pane[p].slot + 1] \in Found(pane[p].slot)
    <3>1. \A i \in 1 .. n : i - 1 = pane[p].slot => grid[i] \in Found(pane[p].slot)
      BY <1>3, <2>3
    <3>2. PICK i \in 1 .. n : i = pane[p].slot + 1
      BY <2>2
    <3>3. i - 1 = pane[p].slot
      BY <1>2, <2>1, <3>2
    <3>4. QED BY <3>1, <3>2, <3>3
  <2>5. QED BY <1>1, <2>1, <2>4 DEF Found, SlotsUnique
<1>10. Restores => Restores'
  BY <1>1, <1>5 DEF Restores, Reserved, Active
<1>11. Launches => Launches'
  BY <1>1, <1>5 DEF Launches
<1>12. Wanted' /\ JobKnows'
  BY <1>1, <1>5, <1>7, <1>8, <1>9, <1>10, <1>11
     DEF Wanted, JobKnows, GridSteps
<1>13. QED BY <1>1, <1>6, <1>12, SettledSame DEF IInv

(* All were bound before. *)
LEMMA BoundBeforeKeeps ==
  ASSUME IInv, BoundBefore
  PROVE  IInv'
<1>1. /\ TypeOK /\ UNCHANGED <<controller, status, launch, restoration, pane, faults>>
      /\ job' = [job EXCEPT !.step = "start"] /\ job.step = "bind"
      /\ Unbound = {} /\ Wanted /\ JobKnows
  BY DEF IInv, Settled, BoundBefore
<1>2. /\ job' \in JobType /\ job'.step = "start" /\ job'.agent = job.agent
      /\ job'.todo = job.todo /\ job'.want = job.want
  BY <1>1 DEF TypeOK, JobType, Steps
<1>3. TypeOK'
  BY <1>1, <1>2 DEF TypeOK, JobType
<1>4. job.agent = None /\ Restores
  BY <1>1 DEF JobKnows, Launches
<1>5. Restores'
  BY <1>1, <1>2, <1>4 DEF Restores, Reserved, Active, Unbound
<1>6. Wanted' /\ JobKnows'
  BY <1>1, <1>2, <1>4, <1>5 DEF Wanted, JobKnows, GridSteps
<1>7. QED BY <1>1, <1>3, <1>6, SettledSame DEF IInv

(* A reservation is made for agents whose panes and processes are gone. *)
LEMMA ReserveKeeps ==
  ASSUME IInv, Reserve
  PROVE  IInv'
<1> DEFINE targets == IF Pending # {} THEN Pending ELSE Missing(job.seen)
           N == Cardinality(Active)
<1>1. /\ TypeOK /\ Rows /\ Owners /\ SlotsUnique /\ RestoredInPlace
      /\ Wanted /\ JobKnows
      /\ job.step = "listed" /\ job.agent = None /\ Open \subseteq job.seen
      /\ Decidable(job.seen)
      /\ UNCHANGED <<controller, status, launch, pane, faults>>
      /\ restoration' = [a \in Agents |->
               IF a \in targets \ Pending
               THEN [phase |-> "reserved", replacement |-> None]
               ELSE restoration[a]]
      /\ job' = IF targets = {} THEN Idle
                ELSE [job EXCEPT !.step = "decided", !.todo = targets,
                                 !.want = BySlot]
  BY DEF IInv, Settled, Reserve, Restoring, JobKnows
<1>2. Active \subseteq Agents /\ N \in Nat
  <2>1. Active \subseteq Agents
    BY DEF Active
  <2>2. QED BY <2>1, ConstantFacts, FS_Subset, FS_CardinalityType
<1>3. ASSUME NEW a \in Active
      PROVE  launch[a] \in LaunchRow /\ launch[a] # None
  BY <1>1, ConstantFacts DEF Active, Rows, TypeOK
<1>4. ASSUME NEW i \in 1 .. N
      PROVE  BySlot[i] \in Active /\ launch[BySlot[i]].slot = i - 1
  <2>1. i - 1 \in 0 .. N - 1
    BY <1>2
  <2>2. \E a \in Active : launch[a].slot = i - 1
    BY <1>1, <2>1 DEF Decidable, RosterComplete
  <2>3. QED BY <2>2 DEF BySlot
<1>5. BySlot \in Seq(Agents) /\ Len(BySlot) = N
  <2>1. BySlot \in [1 .. N -> Agents]
    <3>1. BySlot = [i \in 1 .. N |-> BySlot[i]]
      BY DEF BySlot
    <3>2. QED BY <1>2, <1>4, <3>1
  <2>2. QED BY <2>1, <1>2
<1>6. \A i, j \in 1 .. N : BySlot[i] = BySlot[j] => i = j
  BY <1>2, <1>4
<1>7. ASSUME NEW a \in Active
      PROVE  launch[a].slot + 1 \in 1 .. N /\ BySlot[launch[a].slot + 1] = a
  <2>1. launch[a].slot \in 0 .. N - 1
    BY <1>1 DEF Decidable, RosterComplete
  <2>2. PICK i \in 1 .. N : i = launch[a].slot + 1 /\ i - 1 = launch[a].slot
    BY <1>2, <2>1
  <2>3. BySlot[i] \in Active /\ launch[BySlot[i]].slot = launch[a].slot
    BY <1>4, <2>2
  <2>4. BySlot[i] = a
    BY <1>1, <1>2, <1>3, <2>3 DEF SlotsUnique, Active
  <2>5. QED BY <2>2, <2>4
<1>8. targets \subseteq Active
  BY DEF Pending, Missing
<1>9. ASSUME NEW a \in targets \ Pending
      PROVE  /\ restoration[a] = None /\ launch[a].proc = "dead"
             /\ launch[a].pane \notin Open
             /\ \A p \in Open : pane[p].agent # a
  <2>1. /\ Pending = {} /\ a \in Missing(job.seen)
        /\ restoration[a] = None /\ launch[a].proc = "dead"
    BY <1>1 DEF Decidable, Restorable
  <2>2. \A p \in Open : pane[p].agent # a
    BY <1>1, <2>1 DEF Missing, Owned
  <2>3. launch[a].pane \notin Open
    BY <1>1, <1>3, <1>8, <1>2, <2>2 DEF RestoredInPlace
  <2>4. QED BY <2>1, <2>2, <2>3
<1> DEFINE row == [phase |-> "reserved", replacement |-> None]
<1>10. row \in RestorationRow /\ row.phase = "reserved" /\ row # None
  BY ConstantFacts DEF RestorationRow
<1> HIDE DEF targets, row
<1>11. \A a \in Agents : restoration'[a] = IF a \in targets \ Pending THEN row
                                           ELSE restoration[a]
  BY <1>1 DEF row
<1>12. restoration' \in [Agents -> RestorationRow \cup {None}]
  BY <1>1, <1>10 DEF TypeOK, row
<1>13. job' = Idle
         \/ /\ job' \in JobType /\ job'.step = "decided" /\ job'.agent = None
            /\ job'.todo = targets /\ job'.want = BySlot /\ targets # {}
  <2>1. job \in JobType
    BY <1>1 DEF TypeOK, JobType
  <2>2. CASE targets # {}
    <3>1. job' = [job EXCEPT !.step = "decided", !.todo = targets,
                             !.want = BySlot]
      BY <1>1, <2>2
    <3>2. QED BY <1>1, <1>2, <1>5, <1>8, <2>1, <2>2, <3>1 DEF JobType, Steps
  <2>3. QED BY <1>1, <2>2
<1>14. TypeOK'
  BY <1>1, <1>12, <1>13, IdleFields DEF TypeOK, JobType
<1>15. Open' = Open /\ Active' = Active
  BY <1>1 DEF Open, Active
<1>16. \A a \in Agents : Reserved(a)' <=> Reserved(a) \/ a \in targets \ Pending
  BY <1>10, <1>11, <1>9 DEF Reserved
<1>17. Rows'
  BY <1>1, <1>3, <1>8, <1>9, <1>10, <1>11, <1>15, <1>16 DEF Rows, Reserved
<1>18. Owners'
  BY <1>1, <1>9, <1>15, <1>16 DEF Owners
<1>19. SlotsUnique'
  BY <1>1, <1>15 DEF SlotsUnique
<1>20. RestoredInPlace'
  BY <1>1, <1>10, <1>11, <1>15 DEF RestoredInPlace
<1>21. Wanted' /\ JobKnows'
  <2>1. CASE job' = Idle
    BY <2>1, IdleKnows
  <2>2. CASE job' # Idle
    <3>1. Wanted'
      BY <1>5, <1>6, <1>13, <2>2 DEF Wanted
    <3>2. \A a \in targets : restoration'[a] # None
      BY <1>2, <1>8, <1>10, <1>11 DEF Pending
    <3>3. Restores'
      BY <1>1, <1>5, <1>7, <1>8, <1>13, <1>15, <2>2, <3>2 DEF Restores
    <3>4. QED BY <1>13, <2>2, <3>1, <3>3 DEF JobKnows, GridSteps
  <2>3. QED BY <2>1, <2>2
<1>22. QED BY <1>14, <1>17, <1>18, <1>19, <1>20, <1>21 DEF IInv, Settled

(* The agent that is to be started or confirmed was launched before. *)
LEMMA TargetFacts ==
  ASSUME IInv, job.step \in {"start", "await", "confirm"}
  PROVE  /\ Target \in job.todo /\ Target \in Agents
         /\ launch[Target] \in LaunchRow /\ launch[Target] # None
         /\ IF job.agent = None THEN Restores ELSE Launches
<1>1. TypeOK /\ Rows /\ JobKnows
  BY DEF IInv, Settled
<1>2. IF job.agent = None THEN Restores ELSE Launches
  BY <1>1 DEF JobKnows
<1>3. job.todo \subseteq Agents
  BY <1>1 DEF TypeOK
<1>4. job.todo # {} /\ \A a \in job.todo : launch[a] # None
  BY <1>1, <1>2, <1>3 DEF Restores, Launches, Rows, Active
<1>5. Target \in job.todo
  BY <1>1, <1>3, <1>4, NextIsIn DEF Target
<1>6. launch[Target] \in LaunchRow
  BY <1>1, <1>3, <1>4, <1>5 DEF TypeOK
<1>7. QED BY <1>2, <1>3, <1>4, <1>5, <1>6

(* The command is typed into the pane of the target's launch. *)
LEMMA StartPiKeeps ==
  ASSUME IInv, StartPi
  PROVE  IInv'
<1> DEFINE p == launch[Target].pane
           typed == [pane[p] EXCEPT !.pi = "typed"]
<1>1. /\ TypeOK /\ Wanted /\ job.step = "start"
      /\ UNCHANGED <<controller, status, launch, restoration, faults>>
      /\ p \in Open /\ pane[p].agent = Target
      /\ \/ pane' = pane
         \/ pane' = [pane EXCEPT ![p] = typed]
      /\ job' = [job EXCEPT !.step = "await"]
  BY DEF IInv, Settled, StartPi, Startable
<1>2. Target \in Agents /\ launch[Target] # None
      /\ IF job.agent = None THEN Restores ELSE Launches
  BY <1>1, TargetFacts
<1>3. p \in PaneIds /\ pane[p] \in PaneRow
  BY <1>1 DEF Open, TypeOK
<1>4. /\ typed \in PaneRow /\ typed.open = pane[p].open
      /\ typed.agent = pane[p].agent /\ typed.slot = pane[p].slot
      /\ typed.nonce = pane[p].nonce
  BY <1>3 DEF PaneRow
<1>5. /\ job' \in JobType /\ job'.step = "await" /\ job'.agent = job.agent
      /\ job'.todo = job.todo /\ job'.want = job.want
  BY <1>1 DEF TypeOK, JobType, Steps
<1> HIDE DEF typed
<1>6. TypeOK'
  BY <1>1, <1>3, <1>4, <1>5 DEF TypeOK, JobType
<1>7. Fades
  <2>1. CASE pane' = pane
    BY <1>1, <2>1, FadesTrivially
  <2>2. CASE pane' = [pane EXCEPT ![p] = typed]
    <3>1. \A q \in PaneIds : pane'[q] = IF q = p THEN typed ELSE pane[q]
      BY <1>1, <2>2 DEF TypeOK
    <3>2. ASSUME NEW q \in PaneIds, pane'[q].open
          PROVE  /\ pane[q].open /\ pane'[q].agent = pane[q].agent
                 /\ pane'[q].slot = pane[q].slot /\ pane'[q].nonce = pane[q].nonce
                 /\ pane[q].pi # "none" \/ pane'[q].pi = "none"
                      \/ /\ launch[pane[q].agent] # None
                         /\ launch[pane[q].agent].pane = q
      <4>1. CASE q = p
        BY <1>1, <1>2, <1>4, <3>1, <3>2, <4>1
      <4>2. CASE q # p
        BY <3>1, <3>2, <4>2
      <4>3. QED BY <4>1, <4>2
    <3>3. QED BY <1>1, <3>2 DEF Fades
  <2>3. QED BY <1>1, <2>1, <2>2
<1>8. Settled'
  BY <1>1, <1>6, <1>7, SettledFades DEF IInv, StatusMoves
<1>9. Restores => Restores'
  BY <1>1, <1>5 DEF Restores, Reserved, Active
<1>10. Launches => Launches'
  BY <1>1, <1>5 DEF Launches
<1>11. Wanted' /\ JobKnows'
  BY <1>1, <1>2, <1>5, <1>9, <1>10 DEF Wanted, JobKnows, GridSteps
<1>12. QED BY <1>8, <1>11 DEF IInv

(* The panes of the full grid get their tokens. *)
LEMMA TagPanesKeeps ==
  ASSUME IInv, TagPanes
  PROVE  IInv'
<1>1. /\ TypeOK /\ Wanted /\ JobKnows /\ job.step = "growing" /\ Exact
      /\ UNCHANGED <<controller, status, launch, restoration, faults>>
      /\ \A p \in PaneIds :
           pane'[p] = IF p \in Open THEN [pane[p] EXCEPT !.tagged = TRUE]
                      ELSE pane[p]
      /\ \/ job.agent # None /\ job' = [job EXCEPT !.step = "provisioned"]
         \/ job.agent = None /\ job' = [job EXCEPT !.step = "bind"]
         \/ job' = Idle
  BY DEF IInv, Settled, TagPanes, Restoring
<1>2. \A p \in PaneIds :
        /\ pane'[p] \in PaneRow /\ pane'[p].open = pane[p].open
        /\ pane'[p].agent = pane[p].agent /\ pane'[p].slot = pane[p].slot
        /\ pane'[p].nonce = pane[p].nonce /\ pane'[p].pi = pane[p].pi
  <2> SUFFICES ASSUME NEW p \in PaneIds
               PROVE  /\ pane'[p] \in PaneRow /\ pane'[p].open = pane[p].open
                      /\ pane'[p].agent = pane[p].agent
                      /\ pane'[p].slot = pane[p].slot
                      /\ pane'[p].nonce = pane[p].nonce
                      /\ pane'[p].pi = pane[p].pi
    OBVIOUS
  <2>1. pane[p] \in PaneRow
    BY <1>1 DEF TypeOK
  <2>2. CASE pane'[p] = pane[p]
    BY <2>1, <2>2
  <2>3. CASE pane'[p] = [pane[p] EXCEPT !.tagged = TRUE]
    BY <2>1, <2>3 DEF PaneRow
  <2>4. QED BY <1>1, <2>2, <2>3
<1>3. pane' \in [PaneIds -> PaneRow]
  <2>1. pane' = [p \in PaneIds |-> pane'[p]]
    BY DEF TagPanes
  <2>2. QED BY <1>2, <2>1
<1>4. Fades
  BY <1>1, <1>2 DEF Fades
<1>5. job' \in JobType
  BY <1>1, IdleFields DEF TypeOK, JobType, Steps
<1>6. TypeOK'
  BY <1>1, <1>3, <1>5 DEF TypeOK, JobType
<1>7. Settled'
  BY <1>1, <1>4, <1>6, SettledFades DEF IInv, StatusMoves
<1>8. CASE job' = Idle
  BY <1>7, <1>8, IdleKnows DEF IInv
<1>9. CASE job' # Idle
  <2>1. /\ job'.agent = job.agent /\ job'.want = job.want
        /\ job'.todo = job.todo /\ job'.grid = job.grid
        /\ \/ job'.step = "provisioned" /\ job.agent # None
           \/ job'.step = "bind" /\ job.agent = None
    BY <1>1, <1>9 DEF TypeOK
  <2>2. Open' = Open
    BY <1>2 DEF Open
  <2>3. job.agent = None /\ Restores => Restores'
    BY <1>1, <2>1 DEF Restores, Reserved, Active
  <2>4. job.agent # None /\ Launches => Launches'
    BY <1>1, <2>1 DEF Launches
  <2>5. GridOwned'
    <3>1. GridOwned /\ Open \subseteq PaneIds
      BY <1>1 DEF JobKnows, GridSteps, Open
    <3>2. QED BY <1>2, <2>1, <2>2, <3>1 DEF GridOwned
  <2>6. Full'
    BY <1>1, <2>1 DEF Exact, Full
  <2>7. Wanted' /\ JobKnows'
    BY <1>1, <2>1, <2>3, <2>4, <2>5, <2>6 DEF Wanted, JobKnows
  <2>8. QED BY <1>7, <2>7 DEF IInv
<1>10. QED BY <1>8, <1>9

(* The process of a started agent is recorded. *)
LEMMA ConfirmLaunchKeeps ==
  ASSUME IInv, ConfirmLaunch
  PROVE  IInv'
<1> DEFINE row == [launch[Target] EXCEPT !.proc = "alive"]
<1>1. /\ TypeOK /\ Wanted /\ job.step = "await"
      /\ UNCHANGED <<controller, status, restoration, pane, faults>>
      /\ launch' = [launch EXCEPT ![Target] = row]
      /\ launch[Target].proc # "dead"
      /\ \/ job.agent = None /\ job' = [job EXCEPT !.step = "confirm"]
         \/ job' = Idle
  BY DEF IInv, Settled, ConfirmLaunch, Restoring
<1>2. /\ Target \in Agents /\ launch[Target] \in LaunchRow
      /\ launch[Target] # None
      /\ IF job.agent = None THEN Restores ELSE Launches
  BY <1>1, TargetFacts
<1>3. /\ row \in LaunchRow /\ row # None /\ row.slot = launch[Target].slot
      /\ row.pane = launch[Target].pane
  BY <1>2, ConstantFacts DEF LaunchRow
<1>4. job' \in JobType
  BY <1>1, IdleFields DEF TypeOK, JobType, Steps
<1> HIDE DEF row
<1>5. TypeOK'
  BY <1>1, <1>2, <1>3, <1>4 DEF TypeOK, JobType
<1>6. Fades
  BY <1>1, <1>2, <1>3 DEF Fades, TypeOK
<1>7. Settled'
  BY <1>1, <1>5, <1>6, SettledFades DEF IInv, StatusMoves
<1>8. CASE job' = Idle
  BY <1>7, <1>8, IdleKnows DEF IInv
<1>9. CASE job.agent = None /\ job' = [job EXCEPT !.step = "confirm"]
  <2>1. /\ job'.step = "confirm" /\ job'.agent = None
        /\ job'.todo = job.todo /\ job'.want = job.want
        /\ job.todo \subseteq Agents
    BY <1>1, <1>9 DEF TypeOK
  <2>2. \A a \in Agents : launch[a] # None => launch'[a].slot = launch[a].slot
    BY <1>6 DEF Fades
  <2>3. \A a \in job.todo : launch[a] # None
    BY <1>2, <1>9, <2>1 DEF IInv, Settled, Rows, Restores, Active
  <2>4. Restores'
    BY <1>1, <1>2, <1>9, <2>1, <2>2, <2>3 DEF Restores, Reserved, Active
  <2>5. Wanted' /\ JobKnows'
    BY <1>1, <2>1, <2>4 DEF Wanted, JobKnows, GridSteps
  <2>6. QED BY <1>7, <2>5 DEF IInv
<1>10. QED BY <1>1, <1>8, <1>9

(* The reservation of the target, whose pane was bound before, is settled. *)
LEMMA ConfirmRestorationKeeps ==
  ASSUME IInv, ConfirmRestoration
  PROVE  IInv'
<1> DEFINE row == [restoration[Target] EXCEPT !.phase = "confirmed"]
<1>1. /\ TypeOK /\ Rows /\ Owners /\ SlotsUnique /\ RestoredInPlace
      /\ Wanted /\ JobKnows /\ job.step = "confirm"
      /\ UNCHANGED <<controller, status, launch, pane, faults>>
      /\ restoration' = [restoration EXCEPT ![Target] = row]
      /\ job' = IF job.todo = {Target} THEN Idle
                ELSE [job EXCEPT !.step = "start", !.todo = @ \ {Target}]
  BY DEF IInv, Settled, ConfirmRestoration
<1>2. /\ Target \in job.todo /\ Target \in Agents
      /\ job.agent = None /\ Restores
  BY <1>1, TargetFacts DEF Launches
<1>3. /\ restoration[Target] \in RestorationRow /\ restoration[Target] # None
      /\ ~Reserved(Target)
  BY <1>1, <1>2 DEF Restores, TypeOK
<1>4. /\ row \in RestorationRow /\ row # None /\ row.phase = "confirmed"
      /\ row.replacement = restoration[Target].replacement
  BY <1>3, ConstantFacts DEF RestorationRow
<1> HIDE DEF row
<1>5. \A a \in Agents : restoration'[a] = IF a = Target THEN row
                                          ELSE restoration[a]
  BY <1>1, <1>2 DEF TypeOK
<1>6. restoration[Target].phase # "reserved"
  BY <1>3 DEF Reserved
<1>7. /\ \A a \in Agents : Reserved(a)' <=> Reserved(a)
      /\ Open' = Open
  BY <1>1, <1>3, <1>4, <1>5 DEF Reserved, Open
<1>8. \/ job' = Idle
      \/ /\ job' \in JobType /\ job'.step = "start" /\ job'.agent = None
         /\ job'.want = job.want /\ job'.todo = job.todo \ {Target}
         /\ job'.todo # {}
  <2>1. job \in JobType
    BY <1>1 DEF TypeOK, JobType
  <2>2. CASE job.todo = {Target}
    BY <1>1, <2>2
  <2>3. CASE job.todo # {Target}
    <3>1. job' = [job EXCEPT !.step = "start", !.todo = @ \ {Target}]
      BY <1>1, <2>3
    <3>2. job.todo \ {Target} # {}
      BY <1>2, <2>3
    <3>3. /\ job' \in JobType /\ job'.step = "start" /\ job'.agent = job.agent
          /\ job'.want = job.want /\ job'.todo = job.todo \ {Target}
      BY <2>1, <3>1 DEF JobType, Steps
    <3>4. QED BY <1>2, <3>2, <3>3
  <2>4. QED BY <2>2, <2>3
<1>9. TypeOK'
  BY <1>1, <1>2, <1>4, <1>8, IdleFields DEF TypeOK, JobType
<1>10. Rows'
  BY <1>1, <1>3, <1>4, <1>5, <1>6, <1>7 DEF Rows
<1>11. Owners'
  BY <1>1, <1>7 DEF Owners
<1>12. SlotsUnique'
  BY <1>1, <1>7 DEF SlotsUnique
<1>13. RestoredInPlace'
  BY <1>1, <1>3, <1>4, <1>5, <1>6, <1>7 DEF RestoredInPlace
<1>14. CASE job' = Idle
  BY <1>9, <1>10, <1>11, <1>12, <1>13, <1>14, IdleKnows DEF IInv, Settled
<1>15. CASE job' # Idle
  <2>1. job.todo \subseteq Agents
    BY <1>1 DEF TypeOK
  <2>2. Restores'
    BY <1>1, <1>2, <1>4, <1>5, <1>7, <1>8, <1>15, <2>1 DEF Restores, Active
  <2>3. Wanted' /\ JobKnows'
    BY <1>1, <1>8, <1>15, <2>2 DEF Wanted, JobKnows, GridSteps
  <2>4. QED BY <1>9, <1>10, <1>11, <1>12, <1>13, <2>3 DEF IInv, Settled
<1>16. QED BY <1>14, <1>15

(* The split fills a free slot of the grid with a pane that was free. *)
LEMMA SplitIsFree ==
  ASSUME IInv, job.step = "growing", ~Full
  PROVE  /\ NextSplit[2] \in 0 .. Len(job.want) - 1
         /\ job.grid[NextSplit[2] + 1] = None
<1> DEFINE n == Len(job.grid)
           held == {i - 1 : i \in {k \in DOMAIN job.grid : job.grid[k] # None}}
<1>1. /\ n = Len(job.want) /\ n \in 1 .. MaxGridPanes
      /\ DOMAIN job.grid = 1 .. n
  BY DEF IInv, Settled, JobKnows, GridSteps, GridOwned, TypeOK
<1> HIDE DEF n
<1>2. n \in Nat /\ n >= 1
  <2>1. n \in 1 .. MaxGridPanes
    BY <1>1
  <2>2. QED BY <2>1 DEF MaxGridPanes
<1>3. CASE job.grid[1] = None
  <2>1. NextSplit[2] = 0
    BY <1>3 DEF NextSplit
  <2>2. QED BY <1>1, <1>2, <1>3, <2>1
<1>4. CASE job.grid[1] # None
  <2>1. held \in SUBSET (0 .. n - 1)
    BY <1>1, <1>2
  <2>2. 0 \in held
    BY <1>1, <1>2, <1>4
  <2>3. \A i \in 1 .. n : i - 1 \notin held => job.grid[i] = None
    BY <1>1
  <2>4. held # 0 .. n - 1
    <3>1. PICK i \in 1 .. n : job.grid[i] = None
      BY <1>1 DEF Full
    <3>2. i - 1 \notin held
      BY <1>1, <1>2, <3>1
    <3>3. i - 1 \in 0 .. n - 1
      BY <1>2
    <3> HIDE DEF held
    <3>4. QED BY <3>2, <3>3
  <2>5. NextSplit = NextSplitOf(n, held)
    BY <1>4 DEF NextSplit, n
  <2> HIDE DEF held
  <2>6. NextSplitOf(n, held)[2] \in (0 .. n - 1) \ held
    BY <1>1, <2>1, <2>2, <2>4, SplitFacts
  <2> DEFINE s == NextSplitOf(n, held)[2]
  <2>7. s \in 0 .. n - 1 /\ s \notin held
    BY <2>6
  <2> HIDE DEF s
  <2>8. PICK i \in 1 .. n : i = s + 1 /\ i - 1 = s
    BY <1>2, <2>7
  <2>9. job.grid[i] = None
    BY <2>3, <2>7, <2>8
  <2>10. QED BY <1>1, <2>5, <2>7, <2>8, <2>9 DEF s
<1>5. QED BY <1>3, <1>4

(* The new pane stands for the agent and the slot that were missing. *)
LEMMA GrowGridKeeps ==
  ASSUME IInv, GrowGrid
  PROVE  IInv'
<1> DEFINE n == Len(job.want)
           slot == NextSplit[2]
           p == CHOOSE q \in FreshIds : \A r \in FreshIds : q <= r
           a == job.want[slot + 1]
           new == Created(a, slot)
<1>1. /\ TypeOK /\ Rows /\ Owners /\ SlotsUnique /\ RestoredInPlace
      /\ Wanted /\ JobKnows /\ job.step = "growing" /\ GridOwned
      /\ UNCHANGED <<controller, status, launch, restoration, faults>>
      /\ pane' = [pane EXCEPT ![p] = new]
      /\ job' = [job EXCEPT !.grid[slot + 1] = p]
  BY DEF IInv, Settled, GrowGrid, JobKnows, GridSteps
<1>2. slot \in 0 .. n - 1 /\ job.grid[slot + 1] = None
  BY SplitIsFree DEF GrowGrid
<1>3. /\ p \in PaneIds /\ ~pane[p].open
      /\ \A b \in Agents : launch[b] # None => launch[b].pane # p
      /\ \A i \in 1 .. Len(job.grid) : job.grid[i] # p
  <2>1. FreshIds # {} /\ FreshIds \in SUBSET Nat
    BY DEF GrowGrid, FreshIds, PaneIds
  <2>2. p \in FreshIds
    BY <2>1, Smallest
  <2> HIDE DEF p
  <2>3. p \in PaneIds /\ ~Gone.open
    BY <1>1, <2>2, ClosedFades DEF FreshIds
  <2>4. \A i \in 1 .. Len(job.grid) : job.grid[i] \in ToSet(job.grid)
    BY <1>1 DEF ToSet, TypeOK
  <2>5. QED BY <2>2, <2>3, <2>4 DEF FreshIds
<1>4. /\ n \in Nat /\ n <= Cardinality(Agents) /\ Cardinality(Agents) \in Nat
      /\ Len(job.grid) = n /\ job.want \in Seq(Agents)
      /\ job.grid \in Seq(PaneIds \cup {None})
  <2>1. job.want \in Seq(Agents) /\ job.grid \in Seq(PaneIds \cup {None})
    BY <1>1 DEF TypeOK
  <2>2. n <= Cardinality(Agents)
    BY <1>1, <2>1, WantFits DEF Wanted
  <2>3. n \in Nat /\ Len(job.grid) = n
    BY <1>1, <2>1 DEF GridOwned
  <2>4. QED BY <2>1, <2>2, <2>3, ConstantFacts
<1> HIDE DEF slot, p
<1>5. /\ slot \in Slots /\ slot \in Nat /\ slot + 1 \in 1 .. n /\ a \in Agents
  BY <1>2, <1>4 DEF Slots
<1> HIDE DEF a
<1>6. /\ new \in PaneRow /\ new.open /\ new.agent = a /\ new.slot = slot
      /\ new.nonce = (restoration[a] # None) /\ new.pi = "none"
  BY <1>5 DEF Created, PaneRow
<1> HIDE DEF new
<1>7. /\ job'.step = "growing" /\ job'.agent = job.agent
      /\ job'.want = job.want /\ job'.todo = job.todo
      /\ job'.grid = [job.grid EXCEPT ![slot + 1] = p]
  BY <1>1 DEF TypeOK
<1>8. /\ job'.grid \in Seq(PaneIds \cup {None}) /\ Len(job'.grid) = n
      /\ \A i \in 1 .. n : job'.grid[i] = IF i = slot + 1 THEN p
                                          ELSE job.grid[i]
  BY <1>3, <1>4, <1>5, <1>7
<1>9. job' \in JobType
  BY <1>1, <1>7, <1>8 DEF TypeOK, JobType
<1>10. TypeOK'
  BY <1>1, <1>3, <1>6, <1>9 DEF TypeOK, JobType
<1>11. \A q \in PaneIds : pane'[q] = IF q = p THEN new ELSE pane[q]
  BY <1>1 DEF TypeOK
<1>12. /\ Open \subseteq PaneIds /\ p \notin Open
       /\ \A q : q \in Open' <=> q \in Open \/ q = p
       /\ \A b \in Agents : Reserved(b)' <=> Reserved(b)
  BY <1>1, <1>3, <1>6, <1>11 DEF Open, Reserved
<1>13. ASSUME NEW q \in Open
       PROVE  pane[q].slot # slot /\ pane[q].agent # a
  <2>1. /\ pane[q].slot \in 0 .. n - 1 /\ job.grid[pane[q].slot + 1] = q
        /\ q # None
    BY <1>1, <1>12, ConstantFacts DEF JobKnows
  <2>2. pane[q].slot # slot
    BY <1>2, <2>1
  <2>3. PICK i \in 1 .. n : i = pane[q].slot + 1
    BY <1>4, <2>1
  <2>4. pane[q].agent = job.want[i]
    BY <1>1, <1>4, <2>1, <2>3 DEF GridOwned
  <2>5. pane[q].agent # a
    BY <1>1, <1>2, <1>5, <2>1, <2>3, <2>4 DEF Wanted, a
  <2>6. QED BY <2>2, <2>5
<1>14. Rows'
  <2>1. \A b \in Agents : Reserved(b) => launch[b].pane # p
    BY <1>1, <1>3 DEF Rows, Reserved
  <2>2. QED BY <1>1, <1>12, <2>1 DEF Rows
<1>15. Owners'
  <2>1. Reserved(a) => new.nonce
    BY <1>6 DEF Reserved
  <2>2. QED BY <1>1, <1>3, <1>5, <1>6, <1>11, <1>12, <2>1 DEF Owners
<1>16. SlotsUnique'
  BY <1>1, <1>3, <1>6, <1>11, <1>12, <1>13 DEF SlotsUnique
<1>17. RestoredInPlace'
  BY <1>1, <1>3, <1>11, <1>12 DEF RestoredInPlace
<1>18. GridOwned'
  <2>1. ASSUME NEW i \in 1 .. n, job'.grid[i] \in Open'
        PROVE  /\ pane'[job'.grid[i]].slot = i - 1
               /\ pane'[job'.grid[i]].agent = job.want[i]
    <3>1. CASE i = slot + 1
      BY <1>3, <1>5, <1>6, <1>8, <1>11, <3>1 DEF a
    <3>2. CASE i # slot + 1
      <4>1. job'.grid[i] = job.grid[i] /\ job.grid[i] # p
        BY <1>3, <1>4, <1>8, <3>2
      <4>2. job.grid[i] \in Open /\ job.grid[i] \in PaneIds
        BY <1>12, <2>1, <4>1
      <4>3. QED BY <1>1, <1>4, <1>11, <4>1, <4>2 DEF GridOwned
    <3>3. QED BY <3>1, <3>2
  <2>2. QED BY <1>1, <1>4, <1>7, <1>8, <2>1 DEF GridOwned
<1>19. ASSUME NEW q \in Open'
       PROVE  pane'[q].slot \in 0 .. n - 1 /\ job'.grid[pane'[q].slot + 1] = q
  <2>1. CASE q = p
    BY <1>2, <1>3, <1>5, <1>6, <1>8, <1>11, <2>1
  <2>2. CASE q # p
    <3>1. q \in Open /\ pane'[q] = pane[q]
      BY <1>11, <1>12, <2>2
    <3>2. /\ pane[q].slot \in 0 .. n - 1 /\ job.grid[pane[q].slot + 1] = q
          /\ pane[q].slot # slot
      BY <1>1, <1>13, <3>1 DEF JobKnows
    <3>3. PICK i \in 1 .. n : i = pane[q].slot + 1 /\ i # slot + 1
      BY <1>4, <1>5, <3>2
    <3>4. job'.grid[i] = job.grid[i]
      BY <1>8, <3>3
    <3>5. QED BY <3>1, <3>2, <3>3, <3>4
  <2>3. QED BY <2>1, <2>2
<1>20. Restores => Restores'
  BY <1>1, <1>7 DEF Restores, Reserved, Active
<1>21. Launches => Launches'
  BY <1>1, <1>7 DEF Launches
<1>22. Wanted' /\ JobKnows'
  BY <1>1, <1>7, <1>18, <1>19, <1>20, <1>21 DEF Wanted, JobKnows, GridSteps
<1>23. QED
  BY <1>10, <1>14, <1>15, <1>16, <1>17, <1>22 DEF IInv, Settled

(* The replacement is the pane in the agent's own slot of the grid. *)
LEMMA BindKeeps ==
  ASSUME IInv, Bind
  PROVE  IInv'
<1> DEFINE n == Len(job.want)
           a == NextIn(Unbound)
           p == job.grid[launch[a].slot + 1]
           row == [launch[a] EXCEPT !.pane = p, !.proc = "none"]
           res == [phase |-> "bound", replacement |-> p]
<1>1. /\ TypeOK /\ Rows /\ Owners /\ SlotsUnique /\ RestoredInPlace
      /\ Wanted /\ JobKnows /\ job.step = "bind" /\ Unbound # {}
      /\ job.agent = None /\ Restores /\ GridOwned /\ Full
      /\ BindTo(a, p)
  BY DEF IInv, Settled, Bind, JobKnows, Launches, GridSteps
<1>2. /\ UNCHANGED <<controller, pane, faults>>
      /\ restoration' = [restoration EXCEPT ![a] = res]
      /\ launch' = [launch EXCEPT ![a].pane = p, ![a].proc = "none"]
      /\ status' = [status EXCEPT ![a] = "launching"]
      /\ job' = IF Unbound = {a} THEN [job EXCEPT !.step = "start"] ELSE job
  BY <1>1 DEF BindTo
<1>3. a \in job.todo /\ Reserved(a) /\ a \in Agents /\ a \in Active
  <2>1. Unbound \subseteq Agents /\ \A b \in Unbound : launch[b] # None
    BY <1>1 DEF Unbound, Restores, Active, Rows, TypeOK
  <2>2. a \in Unbound
    BY <1>1, <2>1, NextIsIn
  <2> HIDE DEF a
  <2>3. QED BY <1>1, <2>1, <2>2 DEF Unbound, Restores
<1> HIDE DEF a
<1>4. /\ n \in Nat /\ launch[a].slot + 1 \in 1 .. n
      /\ job.want[launch[a].slot + 1] = a
      /\ launch[a] \in LaunchRow /\ launch[a] # None
      /\ launch[a].slot \in Nat /\ launch[a].pane \notin Open
      /\ restoration[a] # None
  BY <1>1, <1>3, ConstantFacts
     DEF Restores, TypeOK, Rows, Active, LaunchRow, Slots
<1>5. p \in PaneIds
  <2>1. job.grid \in Seq(PaneIds \cup {None}) /\ Len(job.grid) = n
    BY <1>1 DEF TypeOK, GridOwned
  <2>2. launch[a].slot + 1 \in DOMAIN job.grid
    BY <1>4, <2>1
  <2>3. QED BY <1>1, <2>1, <2>2 DEF Full
<1>6. p \in Open => pane[p].slot = launch[a].slot /\ pane[p].agent = a
  <2>1. PICK i \in 1 .. Len(job.grid) : i = launch[a].slot + 1
    BY <1>1, <1>4 DEF GridOwned
  <2>2. i - 1 = launch[a].slot
    BY <1>4, <2>1
  <2>3. QED BY <1>1, <1>4, <2>1, <2>2 DEF GridOwned
<1> HIDE DEF p
<1>7. /\ row \in LaunchRow /\ row # None /\ row.slot = launch[a].slot
      /\ row.pane = p /\ res \in RestorationRow /\ res # None
      /\ res.phase = "bound" /\ res.replacement = p
  <2>1. /\ row \in LaunchRow /\ row.slot = launch[a].slot
        /\ row.pane = p
    BY <1>4, <1>5 DEF LaunchRow
  <2>2. res \in RestorationRow /\ res.phase = "bound" /\ res.replacement = p
    BY <1>5 DEF RestorationRow
  <2> HIDE DEF row, res
  <2>3. QED BY <2>1, <2>2, ConstantFacts
<1>8. \A b \in Agents : launch'[b] = IF b = a THEN row ELSE launch[b]
  BY <1>1, <1>2, <1>3 DEF TypeOK
<1>9. launch' \in [Agents -> LaunchRow \cup {None}]
  <2>1. launch' = [b \in Agents |-> launch'[b]]
    BY <1>1, <1>2 DEF TypeOK
  <2> HIDE DEF row
  <2>2. \A b \in Agents : launch'[b] \in LaunchRow \cup {None}
    BY <1>1, <1>7, <1>8 DEF TypeOK
  <2>3. QED BY <2>1, <2>2
<1> HIDE DEF row, res
<1>10. /\ \A b \in Agents : restoration'[b] = IF b = a THEN res
                                              ELSE restoration[b]
       /\ \A b \in Agents : status'[b] = IF b = a THEN "launching"
                                         ELSE status[b]
  BY <1>1, <1>2 DEF TypeOK
<1>11. /\ job' \in JobType /\ job'.agent = None /\ job'.want = job.want
       /\ job'.todo = job.todo /\ job'.grid = job.grid
       /\ \/ job'.step = "start" /\ Unbound = {a}
          \/ job'.step = "bind"
  BY <1>1, <1>2 DEF TypeOK, JobType, Steps
<1>12. TypeOK'
  BY <1>1, <1>2, <1>3, <1>7, <1>9, <1>11 DEF TypeOK, JobType, Status
<1>13. /\ Open' = Open /\ Active' = Active /\ pane' = pane
       /\ Open \subseteq PaneIds
       /\ \A b \in Agents : Reserved(b)' <=> Reserved(b) /\ b # a
  BY <1>2, <1>3, <1>7, <1>10 DEF Open, Active, Reserved
<1>14. Rows'
  BY <1>1, <1>7, <1>8, <1>10, <1>13 DEF Rows
<1>15. Owners'
  <2>1. Owners
    BY <1>1
  <2>2. \A q \in Open : pane[q].agent = a => pane[q].pi = "none"
    BY <1>4, <2>1 DEF Owners
  <2>3. QED BY <1>8, <1>13, <2>1, <2>2 DEF Owners
<1>16. SlotsUnique'
  <2>1. status[a] # "closed"
    BY <1>3 DEF Active
  <2>2. \A b \in Agents :
          /\ launch'[b] # None <=> launch[b] # None
          /\ launch[b] # None => launch'[b].slot = launch[b].slot
          /\ status'[b] = "closed" <=> status[b] = "closed"
    BY <1>4, <1>7, <1>8, <1>10, <2>1
  <2>3. SlotsUnique
    BY <1>1
  <2>4. QED BY <1>13, <2>2, <2>3 DEF SlotsUnique
<1>17. RestoredInPlace'
  <2>1. p \in Open => pane[p].nonce
    BY <1>1, <1>3, <1>6 DEF Owners
  <2>2. RestoredInPlace
    BY <1>1
  <2>3. ASSUME NEW b \in Agents, launch'[b] # None, launch'[b].pane \in Open
        PROVE  LET q == pane[launch'[b].pane] IN
               /\ q.agent = b /\ q.slot = launch'[b].slot
               /\ restoration'[b] # None /\ restoration'[b].phase # "reserved"
                    => q.nonce /\ restoration'[b].replacement = launch'[b].pane
    <3>1. CASE b = a
      BY <1>3, <1>6, <1>7, <1>8, <1>10, <2>1, <2>3, <3>1
    <3>2. CASE b # a
      BY <1>8, <1>10, <2>2, <2>3, <3>2 DEF RestoredInPlace
    <3>3. QED BY <3>1, <3>2
  <2>4. QED BY <1>13, <2>3 DEF RestoredInPlace
<1>18. Restores'
  <2>1. job.todo \subseteq Agents
    BY <1>1 DEF TypeOK
  <2>2. ASSUME NEW b \in job.todo
        PROVE  /\ b \in Active' /\ restoration'[b] # None
               /\ launch'[b].slot = launch[b].slot
    BY <1>1, <1>7, <1>8, <1>10, <1>13, <2>1 DEF Restores
  <2>3. ASSUME NEW b \in job.todo, job'.step = "start"
        PROVE  ~Reserved(b)'
    BY <1>11, <1>13, <2>1, <2>3 DEF Unbound
  <2>4. QED BY <1>1, <1>11, <2>2, <2>3 DEF Restores
<1>19. GridOwned' /\ Full'
  BY <1>1, <1>2, <1>11, <1>13 DEF GridOwned, Full
<1>20. Wanted' /\ JobKnows'
  BY <1>1, <1>11, <1>18, <1>19 DEF Wanted, JobKnows, GridSteps
<1>21. QED
  BY <1>12, <1>14, <1>15, <1>16, <1>17, <1>20 DEF IInv, Settled

(* What a job that is about to materialize an agent knows of its place. *)
LEMMA PlaceFacts ==
  ASSUME IInv, job.step = "provisioned"
  PROVE  /\ job.agent \in Agents /\ Launches /\ GridOwned /\ Full
         /\ Place \in 1 .. Len(job.want) /\ job.want[Place] = job.agent
         /\ Place - 1 \in Slots /\ Provisioned \in PaneIds
         /\ Provisioned \in Open => /\ pane[Provisioned].agent = job.agent
                                    /\ pane[Provisioned].slot = Place - 1
<1>1. /\ TypeOK /\ Wanted /\ GridOwned /\ Full /\ Launches
      /\ job.agent # None
  BY DEF IInv, Settled, JobKnows, GridSteps, Restores
<1>2. /\ job.agent \in Agents /\ job.want \in Seq(Agents)
      /\ job.grid \in Seq(PaneIds \cup {None})
  BY <1>1 DEF TypeOK
<1>3. Place \in 1 .. Len(job.want) /\ job.want[Place] = job.agent
  BY <1>1, <1>2 DEF Place, Launches
<1>4. /\ Len(job.want) \in Nat /\ Len(job.want) <= Cardinality(Agents)
      /\ Cardinality(Agents) \in Nat
  BY <1>1, <1>2, WantFits, ConstantFacts DEF Wanted
<1>5. Place - 1 \in Slots
  BY <1>3, <1>4 DEF Slots
<1>6. Place \in DOMAIN job.grid /\ Place \in 1 .. Len(job.grid)
  BY <1>1, <1>2, <1>3 DEF GridOwned
<1>7. Provisioned \in PaneIds
  BY <1>1, <1>2, <1>6 DEF Full, Provisioned
<1>8. Provisioned \in Open => /\ pane[Provisioned].agent = job.agent
                              /\ pane[Provisioned].slot = Place - 1
  BY <1>1, <1>3, <1>6 DEF GridOwned, Provisioned
<1>9. QED BY <1>1, <1>2, <1>3, <1>5, <1>7, <1>8

(* A new agent gets the slot and the pane that the grid has for it. *)
LEMMA MaterializeKeeps ==
  ASSUME IInv, Materialize
  PROVE  IInv'
<1> DEFINE a == job.agent
           row == [slot |-> Place - 1, pane |-> Provisioned, proc |-> "none"]
<1>1. /\ TypeOK /\ Rows /\ Owners /\ SlotsUnique /\ RestoredInPlace
      /\ Wanted /\ job.step = "provisioned"
      /\ SlotFree /\ status[a] \in {"planned", "launching"}
      /\ UNCHANGED <<controller, restoration, pane, faults>>
      /\ status' = [status EXCEPT ![a] = "launching"]
      /\ launch' = IF launch[a] # None THEN launch
                   ELSE [launch EXCEPT ![a] = row]
      /\ job' = [job EXCEPT !.step = "start"]
  BY DEF IInv, Settled, Materialize, Materializable, Materialized
<1>2. /\ a \in Agents /\ Launches /\ Place - 1 \in Slots
      /\ Provisioned \in PaneIds
      /\ Provisioned \in Open => /\ pane[Provisioned].agent = a
                                 /\ pane[Provisioned].slot = Place - 1
  BY <1>1, PlaceFacts
<1>3. /\ job' \in JobType /\ job'.step = "start" /\ job'.agent = a
      /\ job'.want = job.want /\ job'.todo = job.todo
  BY <1>1 DEF TypeOK, JobType, Steps
<1>4. ASSUME launch'[a] # None PROVE Wanted' /\ JobKnows'
  BY <1>1, <1>2, <1>3, <1>4, ConstantFacts
     DEF Wanted, JobKnows, Launches, GridSteps
<1>5. CASE status[a] = "launching"
  <2>1. launch[a] # None
    BY <1>1, <1>2, <1>5 DEF Rows
  <2>2. UNCHANGED <<status, launch>>
    BY <1>1, <1>5, <2>1 DEF TypeOK
  <2>3. TypeOK'
    BY <1>1, <1>3, <2>2 DEF TypeOK, JobType
  <2>4. QED BY <1>1, <1>4, <2>1, <2>2, <2>3, SettledSame DEF IInv
<1>6. CASE status[a] = "planned"
  <2>1. launch[a] = None /\ restoration[a] = None
    BY <1>1, <1>2, <1>6 DEF Rows
  <2>2. /\ row \in LaunchRow /\ row # None /\ row.slot = Place - 1
        /\ row.pane = Provisioned
    BY <1>2, ConstantFacts DEF LaunchRow
  <2> HIDE DEF row
  <2>3. /\ \A b \in Agents : launch'[b] = IF b = a THEN row ELSE launch[b]
        /\ \A b \in Agents : status'[b] = IF b = a THEN "launching"
                                          ELSE status[b]
    BY <1>1, <2>1 DEF TypeOK
  <2>4. TypeOK'
    BY <1>1, <1>3, <2>1, <2>2 DEF TypeOK, JobType, Status
  <2>5. Open' = Open /\ \A b \in Agents : Reserved(b)' <=> Reserved(b)
    BY <1>1 DEF Open, Reserved
  <2>6. ~Reserved(a)
    BY <2>1 DEF Reserved
  <2>7. Rows'
    BY <1>1, <2>1, <2>2, <2>3, <2>5, <2>6 DEF Rows
  <2>8. Owners'
    BY <1>1, <2>1, <2>3, <2>5 DEF Owners
  <2>9. SlotsUnique'
    <3>1. ASSUME NEW b \in Agents \ {a}, launch'[b] # None, status'[b] # "closed"
          PROVE  launch'[b].slot # row.slot
      BY <1>1, <2>2, <2>3, <3>1 DEF SlotFree
    <3>2. ASSUME NEW b \in Agents, NEW c \in Agents,
                 launch'[b] # None, launch'[c] # None,
                 "closed" \notin {status'[b], status'[c]},
                 launch'[b].slot = launch'[c].slot
          PROVE  b = c
      <4>1. CASE b = a
        BY <1>2, <2>3, <3>1, <3>2, <4>1
      <4>2. CASE c = a
        BY <1>2, <2>3, <3>1, <3>2, <4>2
      <4>3. CASE b # a /\ c # a
        BY <1>1, <2>3, <3>2, <4>3 DEF SlotsUnique
      <4>4. QED BY <4>1, <4>2, <4>3
    <3>3. QED BY <1>1, <2>5, <3>2 DEF SlotsUnique
  <2>10. RestoredInPlace'
    BY <1>1, <1>2, <2>1, <2>2, <2>3, <2>5 DEF RestoredInPlace
  <2>11. Wanted' /\ JobKnows'
    BY <1>2, <1>4, <2>2, <2>3
  <2>12. QED BY <2>4, <2>7, <2>8, <2>9, <2>10, <2>11 DEF IInv, Settled
<1>7. QED BY <1>1, <1>5, <1>6

-----------------------------------------------------------------------------
(* The invariance.                                                         *)

(* Every step of the executor, Herdr, the processes, the agents, the parent *)
(* and the controller keeps the invariant. *)
LEMMA StepKeeps == IInv /\ [Next]_vars => IInv'
<1> SUFFICES ASSUME IInv, [Next]_vars PROVE IInv'
  OBVIOUS
<1>1. CASE JobStep
  <2>1. CASE Reserve
    BY <2>1, ReserveKeeps
  <2>2. CASE ListGrid
    BY <2>2, ListGridKeeps
  <2>3. CASE GrowGrid
    BY <2>3, GrowGridKeeps
  <2>4. CASE TagPanes
    BY <2>4, TagPanesKeeps
  <2>5. CASE Bind
    BY <2>5, BindKeeps
  <2>6. CASE BoundBefore
    BY <2>6, BoundBeforeKeeps
  <2>7. CASE StartPi
    BY <2>7, StartPiKeeps
  <2>8. CASE ConfirmLaunch
    BY <2>8, ConfirmLaunchKeeps
  <2>9. CASE ConfirmRestoration
    BY <2>9, ConfirmRestorationKeeps
  <2>10. CASE Materialize
    BY <2>10, MaterializeKeeps
  <2>11. CASE Refuse
    BY <2>11, GiveUpKeeps
  <2>12. QED
    BY <1>1, <2>1, <2>2, <2>3, <2>4, <2>5, <2>6, <2>7, <2>8, <2>9, <2>10,
       <2>11 DEF JobStep
<1>2. CASE Fail
  BY <1>2, GiveUpKeeps
<1>3. CASE BeginRestore
  BY <1>3, BeginRestoreKeeps
<1>4. ASSUME NEW a \in Agents, BeginLaunch(a) \/ Child(a) \/ RecordPaneLoss(a)
                                 \/ RestartControl(a)
      PROVE  IInv'
  BY <1>4, BeginLaunchKeeps, AgentKeeps
<1>5. ASSUME NEW p \in PaneIds, Herdr(p) PROVE IInv'
  BY <1>5, HerdrKeeps
<1>6. CASE Crash \/ StartAgain \/ StartByLaunch
  BY <1>6, ControllerKeeps
<1>7. CASE UNCHANGED vars
  <2>1. UNCHANGED <<controller, status, launch, restoration, pane, job, faults>>
    BY <1>7 DEF vars
  <2>2. TypeOK' /\ Fades /\ StatusMoves /\ JobKept
    BY <2>1, FadesTrivially DEF IInv, Settled, TypeOK, StatusMoves, JobKept
  <2>3. \A a \in Active : a \in Active'
    BY <2>1 DEF Active
  <2>4. QED BY <2>1, <2>2, <2>3, FadingStep
<1>8. QED BY <1>1, <1>2, <1>3, <1>4, <1>5, <1>6, <1>7 DEF Next

(* The rows, the panes and the job in progress agree in every reachable    *)
(* state, for any number of agents, panes and faults: what restoreMissing- *)
(* Pane, ensure and allocate check once holds as long as they rely on it.  *)
THEOREM PanesInvariance == Spec => []IInv
<1>1. Init => IInv
  BY InitInv
<1>2. IInv /\ [Next]_vars => IInv'
  BY StepKeeps
<1>3. QED BY <1>1, <1>2, PTL DEF Spec

(* The variables have the values that the rows, Herdr and the executor can *)
(* hold. *)
THEOREM PanesTyped == Spec => []TypeOK
<1>1. IInv => TypeOK
  BY DEF IInv, Settled
<1>2. QED BY <1>1, PanesInvariance, PTL

(* No two open panes stand for one agent or one slot, and no two agents that *)
(* are not closed are promised one slot (ensure, materializeAgentLaunch).   *)
THEOREM SlotsAreUnique == Spec => []SlotsUnique
<1>1. IInv => SlotsUnique
  BY DEF IInv, Settled
<1>2. QED BY <1>1, PanesInvariance, PTL

(* An agent's launch row points at a pane of that agent in its own slot, with *)
(* the nonce of its restoration when it was restored                        *)
(* (bindAgentPaneRestoration).                                              *)
THEOREM RestoredAreInPlace == Spec => []RestoredInPlace
<1>1. IInv => RestoredInPlace
  BY DEF IInv, Settled
<1>2. QED BY <1>1, PanesInvariance, PTL

-----------------------------------------------------------------------------
(* The session of an agent.                                                *)

Home(a) == IF launch[a] = None THEN None ELSE launch[a].pane

(* The processes that somebody can know of run in the launch pane. *)
LEMMA KnownAtHome ==
  ASSUME IInv, NEW a \in Agents, NEW p \in Known(a)
  PROVE  /\ p \in PaneIds /\ launch[a] # None /\ launch[a].pane = p
         /\ Home(a) = p
BY DEF IInv, Settled, Owners, Known, Recorded, Home

(* A step that leaves homes and known processes alone is a stutter. *)
LEMMA SessionSame ==
  ASSUME \A a \in Agents : Known(a)' = Known(a) /\ Home(a)' = Home(a)
  PROVE  [Session!Next]_(Session!vars)
<1>1. [a \in Agents |-> Known(a)]' = [a \in Agents |-> Known(a)]
  OBVIOUS
<1>2. [a \in Agents |-> IF launch[a] = None THEN None ELSE launch[a].pane]'
        = [a \in Agents |-> IF launch[a] = None THEN None ELSE launch[a].pane]
  BY DEF Home
<1>3. QED BY <1>1, <1>2 DEF Session!vars

(* Processes of one agent at most go away: the session stops, or nothing *)
(* happens that it knows of. *)
LEMMA SessionStops ==
  ASSUME IInv, NEW a,
         \A b \in Agents : /\ Known(b)' \subseteq Known(b)
                           /\ b # a => Known(b)' = Known(b)
                           /\ Home(b)' = Home(b)
  PROVE  [Session!Next]_(Session!vars)
<1>1. CASE a \in Agents /\ Known(a)' = {}
  <2>1. [b \in Agents |-> Known(b)]'
          = [[b \in Agents |-> Known(b)] EXCEPT ![a] = {}]
    BY <1>1
  <2>2. [b \in Agents |-> IF launch[b] = None THEN None ELSE launch[b].pane]'
          = [b \in Agents |-> IF launch[b] = None THEN None ELSE launch[b].pane]
    BY DEF Home
  <2>3. Session!Stop(a)
    BY <2>1, <2>2 DEF Session!Stop
  <2>4. QED BY <1>1, <2>3 DEF Session!Next
<1>2. CASE a \in Agents /\ Known(a)' # {}
  <2>1. \A p, q \in Known(a) : p = q
    BY <1>2, KnownAtHome
  <2>2. Known(a)' = Known(a)
    BY <1>2, <2>1
  <2>3. QED BY <2>2, SessionSame
<1>3. CASE a \notin Agents
  BY <1>3, SessionSame
<1>4. QED BY <1>1, <1>2, <1>3

(* Nothing changes in the panes and the launch rows. *)
LEMMA SessionUntouched ==
  ASSUME UNCHANGED <<launch, pane>>
  PROVE  [Session!Next]_(Session!vars)
<1>1. \A a \in Agents : Known(a)' = Known(a) /\ Home(a)' = Home(a)
  BY DEF Known, Recorded, Open, Home
<1>2. QED BY <1>1, SessionSame

(* The rows stay and no process starts or ends: panes come and get tokens. *)
LEMMA SessionUnmoved ==
  ASSUME UNCHANGED launch,
         \A p \in PaneIds :
           /\ pane'[p].pi = "running" <=> pane[p].pi = "running"
           /\ pane[p].pi = "running" => /\ pane'[p].agent = pane[p].agent
                                        /\ pane'[p].open = pane[p].open
  PROVE  [Session!Next]_(Session!vars)
<1>1. \A a \in Agents : Home(a)' = Home(a)
  BY DEF Home
<1>2. ASSUME NEW a \in Agents PROVE Known(a)' = Known(a)
  <2>1. \A p \in PaneIds : p \in Known(a)' <=> p \in Known(a)
    BY DEF Known, Recorded, Open
  <2>2. Known(a)' \subseteq PaneIds /\ Known(a) \subseteq PaneIds
    BY DEF Known
  <2>3. QED BY <2>1, <2>2
<1>3. QED BY <1>1, <1>2, SessionSame

(* One pane is closed or cleared, or the process in it exits. *)
LEMMA SessionLosesPane ==
  ASSUME IInv, NEW p \in PaneIds,
         \A q \in PaneIds : q # p => pane'[q] = pane[q],
         UNCHANGED launch \/ Exited(p),
         \/ pane'[p].pi # "running"
         \/ /\ launch' = launch /\ ~pane'[p].open
            /\ pane'[p].agent = pane[p].agent /\ pane'[p].pi = pane[p].pi
  PROVE  [Session!Next]_(Session!vars)
<1>1. TypeOK
  BY DEF IInv, Settled
<1>2. ASSUME NEW b \in Agents
      PROVE  /\ launch'[b] = None <=> launch[b] = None
             /\ launch[b] # None => launch'[b].pane = launch[b].pane
             /\ launch[b] # None /\ launch[b].pane # p => launch'[b] = launch[b]
  <2>1. CASE UNCHANGED launch
    BY <2>1
  <2>2. CASE Exited(p)
    <3>1. /\ launch'[b] = None <=> launch[b] = None
          /\ launch[b] # None => launch'[b].pane = launch[b].pane
      BY <1>1, <2>2, ExitedFades
    <3>2. launch[b].pane # p => launch'[b] = launch[b]
      BY <2>2 DEF Exited, Recorded
    <3>3. QED BY <3>1, <3>2
  <2>3. QED BY <2>1, <2>2
<1>3. ASSUME NEW b \in Agents
      PROVE  /\ Known(b)' \subseteq Known(b)
             /\ b # pane[p].agent => Known(b)' = Known(b)
             /\ Home(b)' = Home(b)
  <2>1. Home(b)' = Home(b)
    BY <1>2 DEF Home
  <2>2. \A q \in PaneIds : q # p => (q \in Known(b)' <=> q \in Known(b))
    BY <1>2 DEF Known, Recorded, Open
  <2>3. p \in Known(b)' => p \in Known(b)
    BY DEF Known, Recorded, Open
  <2>4. p \in Known(b) => b = pane[p].agent
    BY DEF Known
  <2>5. Known(b)' \subseteq PaneIds /\ Known(b) \subseteq PaneIds
    BY DEF Known
  <2>6. QED BY <2>1, <2>2, <2>3, <2>4, <2>5
<1>4. QED BY <1>3, SessionStops

(* A closed pane runs nothing, or still what ran in it. *)
LEMMA ClosedPane ==
  ASSUME TypeOK, NEW p \in PaneIds
  PROVE  \/ Closed(p).pi # "running"
         \/ /\ ~Closed(p).open /\ Closed(p).agent = pane[p].agent
            /\ Closed(p).pi = pane[p].pi
<1>1. pane[p] \in PaneRow
  BY DEF TypeOK
<1>2. LET closed == [pane[p] EXCEPT !.open = FALSE] IN
      ~closed.open /\ closed.agent = pane[p].agent /\ closed.pi = pane[p].pi
  BY <1>1 DEF PaneRow
<1>3. Gone.pi = "none"
  BY DEF Gone
<1>4. QED BY <1>2, <1>3 DEF Closed

(* Herdr starts a typed command, and processes exit and die. *)
LEMMA HerdrRefines ==
  ASSUME IInv, IInv', NEW p \in PaneIds, Herdr(p)
  PROVE  [Session!Next]_(Session!vars)
<1>1. TypeOK /\ Owners /\ pane[p] \in PaneRow
  BY DEF IInv, Settled, TypeOK
<1>2. CASE PiStarts(p)
  <2>1. /\ p \in Open /\ pane[p].pi = "typed" /\ UNCHANGED launch
        /\ \A q \in PaneIds : q # p => pane'[q] = pane[q]
        /\ pane'[p] = [pane[p] EXCEPT !.pi = "running"]
    BY <1>1, <1>2 DEF PiStarts, TypeOK
  <2>2. PICK a \in Agents : /\ a = pane[p].agent /\ launch[a] # None
                            /\ launch[a].pane = p
    BY <1>1, <2>1 DEF Owners
  <2>3. /\ pane'[p].open /\ pane'[p].agent = a /\ pane'[p].pi = "running"
    BY <1>1, <2>1, <2>2 DEF PaneRow, Open
  <2>4. \A b \in Agents : Home(b)' = Home(b)
    BY <2>1 DEF Home
  <2>5. Known(a)' = {Home(a)}
    <3>1. Home(a) = p
      BY <2>2 DEF Home
    <3>2. p \in Known(a)'
      BY <2>3 DEF Known, Open
    <3>3. ASSUME NEW q \in Known(a)' PROVE q = p
      <4>1. /\ q \in PaneIds /\ pane'[q].agent = a /\ pane'[q].pi = "running"
            /\ q \in Open' \/ (Recorded(a, q) /\ launch[a].proc = "alive")'
        BY DEF Known
      <4>2. q \in Open' => launch'[a].pane = q
        BY <4>1 DEF IInv, Settled, Owners
      <4>3. QED BY <2>1, <2>2, <4>1, <4>2 DEF Recorded
    <3>4. QED BY <3>1, <3>2, <3>3
  <2>6. ASSUME NEW b \in Agents, b # a PROVE Known(b)' = Known(b)
    <3>1. \A q \in PaneIds : q # p => (q \in Known(b)' <=> q \in Known(b))
      BY <2>1 DEF Known, Recorded, Open
    <3>2. p \notin Known(b)' /\ p \notin Known(b)
      BY <2>2, <2>3, <2>6 DEF Known
    <3>3. Known(b)' \subseteq PaneIds /\ Known(b) \subseteq PaneIds
      BY DEF Known
    <3>4. QED BY <3>1, <3>2, <3>3
  <2>7. [b \in Agents |-> Known(b)]'
          = [[b \in Agents |-> Known(b)] EXCEPT
               ![a] = {[b \in Agents |-> IF launch[b] = None THEN None
                                         ELSE launch[b].pane][a]}]
    BY <2>2, <2>5, <2>6 DEF Home
  <2>8. [b \in Agents |-> IF launch[b] = None THEN None ELSE launch[b].pane]'
          = [b \in Agents |-> IF launch[b] = None THEN None ELSE launch[b].pane]
    BY <2>1
  <2>9. [b \in Agents |-> IF launch[b] = None THEN None
                          ELSE launch[b].pane][a] # None
    BY <2>2, ConstantFacts
  <2>10. Session!Start(a)
    BY <2>7, <2>8, <2>9 DEF Session!Start
  <2>11. QED BY <2>10 DEF Session!Next
<1>3. CASE PiExits(p)
  <2>1. /\ Exited(p) /\ \A q \in PaneIds : q # p => pane'[q] = pane[q]
        /\ pane'[p] = [pane[p] EXCEPT !.pi = "none"]
    BY <1>1, <1>3 DEF PiExits, TypeOK
  <2>2. pane'[p].pi = "none"
    BY <1>1, <2>1 DEF PaneRow
  <2>3. QED BY <2>1, <2>2, SessionLosesPane
<1>4. CASE ClosePane(p)
  <2>1. /\ UNCHANGED launch /\ \A q \in PaneIds : q # p => pane'[q] = pane[q]
        /\ pane'[p] = Closed(p)
    BY <1>1, <1>4 DEF ClosePane, TypeOK
  <2>2. QED BY <1>1, <2>1, ClosedPane, SessionLosesPane
<1>5. CASE OrphanDies(p)
  <2>1. /\ Exited(p) /\ \A q \in PaneIds : q # p => pane'[q] = pane[q]
        /\ pane'[p] = Gone
    BY <1>1, <1>5 DEF OrphanDies, TypeOK
  <2>2. Gone.pi = "none"
    BY DEF Gone
  <2>3. QED BY <2>1, <2>2, SessionLosesPane
<1>6. QED BY <1>2, <1>3, <1>4, <1>5 DEF Herdr

(* A bound agent moves: none of its processes is left. *)
LEMMA BindRefines ==
  ASSUME IInv, IInv', Bind
  PROVE  [Session!Next]_(Session!vars)
<1>1. /\ TypeOK /\ Rows /\ Owners /\ job.step = "bind" /\ Unbound # {}
      /\ Restores
  BY DEF IInv, Settled, Bind, JobKnows, Launches
<1>2. PICK a \in Agents : /\ a = NextIn(Unbound) /\ Reserved(a)
                          /\ launch[a] # None
  <2>1. Unbound \subseteq Agents /\ \A b \in Unbound : launch[b] # None
    BY <1>1 DEF Unbound, Restores, Active, Rows, TypeOK
  <2>2. NextIn(Unbound) \in Unbound
    BY <1>1, <2>1, NextIsIn
  <2>3. QED BY <2>1, <2>2 DEF Unbound
<1> DEFINE p == job.grid[launch[a].slot + 1]
<1>3. /\ launch' = [launch EXCEPT ![a].pane = p, ![a].proc = "none"]
      /\ pane' = pane
  BY <1>2 DEF Bind, BindTo
<1>4. /\ launch[a] \in LaunchRow /\ launch[a].proc = "dead"
      /\ launch[a].pane \notin Open
  BY <1>1, <1>2 DEF Rows, TypeOK
<1> HIDE DEF p
<1>5. /\ launch'[a].pane = p /\ launch'[a].proc = "none"
      /\ \A b \in Agents : b # a => launch'[b] = launch[b]
  BY <1>1, <1>3, <1>4 DEF TypeOK, LaunchRow
<1>6. launch'[a] \in LaunchRow \cup {None} /\ launch'[a] # None /\ p \in PaneIds
  <2>1. launch'[a] \in LaunchRow \cup {None} /\ (status[a] = "planned")' = FALSE
    BY <1>1, <1>2 DEF IInv, Settled, TypeOK, Bind, BindTo
  <2>2. launch'[a] # None
    BY <2>1 DEF IInv, Settled, Rows
  <2>3. QED BY <1>5, <2>1, <2>2 DEF LaunchRow
<1>7. Known(a) = {} /\ Known(a)' = {}
  <2>1. \A q \in Open : pane[q].pi = "running" => pane[q].agent # a
    BY <1>1, <1>4 DEF Owners
  <2>2. Open' = Open
    BY <1>3 DEF Open
  <2>3. QED BY <1>3, <1>4, <1>5, <2>1, <2>2 DEF Known
<1>8. ASSUME NEW b \in Agents, b # a
      PROVE  Known(b)' = Known(b) /\ Home(b)' = Home(b)
  <2>1. launch'[b] = launch[b] /\ pane' = pane
    BY <1>3, <1>5, <1>8
  <2>2. QED BY <2>1 DEF Known, Recorded, Open, Home
<1>9. Home(a) # None /\ Home(a)' = p
  BY <1>2, <1>4, <1>5, <1>6, ConstantFacts DEF Home, LaunchRow
<1>10. [b \in Agents |-> Known(b)]' = [b \in Agents |-> Known(b)]
  BY <1>7, <1>8
<1>11. [b \in Agents |-> IF launch[b] = None THEN None ELSE launch[b].pane]'
         = [[b \in Agents |-> IF launch[b] = None THEN None ELSE launch[b].pane]
              EXCEPT ![a] = p]
  BY <1>8, <1>9 DEF Home
<1>12. /\ [b \in Agents |-> IF launch[b] = None THEN None
                            ELSE launch[b].pane][a] # None
       /\ [b \in Agents |-> Known(b)][a] = {}
  BY <1>7, <1>9 DEF Home
<1>13. Session!Move(a)
  BY <1>6, <1>10, <1>11, <1>12 DEF Session!Move
<1>14. QED BY <1>13 DEF Session!Next

(* A materialized agent settles in its pane. *)
LEMMA MaterializeRefines ==
  ASSUME IInv, IInv', Materialize
  PROVE  [Session!Next]_(Session!vars)
<1>1. /\ TypeOK /\ job.step = "provisioned" /\ pane' = pane
      /\ launch' = IF launch[job.agent] # None THEN launch
                   ELSE [launch EXCEPT
                           ![job.agent] = [slot |-> Place - 1,
                                           pane |-> Provisioned,
                                           proc |-> "none"]]
  BY DEF IInv, Settled, Materialize, Materialized
<1>2. PICK a \in Agents : a = job.agent
  BY <1>1, PlaceFacts
<1>3. Provisioned \in PaneIds
  BY <1>1, PlaceFacts
<1>4. CASE launch[a] # None
  BY <1>1, <1>2, <1>4, SessionUntouched
<1>5. CASE launch[a] = None
  <2> DEFINE row == [slot |-> Place - 1, pane |-> Provisioned, proc |-> "none"]
  <2>1. \A b \in Agents : launch'[b] = IF b = a THEN row ELSE launch[b]
    BY <1>1, <1>2, <1>5 DEF TypeOK
  <2>2. launch'[a] # None
    <3>1. row \in LaunchRow
      BY <1>1, PlaceFacts DEF LaunchRow
    <3>2. QED BY <2>1, <3>1, ConstantFacts
  <2>3. launch'[a].pane = Provisioned /\ launch'[a].proc = "none"
    BY <2>1
  <2> HIDE DEF row
  <2>4. Known(a) = {} /\ Known(a)' = {}
    <3>1. Known(a) = {}
      BY <1>5, KnownAtHome
    <3>2. Open' = Open
      BY <1>1 DEF Open
    <3>3. QED BY <1>1, <2>3, <3>1, <3>2 DEF Known
  <2>5. \A b \in Agents : b # a => Known(b)' = Known(b) /\ Home(b)' = Home(b)
    BY <1>1, <2>1 DEF Known, Recorded, Open, Home
  <2>6. Home(a) = None /\ Home(a)' = Provisioned
    BY <1>5, <2>2, <2>3 DEF Home
  <2>7. [b \in Agents |-> Known(b)]' = [b \in Agents |-> Known(b)]
    BY <2>4, <2>5
  <2>8. [b \in Agents |-> IF launch[b] = None THEN None ELSE launch[b].pane]'
          = [[b \in Agents |-> IF launch[b] = None THEN None
                               ELSE launch[b].pane]
               EXCEPT ![a] = Provisioned]
    BY <2>5, <2>6 DEF Home
  <2>9. [b \in Agents |-> IF launch[b] = None THEN None
                          ELSE launch[b].pane][a] = None
    BY <1>5
  <2>10. Session!Settle(a)
    BY <1>3, <2>7, <2>8, <2>9 DEF Session!Settle
  <2>11. QED BY <2>10 DEF Session!Next
<1>6. QED BY <1>4, <1>5

(* The steps of a job settle and move agents, and give panes up. *)
LEMMA JobRefines ==
  ASSUME IInv, IInv', JobStep \/ Fail
  PROVE  [Session!Next]_(Session!vars)
<1>1. TypeOK
  BY DEF IInv, Settled
<1>2. CASE Reserve \/ ListGrid \/ BoundBefore \/ ConfirmRestoration
  BY <1>2, SessionUntouched DEF Reserve, ListGrid, BoundBefore, ConfirmRestoration
<1>3. CASE GrowGrid
  <2> DEFINE p == CHOOSE q \in FreshIds : \A r \in FreshIds : q <= r
             new == Created(job.want[NextSplit[2] + 1], NextSplit[2])
  <2>1. pane' = [pane EXCEPT ![p] = new] /\ launch' = launch
    BY <1>3 DEF GrowGrid
  <2>2. p \in FreshIds
    <3>1. FreshIds # {} /\ FreshIds \in SUBSET Nat
      BY <1>3 DEF GrowGrid, FreshIds, PaneIds
    <3>2. QED BY <3>1, Smallest
  <2>3. new.pi = "none" /\ Gone.pi = "none"
    BY DEF Created, Gone
  <2> HIDE DEF p, new
  <2>4. p \in PaneIds /\ pane[p].pi = "none"
    BY <2>2, <2>3 DEF FreshIds
  <2>5. \A q \in PaneIds : pane'[q] = IF q = p THEN new ELSE pane[q]
    BY <1>1, <2>1 DEF TypeOK
  <2>6. QED BY <2>1, <2>3, <2>4, <2>5, SessionUnmoved
<1>4. CASE TagPanes
  <2>1. /\ launch' = launch
        /\ \A p \in PaneIds : \/ pane'[p] = pane[p]
                              \/ pane'[p] = [pane[p] EXCEPT !.tagged = TRUE]
    BY <1>4 DEF TagPanes
  <2>2. ASSUME NEW p \in PaneIds
        PROVE  /\ pane'[p].pi = pane[p].pi /\ pane'[p].agent = pane[p].agent
               /\ pane'[p].open = pane[p].open
    <3>1. pane[p] \in PaneRow
      BY <1>1 DEF TypeOK
    <3>2. QED BY <2>1, <3>1 DEF PaneRow
  <2>3. QED BY <2>1, <2>2, SessionUnmoved
<1>5. CASE StartPi
  <2> DEFINE p == launch[Target].pane
  <2>1. /\ launch' = launch /\ p \in Open
        /\ pane' = IF pane[p].pi = "running" THEN pane
                   ELSE [pane EXCEPT ![p].pi = "typed"]
    BY <1>5 DEF StartPi, Startable
  <2> HIDE DEF p
  <2>2. p \in PaneIds /\ pane[p] \in PaneRow
    BY <1>1, <2>1 DEF Open, TypeOK
  <2>3. CASE pane[p].pi = "running"
    BY <2>1, <2>3, SessionUntouched
  <2>4. CASE pane[p].pi # "running"
    <3>1. \A q \in PaneIds : pane'[q] = IF q = p
                                        THEN [pane[p] EXCEPT !.pi = "typed"]
                                        ELSE pane[q]
      BY <1>1, <2>1, <2>4 DEF TypeOK
    <3>2. pane'[p].pi = "typed"
      BY <2>2, <3>1 DEF PaneRow
    <3>3. QED BY <2>1, <2>4, <3>1, <3>2, SessionUnmoved
  <2>5. QED BY <2>3, <2>4
<1>6. CASE Bind
  BY <1>6, BindRefines
<1>7. CASE ConfirmLaunch
  <2>1. /\ pane' = pane /\ launch' = [launch EXCEPT ![Target].proc = "alive"]
        /\ launch[Target].pane \in Open /\ job.step = "await"
    BY <1>7 DEF ConfirmLaunch, Visible
  <2>2. PICK a \in Agents : a = Target /\ launch[a] \in LaunchRow
                              /\ launch[a] # None
    BY <2>1, TargetFacts
  <2> DEFINE row == [launch[a] EXCEPT !.proc = "alive"]
  <2>3. \A b \in Agents : launch'[b] = IF b = a THEN row ELSE launch[b]
    BY <1>1, <2>1, <2>2 DEF TypeOK
  <2>4. row.pane = launch[a].pane /\ row \in LaunchRow
    BY <2>2 DEF LaunchRow
  <2> HIDE DEF row
  <2>5. launch'[a] # None /\ launch'[a].pane = launch[a].pane
    BY <2>3, <2>4, ConstantFacts
  <2>6. ASSUME NEW b \in Agents
        PROVE  Known(b)' = Known(b) /\ Home(b)' = Home(b)
    <3>1. CASE b = a
      <4>1. \A q \in PaneIds : Recorded(a, q) => q \in Open
        BY <2>1, <2>2 DEF Recorded
      <4>2. \A q : Recorded(a, q)' <=> Recorded(a, q)
        BY <2>2, <2>5 DEF Recorded
      <4>3. Known(a)' = Known(a)
        BY <2>1, <4>1, <4>2 DEF Known, Open
      <4>4. QED BY <2>2, <2>5, <3>1, <4>3 DEF Home
    <3>2. CASE b # a
      BY <2>1, <2>3, <3>2 DEF Known, Recorded, Open, Home
    <3>3. QED BY <3>1, <3>2
  <2>7. QED BY <2>6, SessionSame
<1>8. CASE Materialize
  BY <1>8, MaterializeRefines
<1>9. CASE Refuse \/ Fail
  <2>1. launch' = launch
        /\ \/ pane' = pane
           \/ \E p \in PaneIds : pane' = [pane EXCEPT ![p] = Closed(p)]
    BY <1>9 DEF Refuse, Fail, GiveUp, Open
  <2>2. CASE pane' = pane
    BY <2>1, <2>2, SessionUntouched
  <2>3. CASE \E p \in PaneIds : pane' = [pane EXCEPT ![p] = Closed(p)]
    <3>1. PICK p \in PaneIds : pane' = [pane EXCEPT ![p] = Closed(p)]
      BY <2>3
    <3>2. \A q \in PaneIds : pane'[q] = IF q = p THEN Closed(p) ELSE pane[q]
      BY <1>1, <3>1 DEF TypeOK
    <3>3. QED BY <1>1, <2>1, <3>2, ClosedPane, SessionLosesPane
  <2>4. QED BY <2>1, <2>2, <2>3
<1>10. QED
  BY <1>2, <1>3, <1>4, <1>5, <1>6, <1>7, <1>8, <1>9 DEF JobStep

(* Every step of the panes is a step of a session or none of its business. *)
LEMMA SessionStep ==
  IInv /\ IInv' /\ [Next]_vars => [Session!Next]_(Session!vars)
<1> SUFFICES ASSUME IInv, IInv', [Next]_vars
             PROVE  [Session!Next]_(Session!vars)
  OBVIOUS
<1>1. CASE JobStep \/ Fail
  BY <1>1, JobRefines
<1>2. CASE BeginRestore \/ Crash \/ StartAgain \/ StartByLaunch
  BY <1>2, SessionUntouched DEF BeginRestore, Crash, StartAgain, StartByLaunch
<1>3. ASSUME NEW a \in Agents, BeginLaunch(a) \/ Child(a) \/ RecordPaneLoss(a)
                                 \/ RestartControl(a)
      PROVE  [Session!Next]_(Session!vars)
  <2>1. UNCHANGED <<launch, pane>>
    BY <1>3 DEF BeginLaunch, Child, SessionStarted, Complete, ShutDown, Handled,
                RecordPaneLoss, RestartControl
  <2>2. QED BY <2>1, SessionUntouched
<1>4. ASSUME NEW p \in PaneIds, Herdr(p) PROVE [Session!Next]_(Session!vars)
  BY <1>4, HerdrRefines
<1>5. CASE UNCHANGED vars
  BY <1>5, SessionUntouched DEF vars
<1>6. QED BY <1>1, <1>2, <1>3, <1>4, <1>5 DEF Next

(* Whatever is restored, retried and lost, the Pi processes of an agent that *)
(* somebody can know of run in its home pane alone, and the home is another  *)
(* pane only after all of them are gone (reserveAgentPaneRestorations,       *)
(* bindAgentPaneRestoration). *)
THEOREM SessionRefines == Spec => ImplementsAgentSession
<1>1. Init => Session!Init
  <2> SUFFICES ASSUME Init PROVE Session!Init
    OBVIOUS
  <2>1. /\ launch = [a \in Agents |-> None] /\ pane = [p \in PaneIds |-> Gone]
        /\ Gone.pi = "none"
    BY DEF Init, Gone
  <2>2. \A a \in Agents : Known(a) = {}
    BY <2>1 DEF Known
  <2>3. QED BY <2>1, <2>2 DEF Session!Init
<1>2. IInv /\ IInv' /\ [Next]_vars => [Session!Next]_(Session!vars)
  BY SessionStep
<1>3. QED
  BY <1>1, <1>2, PanesInvariance, PTL DEF Spec, ImplementsAgentSession, Session!Spec
==============================================================================
