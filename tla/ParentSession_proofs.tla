------------------------- MODULE ParentSession_proofs --------------------------
(***************************************************************************)
(* Proofs about ParentSession for any number of parents, processes and     *)
(* events: what the sessions do to the directory of the run is what        *)
(* ControllerHost allows, so its theorems hold here, and the first launch  *)
(* happens once.                                                           *)
(***************************************************************************)
EXTENDS ParentSession, ControllerHost_proofs

USE ProcessAssumption, ParentAssumption, BoundAssumption

\* A parent waits for the start of a process that exists.
StartsNamed ==
  \A r \in Parents : step[r].at = "starting" => step[r].on \in Processes

\* Only a process whose repository is open has operations, and only the first
\* of them has begun.  One that is about to launch the team, and still may
\* write, has found no agent, and there is none; one that is further has found
\* or persisted some.
ExecutorOf(p) ==
  /\ queue[p] # <<>> => RepositoryOpen(p)
  /\ \A i \in DOMAIN queue[p] : i # 1 => queue[p][i].phase = "queued"
  /\ \A i \in DOMAIN queue[p] :
       /\ queue[p][i].phase = "launching" /\ Writable(p) => roster = "none"
       /\ queue[p][i].phase \in {"relaunching", "materialized", "leased"}
            => roster # "none"

Executors == \A p \in Processes : ExecutorOf(p)

\* A launch has begun exactly if there are agents.
LaunchesCounted == launches = IF roster = "none" THEN 0 ELSE 1

SessionInv == TypeOK /\ StartsNamed /\ Executors /\ LaunchesCounted

-----------------------------------------------------------------------------
(* Requests.                                                               *)

\* A request stays one when it goes to another step.
LEMMA RequestAt ==
  ASSUME NEW x \in Request, NEW at \in At
  PROVE  /\ [x EXCEPT !.at = at] \in Request
         /\ [x EXCEPT !.at = at].at = at
  BY DEF Request

LEMMA RequestOn ==
  ASSUME NEW x \in Request, NEW at \in At, NEW p \in Processes \cup {None}
  PROVE  /\ [x EXCEPT !.at = at, !.on = p] \in Request
         /\ [x EXCEPT !.at = at, !.on = p].at = at
         /\ [x EXCEPT !.at = at, !.on = p].on = p
  BY DEF Request

LEMMA RequestPane ==
  ASSUME NEW x \in Request, NEW at \in At, NEW q \in Parents
  PROVE  /\ [x EXCEPT !.at = at, !.pane = q] \in Request
         /\ [x EXCEPT !.at = at, !.pane = q].at = at
  BY DEF Request

LEMMA RequestIdle == Idle \in Request
<1>1. NoLease \in Lease
  BY DEF NoLease, Lease
<1>2. QED BY <1>1 DEF Idle, Request, At

\* The step of one parent is replaced.
LEMMA StepOf ==
  ASSUME step \in [Parents -> Request], NEW r \in Parents, NEW x \in Request,
         step' = [step EXCEPT ![r] = x],
         StartsNamed, x.at = "starting" => x.on \in Processes
  PROVE  step' \in [Parents -> Request] /\ StartsNamed'
  BY DEF StartsNamed

-----------------------------------------------------------------------------
(* What a session does to the directory of the run, ControllerHost allows. *)
LEMMA HostOfSession ==
  TypeOK /\ StartsNamed /\ [Next]_vars => [HostNext]_hostVars
<1> SUFFICES ASSUME TypeOK, StartsNamed, [Next]_vars PROVE [HostNext]_hostVars
  OBVIOUS
<1>0. ASSUME NEW r \in Parents, TimeOut(r) PROVE HostNext
  <2>1. step[r].on \in Processes
    BY <1>0 DEF TimeOut, StartsNamed
  <2>2. Stop(step[r].on) \/ Crash(step[r].on)
    BY <1>0 DEF TimeOut
  <2>3. QED BY <2>1, <2>2 DEF HostNext, ProcessNext
<1>1. ASSUME NEW r \in Parents,
             \/ AskLaunch(r) \/ AskStatus(r)
             \/ \E control \in {"pause", "resume"} : Control(r, control)
             \/ FailPane(r) \/ ClosePane(r)
      PROVE  UNCHANGED hostVars
  BY <1>1 DEF AskLaunch, AskStatus, Control, FailPane, ClosePane, LooksOnly
<1>2. ASSUME NEW r \in Parents, ParentStep(r) PROVE [HostNext]_hostVars
  <2>1. CASE EnsureRunning(r)
    <3>1. CASE UNCHANGED hostVars
      BY <3>1
    <3>2. CASE \E p \in Spawnable : Spawn(p)
      BY <3>2 DEF Spawnable, Fresh, HostNext, ProcessNext
    <3>3. QED BY <2>1, <3>1, <3>2 DEF EnsureRunning, LooksOnly
  <2>2. CASE AwaitStart(r) \/ Initialize(r) \/ Bind(r) \/ Record(r)
               \/ ListPanes(r) \/ SplitPane(r) \/ CheckPane(r)
    BY <2>2 DEF AwaitStart, Initialize, Bind, Record, ListPanes, SplitPane,
       CheckPane, LooksOnly
  <2>3. CASE InspectController(r) \/ RestorePanes(r) \/ ResumeInitial(r)
               \/ Accepted(r) \/ Execute(r) \/ LoseConnection(r)
    BY <2>3 DEF InspectController, RestorePanes, ResumeInitial, AskExecutor,
       Accepted, Execute, LoseConnection, LooksOnly
  <2>4. CASE TimeOut(r)
    BY <1>0, <2>4
  <2>5. QED BY <1>2, <2>1, <2>2, <2>3, <2>4 DEF ParentStep
<1>3. ASSUME NEW r \in Parents, TimeOut(r) PROVE HostNext
  BY <1>0, <1>3
<1>4. ASSUME NEW p \in Processes,
             \/ StartStep(p) \/ RenewStep(p) \/ StopStep(p)
             \/ StopController(p) \/ CrashController(p)
      PROVE  HostNext
  BY <1>4 DEF StartStep, RenewStep, StopStep, StopController, CrashController,
     HostNext, ProcessNext
<1>5. ASSUME NEW p \in Processes, Work(p) PROVE [HostNext]_hostVars
  <2> USE DEF TypeOK, HostTypeOK
  <2>1. PICK i \in DOMAIN queue[p] :
          \/ Begin(p, i) \/ Materialize(p, i) \/ LeaseWriter(p, i)
          \/ CommitTick(p, i) \/ FailTick(p, i)
    BY <1>5 DEF Work
  <2>2. CASE Begin(p, i) \/ Materialize(p, i) \/ FailTick(p, i)
    BY <2>2 DEF Begin, Materialize, FailTick, OperationOnly, hostVars
  <2>3. CASE LeaseWriter(p, i) \/ CommitTick(p, i)
    BY <2>3 DEF LeaseWriter, CommitTick, OperationOnly, ChangeIntegrity,
       SocketVars, HostNext
  <2>4. QED BY <2>1, <2>2, <2>3
<1>6. CASE LapseStep \/ CorruptDisk
  BY <1>6 DEF LapseStep, CorruptDisk, HostNext
<1>7. CASE UNCHANGED vars
  BY <1>7 DEF vars
<1>8. QED BY <1>1, <1>2, <1>3, <1>4, <1>5, <1>6, <1>7 DEF Next

-----------------------------------------------------------------------------
(* Types.                                                                  *)

LEMMA InitTyped == Init => TypeOK /\ StartsNamed
<1> SUFFICES ASSUME Init PROVE TypeOK /\ StartsNamed
  OBVIOUS
<1>1. HostTypeOK
  BY HostInitInv DEF Init, HostInv
<1>2. step \in [Parents -> Request] /\ StartsNamed
  BY RequestIdle DEF Init, StartsNamed, Idle
<1>3. queue \in [Processes -> Seq(Operation)]
  BY DEF Init
<1>4. /\ run \in {"none", "ready", "active", "blocked"}
      /\ bound \in BOOLEAN
      /\ roster \in {"none", "launching", "launched"}
      /\ launches \in Nat
      /\ keys \subseteq {"pause", "resume"}
  BY DEF Init
<1>5. /\ panes \in Seq(Parents)
      /\ gated \in [Processes -> BOOLEAN]
      /\ events \in 0 .. MaxEvents
  BY DEF Init
<1>6. QED BY <1>1, <1>2, <1>3, <1>4, <1>5 DEF TypeOK

\* A live server is a process.
LEMMA ServerIsProcess == Server # None => Server \in Processes
  BY DEF Server, Accepting

(* A parent's request, whatever it asks and however far it is, goes on to  *)
(* a request.                                                              *)
LEMMA ParentStepTyped ==
  ASSUME TypeOK, StartsNamed, NEW r \in Parents,
         \/ AskLaunch(r) \/ AskStatus(r)
         \/ \E control \in {"pause", "resume"} : Control(r, control)
         \/ ParentStep(r) \/ TimeOut(r) \/ FailPane(r) \/ ClosePane(r)
  PROVE  step' \in [Parents -> Request] /\ StartsNamed'
<1> step \in [Parents -> Request] /\ step[r] \in Request
  BY DEF TypeOK
<1>1. ASSUME NEW at \in At \ {"starting"}, Go(r, at)
      PROVE  step' \in [Parents -> Request] /\ StartsNamed'
  <2> DEFINE x == [step[r] EXCEPT !.at = at]
  <2>1. step' = [step EXCEPT ![r] = x]
    BY <1>1 DEF Go
  <2>2. x \in Request /\ x.at = at
    BY RequestAt
  <2>3. QED BY <2>1, <2>2, StepOf
<1>2. ASSUME End(r) PROVE step' \in [Parents -> Request] /\ StartsNamed'
  BY <1>2, RequestIdle, StepOf DEF End, Idle
<1>3. ASSUME NEW ok \in BOOLEAN, NEW at \in At \ {"starting"}, Pass(r, ok, at)
      PROVE  step' \in [Parents -> Request] /\ StartsNamed'
  BY <1>1, <1>2, <1>3 DEF Pass
<1>4. ASSUME NEW p \in Processes, NEW at \in At,
             step' = [step EXCEPT ![r].at = at, ![r].on = p]
      PROVE  step' \in [Parents -> Request] /\ StartsNamed'
  <2> DEFINE x == [step[r] EXCEPT !.at = at, !.on = p]
  <2>1. step' = [step EXCEPT ![r] = x]
    BY <1>4
  <2>2. x \in Request /\ x.on = p
    BY <1>4 DEF Request
  <2>3. QED BY <2>1, <2>2, StepOf
<1>5. ASSUME UNCHANGED step
      PROVE  step' \in [Parents -> Request] /\ StartsNamed'
  BY <1>5 DEF StartsNamed
<1>6. CASE AskLaunch(r)
  <2> DEFINE x == [step[r] EXCEPT !.at = "ensure", !.ask = "launch"]
  <2>1. step' = [step EXCEPT ![r] = x]
    BY <1>6 DEF AskLaunch
  <2>2. x \in Request /\ x.at = "ensure"
    BY DEF Request, At
  <2>3. QED BY <2>1, <2>2, StepOf
<1>7. CASE AskStatus(r)
  <2> DEFINE x == [step[r] EXCEPT !.at = "inspect", !.ask = "status",
                                  !.seen = lease, !.ready = ~Interrupted]
  <2>1. step' = [step EXCEPT ![r] = x]
    BY <1>7 DEF AskStatus
  <2>2. x \in Request /\ x.at = "inspect"
    BY DEF Request, At, TypeOK, HostTypeOK, Interrupted
  <2>3. QED BY <2>1, <2>2, StepOf
<1>8. CASE \E control \in {"pause", "resume"} : Control(r, control)
  <2>1. PICK control \in {"pause", "resume"} : Control(r, control)
    BY <1>8
  <2> DEFINE x == [step[r] EXCEPT !.at = "accepted", !.ask = control,
                                  !.on = Server]
  <2>2. x \in Request /\ x.at = "accepted"
    BY <2>1, ServerIsProcess DEF Request, At, Control
  <2>3. step' = [step EXCEPT ![r] = x] \/ step' = step
    BY <2>1 DEF Control
  <2>4. QED BY <1>5, <2>2, <2>3, StepOf
<1>9. CASE EnsureRunning(r)
  <2>1. CASE End(r)
    BY <1>2, <2>1
  <2>2. CASE /\ Inspection = "healthy"
             /\ step' = [step EXCEPT ![r].at = "initialize", ![r].on = Server]
    <3>1. Server \in Processes
      BY <2>2, ServerIsProcess DEF Inspection, Healthy
    <3>2. QED BY <1>4, <2>2, <3>1 DEF At
  <2>3. CASE \E p \in Spawnable :
               step' = [step EXCEPT ![r].at = "starting", ![r].on = p]
    <3>1. PICK p \in Processes :
            step' = [step EXCEPT ![r].at = "starting", ![r].on = p]
      BY <2>3 DEF Spawnable, Fresh
    <3>2. QED BY <1>4, <3>1 DEF At
  <2>4. QED BY <1>9, <2>1, <2>2, <2>3 DEF EnsureRunning
<1>10. CASE AwaitStart(r)
  <2>1. \E ok \in BOOLEAN, at \in {"initialize", "restore"} : Pass(r, ok, at)
    BY <1>10 DEF AwaitStart, Alive, TypeOK
  <2>2. QED BY <1>3, <2>1 DEF At
<1>11. CASE Initialize(r) \/ Bind(r) \/ Record(r)
  <2>1. \/ \E ok \in BOOLEAN, at \in {"bind", "pane"} : Pass(r, ok, at)
        \/ End(r)
    BY <1>11 DEF Initialize, Bind, Record, Connected, Accepting, Fenced
  <2>2. QED BY <1>2, <1>3, <2>1 DEF At
<1>12. CASE ListPanes(r)
  <2>1. ASSUME panes # <<>>,
               step' = [step EXCEPT ![r].at = "check", ![r].pane = Head(panes)]
        PROVE  step' \in [Parents -> Request] /\ StartsNamed'
    <3> DEFINE x == [step[r] EXCEPT !.at = "check", !.pane = Head(panes)]
    <3>1. Head(panes) \in Parents
      BY <2>1 DEF TypeOK
    <3>2. x \in Request /\ x.at = "check"
      BY <3>1, RequestPane DEF At
    <3>3. step' = [step EXCEPT ![r] = x]
      BY <2>1
    <3>4. QED BY <3>2, <3>3, StepOf
  <2>2. QED BY <1>1, <1>2, <1>12, <2>1 DEF ListPanes, At
<1>13. CASE SplitPane(r)
  <2> DEFINE x == [step[r] EXCEPT !.at = "check", !.pane = r]
  <2>1. x \in Request /\ x.at = "check"
    BY RequestPane DEF At
  <2>2. step' = [step EXCEPT ![r] = x]
    BY <1>13 DEF SplitPane
  <2>3. QED BY <2>1, <2>2, StepOf
<1>14. CASE CheckPane(r)
  <2>1. \E ok \in BOOLEAN, at \in {"execute", "resume"} : Pass(r, ok, at)
    BY <1>14 DEF CheckPane
  <2>2. QED BY <1>3, <2>1 DEF At
<1>15. CASE InspectController(r)
  <2> DEFINE restore == [Idle EXCEPT !.at = "restore", !.ask = "status"]
             ensure == [Idle EXCEPT !.at = "ensure", !.ask = "status"]
  <2>1. \E x \in {Idle, restore, ensure} : step' = [step EXCEPT ![r] = x]
    BY <1>15 DEF InspectController
  <2>2. Idle \in Request /\ Idle.at = "idle"
    BY RequestIdle DEF Idle
  <2>3. restore \in Request /\ restore.at = "restore"
    BY <2>2 DEF Request, At
  <2>4. ensure \in Request /\ ensure.at = "ensure"
    BY <2>2 DEF Request, At
  <2> HIDE DEF restore, ensure
  <2>5. QED BY <2>1, <2>2, <2>3, <2>4, StepOf
<1>16. CASE RestorePanes(r) \/ ResumeInitial(r)
  <2>1. End(r) \/ (Server # None /\ Waiting(r, Server))
    BY <1>16 DEF RestorePanes, ResumeInitial, AskExecutor
  <2>2. QED BY <1>2, <1>4, <2>1, ServerIsProcess DEF Waiting, At
<1>17. CASE Accepted(r) \/ LoseConnection(r)
  BY <1>2, <1>17 DEF Accepted, LoseConnection
<1>18. CASE Execute(r)
  BY <1>1, <1>2, <1>18 DEF Execute, At
<1>19. CASE TimeOut(r) \/ FailPane(r) \/ ClosePane(r)
  BY <1>2, <1>5, <1>19 DEF TimeOut, FailPane, ClosePane
<1>20. QED
  BY <1>6, <1>7, <1>8, <1>9, <1>10, <1>11, <1>12, <1>13, <1>14, <1>15, <1>16,
     <1>17, <1>18, <1>19 DEF ParentStep

\* What an answer makes of a request that waits for it.
LEMMA AnsweredTyped ==
  ASSUME TypeOK, StartsNamed, NEW p \in Processes, NEW i, NEW ok,
         Answered(p, i, ok)
  PROVE  step' \in [Parents -> Request] /\ StartsNamed'
<1> DEFINE op == queue[p][i]
           answer(r) == Answer(r, op.kind, ok)
<1>1. ASSUME NEW r \in Parents
      PROVE  answer(r) \in Request /\ answer(r).at # "starting"
  <2>1. step[r] \in Request
    BY DEF TypeOK
  <2>2. [step[r] EXCEPT !.at = "pane", !.on = None] \in Request
          /\ [step[r] EXCEPT !.at = "pane", !.on = None].at = "pane"
    BY <2>1 DEF Request, At
  <2>3. [step[r] EXCEPT !.at = "record"] \in Request
          /\ [step[r] EXCEPT !.at = "record"].at = "record"
    BY <2>1 DEF Request, At
  <2>4. Idle \in Request /\ Idle.at = "idle"
    BY RequestIdle DEF Idle
  <2>5. answer(r) \in {[step[r] EXCEPT !.at = "pane", !.on = None],
                       [step[r] EXCEPT !.at = "record"], Idle}
    BY DEF Answer
  <2>6. QED BY <2>2, <2>3, <2>4, <2>5
<1>2. ASSUME NEW r \in Parents PROVE step'[r] \in {answer(r), step[r]}
  BY DEF Answered
<1>3. \A r \in Parents : step[r] \in Request
  BY DEF TypeOK
<1>4. step' = [r \in Parents |-> step'[r]]
  BY DEF Answered
<1> HIDE DEF answer
<1>5. step' \in [Parents -> Request]
  BY <1>1, <1>2, <1>3, <1>4
<1>6. StartsNamed'
  BY <1>1, <1>2 DEF StartsNamed
<1>7. QED BY <1>5, <1>6

LEMMA WithoutTyped ==
  ASSUME NEW S, NEW s \in Seq(S), NEW i \in DOMAIN s
  PROVE  /\ Without(s, i) \in Seq(S)
         /\ Len(Without(s, i)) = Len(s) - 1
         /\ i = 1 => \A j \in DOMAIN Without(s, i) : Without(s, i)[j] = s[j + 1]
<1> DEFINE rest == Without(s, i)
<1>1. i \in 1 .. Len(s) /\ Len(s) \in Nat
  OBVIOUS
<1>2. \A j \in 1 .. Len(s) - 1 : (IF j < i THEN j ELSE j + 1) \in 1 .. Len(s)
  BY <1>1
<1>3. \A j \in 1 .. Len(s) : s[j] \in S
  OBVIOUS
<1>4. rest \in [1 .. Len(s) - 1 -> S]
  BY <1>2, <1>3 DEF Without
<1>5. /\ rest \in Seq(S) /\ Len(rest) = Len(s) - 1
      /\ DOMAIN rest = 1 .. Len(s) - 1
  BY <1>1, <1>4
<1>6. i = 1 => \A j \in 1 .. Len(s) - 1 : rest[j] = s[j + 1]
  BY <1>1 DEF Without
<1>7. QED BY <1>5, <1>6

\* When an operation leaves, those behind it move up.
LEMMA LeavesTyped ==
  ASSUME queue \in [Processes -> Seq(Operation)], NEW p \in Processes,
         NEW i \in DOMAIN queue[p], Leaves(p, i)
  PROVE  /\ queue' \in [Processes -> Seq(Operation)]
         /\ \A q \in Processes : q # p => queue'[q] = queue[q]
         /\ Len(queue'[p]) = Len(queue[p]) - 1
         /\ i = 1 => \A j \in DOMAIN queue'[p] : queue'[p][j] = queue[p][j + 1]
<1>1. queue[p] \in Seq(Operation)
  OBVIOUS
<1>2. queue' = [queue EXCEPT ![p] = Without(queue[p], i)]
  BY DEF Leaves
<1>3. QED BY <1>1, <1>2, WithoutTyped

\* An operation that enters its next phase.
LEMMA AdvanceTyped ==
  ASSUME queue \in [Processes -> Seq(Operation)], NEW p \in Processes,
         NEW i \in DOMAIN queue[p],
         NEW phase \in {"launching", "relaunching", "materialized", "leased"},
         Advance(p, i, phase)
  PROVE  /\ queue' \in [Processes -> Seq(Operation)]
         /\ \A q \in Processes : q # p => queue'[q] = queue[q]
         /\ Len(queue'[p]) = Len(queue[p])
         /\ queue'[p][i].phase = phase
         /\ \A j \in DOMAIN queue[p] : j # i => queue'[p][j] = queue[p][j]
<1> DEFINE q == queue[p]
           op == [q[i] EXCEPT !.phase = phase]
<1>1. q \in Seq(Operation) /\ i \in 1 .. Len(q)
  OBVIOUS
<1>2. op \in Operation /\ op.phase = phase
  <2>1. PICK x \in Operation : x = q[i]
    BY <1>1
  <2>2. [x EXCEPT !.phase = phase] \in Operation
          /\ [x EXCEPT !.phase = phase].phase = phase
    BY DEF Operation
  <2>3. QED BY <2>1, <2>2
<1>3. queue' = [queue EXCEPT ![p] = [q EXCEPT ![i] = op]]
  BY DEF Advance
<1> HIDE DEF op
<1>4. [q EXCEPT ![i] = op] \in Seq(Operation)
        /\ Len([q EXCEPT ![i] = op]) = Len(q)
  BY <1>1, <1>2
<1>5. QED BY <1>1, <1>2, <1>3, <1>4

LEMMA KindOf ==
  ASSUME TypeOK, NEW p \in Processes, NEW i \in DOMAIN queue[p]
  PROVE  queue[p][i].kind \in {"execute", "restore", "resume"}
<1>1. PICK x \in Operation : x = queue[p][i]
  BY DEF TypeOK
<1>2. QED BY <1>1 DEF Operation

\* What an operation of the executor may do to the queue.
LEMMA WorkOfQueue ==
  ASSUME TypeOK, NEW p \in Processes, NEW i \in DOMAIN queue[p],
         \/ Begin(p, i) \/ Materialize(p, i) \/ LeaseWriter(p, i)
         \/ CommitTick(p, i) \/ FailTick(p, i)
  PROVE  \/ Leaves(p, i)
         \/ \E phase \in {"launching", "relaunching", "materialized", "leased"} :
              Advance(p, i, phase)
<1>1. queue[p][i].kind \in {"execute", "restore", "resume"}
  BY KindOf
<1>2. QED
  BY <1>1 DEF Begin, Materialize, LeaseWriter, CommitTick, FailTick, Settle

LEMMA WorkTyped ==
  ASSUME TypeOK, StartsNamed, NEW p \in Processes, NEW i \in DOMAIN queue[p],
         \/ Begin(p, i) \/ Materialize(p, i) \/ LeaseWriter(p, i)
         \/ CommitTick(p, i) \/ FailTick(p, i)
  PROVE  /\ queue' \in [Processes -> Seq(Operation)]
         /\ step' \in [Parents -> Request] /\ StartsNamed'
<1>1. queue' \in [Processes -> Seq(Operation)]
  BY WorkOfQueue, LeavesTyped, AdvanceTyped DEF TypeOK
<1>2. UNCHANGED step \/ \E ok \in BOOLEAN : Answered(p, i, ok)
  <2>1. queue[p][i].kind \in {"execute", "restore", "resume"}
    BY KindOf
  <2>2. Authorized(p) \in BOOLEAN
    BY DEF Authorized
  <2>3. QED
    BY <2>1, <2>2
       DEF Begin, Materialize, LeaseWriter, CommitTick, FailTick, Settle
<1>3. QED BY <1>1, <1>2, AnsweredTyped DEF TypeOK, StartsNamed

\* An operation that is queued, or the parents that share one.
LEMMA EnqueuedTyped ==
  ASSUME queue \in [Processes -> Seq(Operation)], NEW p \in Processes,
         NEW op \in Operation, Enqueued(p, op)
  PROVE  /\ queue' \in [Processes -> Seq(Operation)]
         /\ \A q \in Processes : q # p => queue'[q] = queue[q]
         /\ Len(queue'[p]) = Len(queue[p]) + 1
         /\ queue'[p][Len(queue[p]) + 1] = op
         /\ \A j \in DOMAIN queue[p] : queue'[p][j] = queue[p][j]
<1>1. queue[p] \in Seq(Operation)
  OBVIOUS
<1>2. queue' = [queue EXCEPT ![p] = Append(queue[p], op)]
  BY DEF Enqueued
<1>3. QED BY <1>1, <1>2

LEMMA AskedTyped ==
  ASSUME TypeOK, NEW r \in Parents,
         RestorePanes(r) \/ ResumeInitial(r) \/ Execute(r)
  PROVE  \/ UNCHANGED queue
         \/ \E p \in Processes, op \in Operation :
              proc[p] = "running" /\ op.phase = "queued" /\ Enqueued(p, op)
         \/ \E p \in Processes :
              /\ queue' \in [Processes -> Seq(Operation)]
              /\ \A q \in Processes : q # p => queue'[q] = queue[q]
              /\ Len(queue'[p]) = Len(queue[p])
              /\ \A j \in DOMAIN queue[p] :
                   queue'[p][j].phase = queue[p][j].phase
<1>1. ASSUME NEW kind \in {"execute", "restore", "resume"}
      PROVE  LET op == [kind |-> kind, by |-> {r}, phase |-> "queued"]
             IN  op \in Operation /\ op.phase = "queued"
  BY DEF Operation
<1>2. Server # None => proc[Server] = "running"
  BY DEF Server, Accepting
<1>3. ASSUME NEW at, NEW kind \in {"restore", "resume"},
             AskExecutor(r, at, kind), queue' # queue
      PROVE  \E p \in Processes, op \in Operation :
               proc[p] = "running" /\ op.phase = "queued" /\ Enqueued(p, op)
  BY <1>1, <1>2, <1>3, ServerIsProcess DEF AskExecutor
<1>4. CASE RestorePanes(r)
  BY <1>3, <1>4 DEF RestorePanes
<1>5. CASE Execute(r)
  <2>1. CASE Connected(r)
    <3>1. step[r].on \in Processes /\ proc[step[r].on] = "running"
      BY <2>1 DEF Connected, Accepting
    <3>2. Enqueued(step[r].on,
                   [kind |-> "execute", by |-> {r}, phase |-> "queued"])
      BY <1>5, <2>1 DEF Execute
    <3>3. QED BY <1>1, <3>1, <3>2
  <2>2. CASE ~Connected(r)
    BY <1>5, <2>2 DEF Execute
  <2>3. QED BY <2>1, <2>2
<1>6. CASE ResumeInitial(r)
  <2>1. CASE Server # None /\ Resumes(Server)
    <3>1. PICK p \in Processes : p = Server
      BY <2>1, ServerIsProcess
    <3> DEFINE q == queue[p]
               shared(j) == [q[j] EXCEPT !.by = q[j].by \cup {r}]
               new == Shared(q, r)
    <3>2. q \in Seq(Operation)
      BY DEF TypeOK
    <3>3. ASSUME NEW j \in DOMAIN q
          PROVE  shared(j) \in Operation /\ shared(j).phase = q[j].phase
      <4>1. PICK x \in Operation : x = q[j]
        BY <3>2, <3>3
      <4>2. [x EXCEPT !.by = x.by \cup {r}] \in Operation
              /\ [x EXCEPT !.by = x.by \cup {r}].phase = x.phase
        BY DEF Operation
      <4>3. QED BY <4>1, <4>2
    <3>4. new \in [1 .. Len(q) -> Operation]
      <4>1. \A j \in DOMAIN q : new[j] \in {shared(j), q[j]}
        BY DEF Shared
      <4>2. DOMAIN q = 1 .. Len(q) /\ \A j \in DOMAIN q : q[j] \in Operation
        BY <3>2
      <4>3. \A j \in DOMAIN q : new[j] \in Operation
        BY <3>3, <4>1, <4>2
      <4>4. new = [j \in DOMAIN q |-> new[j]]
        BY DEF Shared
      <4> HIDE DEF new
      <4>5. QED BY <4>2, <4>3, <4>4
    <3>5. new \in Seq(Operation) /\ Len(new) = Len(q)
      BY <3>2, <3>4
    <3>6. \A j \in DOMAIN q : new[j].phase = q[j].phase
      BY <3>3 DEF Shared
    <3>7. queue' = [queue EXCEPT ![p] = new]
      BY <1>6, <2>1, <3>1 DEF ResumeInitial
    <3> HIDE DEF new
    <3>8. QED BY <3>5, <3>6, <3>7 DEF TypeOK
  <2>2. CASE ~(Server # None /\ Resumes(Server))
    BY <1>3, <1>6, <2>2 DEF ResumeInitial
  <2>3. QED BY <2>1, <2>2
<1>7. QED BY <1>4, <1>5, <1>6

LEMMA EventTyped == TypeOK /\ Event => events' \in 0 .. MaxEvents
  BY DEF TypeOK, Event

LEMMA ForgetTyped ==
  ASSUME TypeOK, NEW p, Forget(p)
  PROVE  /\ gated' \in [Processes -> BOOLEAN]
         /\ queue' \in [Processes -> Seq(Operation)]
         /\ p \in Processes => queue'[p] = <<>>
         /\ \A q \in Processes : q # p => queue'[q] = queue[q]
<1>1. <<>> \in Seq(Operation)
  OBVIOUS
<1>2. QED BY <1>1 DEF TypeOK, Forget

-----------------------------------------------------------------------------
(* Every step keeps the types. *)
LEMMA TypeStep ==
  TypeOK /\ StartsNamed /\ [Next]_vars => TypeOK' /\ StartsNamed'
<1> SUFFICES ASSUME TypeOK, StartsNamed, [Next]_vars
             PROVE  TypeOK' /\ StartsNamed'
  OBVIOUS
<1> DEFINE Vars == /\ run' \in {"none", "ready", "active", "blocked"}
                   /\ bound' \in BOOLEAN
                   /\ roster' \in {"none", "launching", "launched"}
                   /\ launches' \in Nat
                   /\ keys' \subseteq {"pause", "resume"}
                   /\ gated' \in [Processes -> BOOLEAN]
                   /\ events' \in 0 .. MaxEvents
           Seqs == /\ panes' \in Seq(Parents)
                   /\ queue' \in [Processes -> Seq(Operation)]
           Steps == step' \in [Parents -> Request] /\ StartsNamed'
<1>1. HostTypeOK'
  BY HostOfSession, HostTypeStep DEF TypeOK
<1>2. ASSUME NEW r \in Parents,
             \/ AskLaunch(r) \/ AskStatus(r)
             \/ \E control \in {"pause", "resume"} : Control(r, control)
             \/ TimeOut(r) \/ FailPane(r) \/ ClosePane(r)
      PROVE  Vars /\ Seqs /\ Steps
  <2>1. UNCHANGED ProcessVars \/ \E p : Forget(p)
    BY <1>2 DEF AskLaunch, AskStatus, Control, TimeOut, FailPane, ClosePane,
       LooksOnly
  <2>2. /\ gated' \in [Processes -> BOOLEAN]
        /\ queue' \in [Processes -> Seq(Operation)]
    BY <2>1, ForgetTyped DEF TypeOK, ProcessVars
  <2>6. Event \/ UNCHANGED events
    BY <1>2 DEF AskLaunch, AskStatus, Control, TimeOut, FailPane, ClosePane,
       LooksOnly
  <2>7. /\ run' \in {run, "blocked", "ready"}
        /\ keys' \subseteq keys \cup {"pause", "resume"}
        /\ UNCHANGED <<bound, roster, launches>>
    BY <1>2 DEF AskLaunch, AskStatus, Control, Controlled, TimeOut, FailPane,
       ClosePane, LooksOnly, RunVars
  <2>8. Vars
    BY <2>2, <2>6, <2>7, EventTyped DEF TypeOK
  <2>3. panes' = panes \/ \E i \in DOMAIN panes : panes' = Without(panes, i)
    BY <1>2 DEF AskLaunch, AskStatus, Control, TimeOut, FailPane, ClosePane,
       LooksOnly
  <2>4. panes' \in Seq(Parents)
    BY <2>3, WithoutTyped DEF TypeOK
  <2>5. QED BY <1>2, <2>8, <2>2, <2>4, ParentStepTyped
<1>3. ASSUME NEW r \in Parents, ParentStep(r) PROVE Vars /\ Seqs /\ Steps
  <2>0. CASE TimeOut(r)
    BY <1>2, <2>0
  <2>1. CASE EnsureRunning(r) \/ AwaitStart(r) \/ Initialize(r) \/ Bind(r)
               \/ Record(r)
    BY <2>1, <1>3, ParentStepTyped
       DEF TypeOK, EnsureRunning, AwaitStart, Initialize, Bind, Record,
           LooksOnly, RunVars, ProcessVars, Connected, Accepting, Fenced
  <2>2. CASE SplitPane(r)
    <3>1. panes' \in Seq(Parents)
      BY <2>2 DEF TypeOK, SplitPane
    <3>2. QED BY <2>2, <1>3, <3>1, ParentStepTyped
                 DEF TypeOK, SplitPane, RunVars, ProcessVars
  <2>3. CASE ListPanes(r) \/ CheckPane(r) \/ InspectController(r)
               \/ Accepted(r) \/ LoseConnection(r)
    BY <2>3, <1>3, ParentStepTyped
       DEF TypeOK, ListPanes, CheckPane, InspectController, Accepted,
           LoseConnection, LooksOnly, RunVars, ProcessVars
  <2>4. CASE RestorePanes(r) \/ ResumeInitial(r) \/ Execute(r)
    <3>1. queue' \in [Processes -> Seq(Operation)]
      BY <2>4, AskedTyped, EnqueuedTyped DEF TypeOK
    <3>2. UNCHANGED <<RunVars, panes, gated, events>>
      BY <2>4 DEF RestorePanes, ResumeInitial, AskExecutor, Execute
    <3>3. QED BY <1>3, <3>1, <3>2, ParentStepTyped DEF TypeOK, RunVars
  <2>5. QED BY <1>3, <2>0, <2>1, <2>2, <2>3, <2>4 DEF ParentStep
<1>4. ASSUME NEW p \in Processes,
             \/ StartStep(p) \/ RenewStep(p) \/ StopStep(p)
             \/ StopController(p) \/ CrashController(p)
      PROVE  Vars /\ Seqs /\ Steps
  <2>1. Event \/ UNCHANGED events
    BY <1>4 DEF StartStep, RenewStep, StopStep, StopController, CrashController
  <2>2. UNCHANGED <<RunVars, panes, step>>
    BY <1>4 DEF StartStep, RenewStep, StopStep, StopController, CrashController
  <2>3. \/ UNCHANGED ProcessVars
        \/ Forget(p)
        \/ /\ UNCHANGED queue
           /\ gated' = [gated EXCEPT ![p] =
                          IF proc'[p] = "verified"
                            THEN Interrupted /\ p \notin astray
                            ELSE @ /\ proc'[p] # "gone"]
    BY <1>4 DEF StartStep, RenewStep, StopStep, StopController, CrashController
  <2>4. /\ gated' \in [Processes -> BOOLEAN]
        /\ queue' \in [Processes -> Seq(Operation)]
    BY <2>3, ForgetTyped DEF TypeOK, ProcessVars, Interrupted
  <2>5. QED
    BY <2>1, <2>2, <2>4, EventTyped DEF TypeOK, RunVars, StartsNamed
<1>5. ASSUME NEW p \in Processes, Work(p) PROVE Vars /\ Seqs /\ Steps
  <2>1. PICK i \in DOMAIN queue[p] :
          \/ Begin(p, i) \/ Materialize(p, i) \/ LeaseWriter(p, i)
          \/ CommitTick(p, i) \/ FailTick(p, i)
    BY <1>5 DEF Work
  <2>5. Event \/ UNCHANGED events
    BY <2>1 DEF Begin, Materialize, LeaseWriter, CommitTick, FailTick
  <2>6. /\ run' \in {run, "active"}
        /\ roster' \in {roster, "launching", "launched"}
        /\ launches' \in {launches, launches + 0, launches + 1}
        /\ UNCHANGED <<bound, keys, gated>>
    BY <2>1 DEF Begin, Materialize, LeaseWriter, CommitTick, FailTick,
       OperationOnly
  <2>2. Vars
    BY <2>5, <2>6, EventTyped DEF TypeOK
  <2>3. panes' \in Seq(Parents)
    BY <2>1 DEF TypeOK, Begin, Materialize, LeaseWriter, CommitTick, FailTick,
       OperationOnly
  <2>4. QED BY <2>1, <2>2, <2>3, WorkTyped
<1>6. ASSUME LapseStep \/ CorruptDisk \/ UNCHANGED vars
      PROVE  Vars /\ Seqs /\ Steps
  <2>1. UNCHANGED <<RunVars, panes, ProcessVars, step>>
    BY <1>6 DEF LapseStep, CorruptDisk, vars, sessionVars, RunVars, ProcessVars
  <2>2. Event \/ UNCHANGED events
    BY <1>6 DEF LapseStep, CorruptDisk, vars, sessionVars
  <2>3. QED
    BY <2>1, <2>2, EventTyped DEF TypeOK, StartsNamed, RunVars, ProcessVars
<1>7. Vars /\ Seqs /\ Steps
  <2> HIDE DEF Vars, Seqs, Steps
  <2>1. ASSUME NEW r \in Parents,
               \/ AskLaunch(r) \/ AskStatus(r)
               \/ \E control \in {"pause", "resume"} : Control(r, control)
               \/ ParentStep(r)
               \/ TimeOut(r) \/ FailPane(r) \/ ClosePane(r)
        PROVE  Vars /\ Seqs /\ Steps
    BY <1>2, <1>3, <2>1
  <2>2. ASSUME NEW p \in Processes,
               \/ StartStep(p) \/ RenewStep(p) \/ StopStep(p) \/ Work(p)
               \/ StopController(p) \/ CrashController(p)
        PROVE  Vars /\ Seqs /\ Steps
    BY <1>4, <1>5, <2>2
  <2>3. QED BY <1>6, <2>1, <2>2 DEF Next
<1>8. TypeOK'
  BY <1>1, <1>7 DEF TypeOK
<1>9. QED BY <1>7, <1>8

-----------------------------------------------------------------------------
(* The executors.                                                          *)

\* While a repository is open its process stays in possession of it, and no
\* step makes it the owner of the lease again.
LEMMA OpenStaysOpen ==
  ASSUME HostTypeOK, NEW p \in Processes, NEW q \in Processes,
         \/ Spawn(p) \/ Starts(p) \/ Renew(p) \/ Stop(p) \/ FailRenewal(p)
         \/ RemoveDescriptor(p)
         \/ q # p /\ (EndStop(p) \/ Crash(p)),
         RepositoryOpen(q)
  PROVE  RepositoryOpen(q)' /\ (Writable(q)' => Writable(q))
<1>0. q # None /\ NoLease.owner # q
  BY DEF NoLease
<1>1. CASE \/ Spawn(p) \/ Starts(p) \/ RemoveDescriptor(p)
           \/ q # p /\ (EndStop(p) \/ Crash(p))
  <2>1. p # q
    BY <1>1 DEF Spawn, Fresh, Alive, Starts, OpensDatabase, CheckMarker, Open,
       Verify, Acquire, Quarantine, Mark, MoveAside, OpensSocket, Look, Probe,
       Unlink, Listen, Serve, RemoveDescriptor, RepositoryOpen
  <2>2. /\ proc' = proc \/ \E phase \in Phases : Becomes(p, phase)
        /\ lease' \in {lease, NoLease, [owner |-> p, live |-> TRUE]}
    BY <1>1, DatabaseStep, ServiceStep DEF Starts
  <2>3. proc'[q] = proc[q]
    BY <2>1, <2>2, Advanced
  <2>4. [owner |-> p, live |-> TRUE].owner # q
    BY <2>1
  <2>5. QED BY <1>0, <2>2, <2>3, <2>4 DEF RepositoryOpen, Writable
<1>2. CASE Renew(p)
  BY <1>2 DEF Renew, RepositoryOpen, Writable
<1>3. CASE Stop(p) \/ FailRenewal(p)
  <2>1. PICK phase \in {"stopping", "failing"} :
          Becomes(p, phase) /\ lease' = lease
    BY <1>3 DEF Stop, FailRenewal, Close
  <2>2. QED BY <2>1, Advanced DEF RepositoryOpen, Writable, Phases
<1>4. QED BY <1>1, <1>2, <1>3

\* A step that leaves each queue alone, or forgets it.
LEMMA QueuesKept ==
  ASSUME SessionInv, UNCHANGED <<roster, launches>>,
         \A q \in Processes :
           \/ queue'[q] = <<>>
           \/ /\ queue'[q] = queue[q]
              /\ RepositoryOpen(q) =>
                   RepositoryOpen(q)' /\ (Writable(q)' => Writable(q))
  PROVE  Executors' /\ LaunchesCounted'
<1>1. ASSUME NEW q \in Processes PROVE ExecutorOf(q)'
  <2>1. CASE queue'[q] = <<>>
    BY <2>1 DEF ExecutorOf
  <2>2. CASE queue'[q] # <<>>
    <3>1. queue'[q] = queue[q] /\ RepositoryOpen(q)
      BY <2>2 DEF SessionInv, Executors, ExecutorOf
    <3>2. RepositoryOpen(q)' /\ (Writable(q)' => Writable(q))
      BY <3>1, <2>2
    <3>3. ExecutorOf(q)
      BY DEF SessionInv, Executors
    <3>4. QED BY <3>1, <3>2, <3>3 DEF ExecutorOf
  <2>3. QED BY <2>1, <2>2
<1>2. Executors'
  BY <1>1 DEF Executors
<1>3. LaunchesCounted'
  BY DEF SessionInv, LaunchesCounted
<1>4. QED BY <1>2, <1>3

\* A step of the directory that forgets the queue of a process that is gone.
LEMMA HostStepKeeps ==
  ASSUME SessionInv, UNCHANGED <<roster, launches>>, NEW p \in Processes,
         \/ /\ \/ Spawn(p) \/ Starts(p) \/ Renew(p) \/ Stop(p)
               \/ FailRenewal(p) \/ RemoveDescriptor(p)
            /\ UNCHANGED queue
         \/ /\ EndStop(p) \/ Crash(p)
            /\ Forget(p)
  PROVE  Executors' /\ LaunchesCounted'
<1>1. HostTypeOK /\ TypeOK
  BY DEF SessionInv, TypeOK
<1>2. ASSUME NEW q \in Processes
      PROVE  \/ queue'[q] = <<>>
             \/ /\ queue'[q] = queue[q]
                /\ RepositoryOpen(q) =>
                     RepositoryOpen(q)' /\ (Writable(q)' => Writable(q))
  <2>1. CASE /\ \/ Spawn(p) \/ Starts(p) \/ Renew(p) \/ Stop(p)
                \/ FailRenewal(p) \/ RemoveDescriptor(p)
             /\ UNCHANGED queue
    BY <1>1, <2>1, OpenStaysOpen
  <2>2. CASE /\ EndStop(p) \/ Crash(p)
             /\ Forget(p)
    <3>1. CASE q = p
      BY <1>1, <2>2, <3>1, ForgetTyped
    <3>2. CASE q # p
      BY <1>1, <2>2, <3>2, ForgetTyped, OpenStaysOpen
    <3>3. QED BY <3>1, <3>2
  <2>3. QED BY <2>1, <2>2
<1>3. QED BY <1>2, QueuesKept

\* A parent asks for an operation: it is queued, or an equal one shared.
LEMMA AskKeeps ==
  ASSUME SessionInv, NEW r \in Parents,
         RestorePanes(r) \/ ResumeInitial(r) \/ Execute(r)
  PROVE  Executors' /\ LaunchesCounted'
<1>1. UNCHANGED <<proc, lease, roster, launches>>
  BY DEF RestorePanes, ResumeInitial, AskExecutor, Execute, hostVars, RunVars
<1>2. LaunchesCounted'
  BY <1>1 DEF SessionInv, LaunchesCounted
<1>3. TypeOK /\ \A q \in Processes : queue[q] \in Seq(Operation) /\ ExecutorOf(q)
  BY DEF SessionInv, Executors, TypeOK
<1>4. CASE UNCHANGED queue
  BY <1>1, <1>4, QueuesKept DEF RepositoryOpen, Writable
<1>5. ASSUME NEW p \in Processes, NEW op \in Operation,
             proc[p] = "running", op.phase = "queued", Enqueued(p, op)
      PROVE  Executors'
  <2> DEFINE n == Len(queue[p])
  <2>1. /\ queue' \in [Processes -> Seq(Operation)]
        /\ \A q \in Processes : q # p => queue'[q] = queue[q]
        /\ Len(queue'[p]) = n + 1
        /\ queue'[p][n + 1] = op
        /\ \A j \in DOMAIN queue[p] : queue'[p][j] = queue[p][j]
    BY <1>3, <1>5, EnqueuedTyped DEF TypeOK
  <2>2. ASSUME NEW q \in Processes, q # p PROVE ExecutorOf(q)'
    BY <1>1, <1>3, <2>1, <2>2 DEF ExecutorOf, RepositoryOpen, Writable
  <2>3. ExecutorOf(p)'
    <3>1. RepositoryOpen(p)' /\ (Writable(p)' <=> Writable(p))
      BY <1>1, <1>5 DEF RepositoryOpen, Writable
    <3>2. DOMAIN queue'[p] = 1 .. n + 1 /\ DOMAIN queue[p] = 1 .. n /\ n \in Nat
      BY <1>3, <2>1
    <3>3. \A j \in DOMAIN queue'[p] :
            \/ j \in DOMAIN queue[p] /\ queue'[p][j] = queue[p][j]
            \/ queue'[p][j].phase = "queued"
      BY <1>5, <2>1, <3>2
    <3>4. QED BY <1>1, <1>3, <3>1, <3>3 DEF ExecutorOf
  <2>4. QED BY <2>2, <2>3 DEF Executors
<1>6. ASSUME NEW p \in Processes,
             queue' \in [Processes -> Seq(Operation)],
             \A q \in Processes : q # p => queue'[q] = queue[q],
             Len(queue'[p]) = Len(queue[p]),
             \A j \in DOMAIN queue[p] : queue'[p][j].phase = queue[p][j].phase
      PROVE  Executors'
  <2>1. ASSUME NEW q \in Processes, q # p PROVE ExecutorOf(q)'
    BY <1>1, <1>3, <1>6, <2>1 DEF ExecutorOf, RepositoryOpen, Writable
  <2>2. ExecutorOf(p)'
    <3>1. (RepositoryOpen(p)' <=> RepositoryOpen(p))
            /\ (Writable(p)' <=> Writable(p))
      BY <1>1 DEF RepositoryOpen, Writable
    <3>2. DOMAIN queue'[p] = DOMAIN queue[p]
      BY <1>3, <1>6
    <3>3. queue'[p] # <<>> => queue[p] # <<>>
      BY <1>3, <1>6
    <3>4. QED BY <1>1, <1>3, <1>6, <3>1, <3>2, <3>3 DEF ExecutorOf
  <2>3. QED BY <2>1, <2>2 DEF Executors
<1>7. QED BY <1>2, <1>3, <1>4, <1>5, <1>6, AskedTyped

\* The operation that has begun is the first.
LEMMA BegunIsFirst ==
  ASSUME SessionInv, NEW p \in Processes, NEW i \in DOMAIN queue[p],
         \/ Begin(p, i) \/ Materialize(p, i) \/ LeaseWriter(p, i)
         \/ CommitTick(p, i) \/ FailTick(p, i)
  PROVE  i = 1 /\ RepositoryOpen(p) /\ queue[p] \in Seq(Operation)
<1>1. ExecutorOf(p) /\ queue[p] \in Seq(Operation)
  BY DEF SessionInv, Executors, TypeOK
<1>2. queue[p][i].phase # "queued" \/ Turn(p, i)
  BY DEF Begin, Materialize, LeaseWriter, CommitTick, FailTick, OperationAt
<1>3. i = 1
  BY <1>1, <1>2 DEF ExecutorOf, Turn
<1>4. RepositoryOpen(p)
  BY DEF Begin, Materialize, LeaseWriter, CommitTick, FailTick, OperationAt
<1>5. QED BY <1>1, <1>3, <1>4

\* What an operation does to the queue it is in; what it does to the roster
\* is for the steps below.
LEMMA WorkKeeps ==
  ASSUME SessionInv, NEW p \in Processes, NEW i \in DOMAIN queue[p],
         \/ Begin(p, i) \/ Materialize(p, i) \/ LeaseWriter(p, i)
         \/ CommitTick(p, i) \/ FailTick(p, i)
  PROVE  Executors' /\ LaunchesCounted'
<1>1. i = 1 /\ RepositoryOpen(p) /\ queue[p] \in Seq(Operation)
  BY BegunIsFirst
<1>2. UNCHANGED <<proc, lease>>
  BY DEF Begin, Materialize, LeaseWriter, CommitTick, FailTick, OperationOnly
<1>3. /\ TypeOK /\ LaunchesCounted
      /\ \A q \in Processes : queue[q] \in Seq(Operation) /\ ExecutorOf(q)
  BY DEF SessionInv, Executors, TypeOK
<1>4. \A q \in Processes : q # p => queue'[q] = queue[q]
  <2>1. CASE Leaves(p, i)
    BY <1>3, <2>1, LeavesTyped DEF TypeOK
  <2>2. ASSUME NEW phase \in {"launching", "relaunching", "materialized",
                              "leased"}, Advance(p, i, phase)
        PROVE  \A q \in Processes : q # p => queue'[q] = queue[q]
    BY <1>3, <2>2, AdvanceTyped DEF TypeOK
  <2>3. QED BY <1>3, <2>1, <2>2, WorkOfQueue
\* Who still may write is one; the others' queues keep what they have.
<1>5. roster' = roster \/ Writable(p)
  BY DEF Begin, Materialize, LeaseWriter, CommitTick, FailTick
<1>5a. roster # "none" => roster' # "none"
  BY DEF Begin, Materialize, LeaseWriter, CommitTick, FailTick
<1>6. ASSUME NEW q \in Processes, q # p PROVE ExecutorOf(q)'
  <2>1. queue'[q] = queue[q]
    BY <1>4, <1>6
  <2>2. Writable(q)' => roster' = roster
    BY <1>2, <1>5, <1>6 DEF Writable
  <2>3. QED BY <1>2, <1>3, <1>5a, <2>1, <2>2 DEF ExecutorOf, RepositoryOpen, Writable
<1>7. CASE Leaves(p, i)
  <2>1. /\ queue' \in [Processes -> Seq(Operation)]
        /\ Len(queue'[p]) = Len(queue[p]) - 1
        /\ \A j \in DOMAIN queue'[p] : queue'[p][j] = queue[p][j + 1]
    BY <1>1, <1>3, <1>7, LeavesTyped DEF TypeOK
  <2>2. \A j \in DOMAIN queue'[p] :
          j + 1 \in DOMAIN queue[p] /\ j + 1 # 1
    BY <1>1, <2>1
  <2>3. \A j \in DOMAIN queue'[p] : queue'[p][j].phase = "queued"
    BY <1>3, <2>1, <2>2 DEF ExecutorOf
  <2>4. ExecutorOf(p)'
    BY <1>1, <1>2, <2>3 DEF ExecutorOf, RepositoryOpen
  <2>5. LaunchesCounted'
    <3>1. CASE CommitTick(p, i)
      <4>1. queue[p][i].phase = "leased"
        BY <3>1 DEF CommitTick, OperationAt
      <4>2. roster # "none" /\ roster' # "none" /\ launches' = launches
        BY <1>3, <3>1, <4>1 DEF ExecutorOf, CommitTick
      <4>3. QED BY <1>3, <4>2 DEF LaunchesCounted
    <3>2. CASE Begin(p, i) \/ FailTick(p, i)
      BY <1>3, <3>2 DEF LaunchesCounted, Begin, FailTick
    <3>3. CASE Materialize(p, i) \/ LeaseWriter(p, i)
      <4>1. \E phase \in {"materialized", "leased"} : Advance(p, i, phase)
        BY <3>3 DEF Materialize, LeaseWriter
      <4>2. Len(queue'[p]) = Len(queue[p])
        BY <1>3, <4>1, AdvanceTyped DEF TypeOK
      <4>3. QED BY <1>1, <2>1, <4>2
    <3>4. QED BY <3>1, <3>2, <3>3
  <2>6. QED BY <1>6, <2>4, <2>5 DEF Executors
<1>8. ASSUME NEW phase \in {"launching", "relaunching", "materialized",
                            "leased"}, Advance(p, i, phase)
      PROVE  Executors' /\ LaunchesCounted'
  <2>1. /\ Len(queue'[p]) = Len(queue[p])
        /\ queue' \in [Processes -> Seq(Operation)]
        /\ queue'[p][i].phase = phase
        /\ \A j \in DOMAIN queue[p] : j # i => queue'[p][j] = queue[p][j]
    BY <1>3, <1>8, AdvanceTyped DEF TypeOK
  <2>2. DOMAIN queue'[p] = DOMAIN queue[p]
    BY <1>1, <2>1
  <2>3. \A j \in DOMAIN queue'[p] : j # 1 => queue'[p][j].phase = "queued"
    BY <1>1, <1>3, <2>1, <2>2 DEF ExecutorOf
  <2>4. ~Leaves(p, i)
    BY <1>1, <1>3, <2>1, LeavesTyped DEF TypeOK
  <2>5. ~Settle(p, i, TRUE) /\ ~Settle(p, i, FALSE)
          /\ ~Settle(p, i, Authorized(p))
    BY <2>4 DEF Settle
  <2>6. /\ phase = "launching" /\ Writable(p)' => roster' = "none"
        /\ phase \in {"relaunching", "materialized", "leased"}
             => roster' # "none"
        /\ LaunchesCounted'
    <3>1. CASE Begin(p, i)
      <4>1. UNCHANGED <<roster, launches>>
        BY <3>1 DEF Begin
      <4>2. queue[p][i].kind \in {"execute", "resume"}
        BY <2>5, <3>1, <1>3, KindOf DEF Begin
      <4>3. \/ roster = "none" /\ Advance(p, i, "launching")
            \/ roster # "none" /\ Advance(p, i, "relaunching")
        BY <2>5, <3>1, <4>2 DEF Begin, Eligible
      <4>4. \/ roster = "none" /\ phase = "launching"
            \/ roster # "none" /\ phase = "relaunching"
        BY <1>3, <2>1, <4>3, AdvanceTyped DEF TypeOK
      <4>5. QED BY <1>3, <4>1, <4>4 DEF LaunchesCounted
    <3>2. CASE Materialize(p, i)
      <4>1. phase = "materialized"
        BY <1>3, <2>1, <3>2, AdvanceTyped DEF TypeOK, Materialize
      <4>2. roster' = "launching"
        BY <3>2 DEF Materialize
      <4>3. CASE queue[p][i].phase = "launching"
        <5>1. roster = "none"
          BY <1>3, <3>2, <4>3 DEF ExecutorOf, Materialize
        <5>2. launches' = launches + 1
          BY <3>2, <4>3 DEF Materialize
        <5>3. QED BY <1>3, <4>1, <4>2, <5>1, <5>2 DEF LaunchesCounted
      <4>4. CASE queue[p][i].phase = "relaunching"
        <5>1. roster # "none"
          BY <1>3, <4>4 DEF ExecutorOf
        <5>2. launches' = launches + 0
          BY <3>2, <4>4 DEF Materialize
        <5>3. QED BY <1>3, <4>1, <4>2, <5>1, <5>2 DEF LaunchesCounted
      <4>5. QED BY <3>2, <4>3, <4>4 DEF Materialize, OperationAt
    <3>3. CASE LeaseWriter(p, i)
      <4>1. phase = "leased"
        BY <1>3, <2>1, <3>3, AdvanceTyped DEF TypeOK, LeaseWriter
      <4>2. roster # "none" /\ UNCHANGED <<roster, launches>>
        BY <1>3, <3>3 DEF ExecutorOf, LeaseWriter, OperationAt
      <4>3. QED BY <1>3, <4>1, <4>2 DEF LaunchesCounted
    <3>4. CASE CommitTick(p, i) \/ FailTick(p, i)
      BY <2>5, <3>4 DEF CommitTick, FailTick
    <3>5. QED BY <3>1, <3>2, <3>3, <3>4
  <2>7. ExecutorOf(p)'
    BY <1>1, <1>2, <2>1, <2>2, <2>3, <2>6 DEF ExecutorOf, RepositoryOpen
  <2>8. QED BY <1>6, <2>6, <2>7 DEF Executors
<1>9. QED BY <1>3, <1>7, <1>8, WorkOfQueue

LEMMA ExecutorsStart == Init => Executors /\ LaunchesCounted
<1> SUFFICES ASSUME Init PROVE Executors /\ LaunchesCounted
  OBVIOUS
<1>1. ASSUME NEW p \in Processes PROVE queue[p] = <<>>
  BY DEF Init
<1>2. ASSUME NEW p \in Processes PROVE ExecutorOf(p)
  BY <1>1 DEF ExecutorOf
<1>3. LaunchesCounted
  BY DEF Init, LaunchesCounted
<1>4. QED BY <1>2, <1>3 DEF Executors

\* What leaves processes, lease, queues and roster alone keeps the executors.
LEMMA ElsewhereKeeps ==
  ASSUME SessionInv, UNCHANGED <<proc, lease.owner, queue, roster, launches>>
  PROVE  Executors' /\ LaunchesCounted'
<1>1. ASSUME NEW q \in Processes
      PROVE  /\ queue'[q] = queue[q]
             /\ RepositoryOpen(q) =>
                  RepositoryOpen(q)' /\ (Writable(q)' => Writable(q))
  BY DEF RepositoryOpen, Writable
<1>2. UNCHANGED <<roster, launches>>
  OBVIOUS
<1>3. QED BY <1>1, <1>2, QueuesKept

LEMMA ExecutorStep ==
  SessionInv /\ [Next]_vars => Executors' /\ LaunchesCounted'
<1> SUFFICES ASSUME SessionInv, [Next]_vars
             PROVE  Executors' /\ LaunchesCounted'
  OBVIOUS
<1>0. TypeOK /\ StartsNamed
  BY DEF SessionInv
<1>0a. ASSUME NEW r \in Parents, TimeOut(r)
       PROVE  Executors' /\ LaunchesCounted'
  <2>1. step[r].on \in Processes
    BY <1>0, <1>0a DEF TimeOut, StartsNamed
  <2>2. \/ Stop(step[r].on) /\ UNCHANGED queue
        \/ Crash(step[r].on) /\ Forget(step[r].on)
    BY <1>0a DEF TimeOut, ProcessVars
  <2>3. UNCHANGED <<roster, launches>>
    BY <1>0a DEF TimeOut, RunVars
  <2>4. QED BY <2>1, <2>2, <2>3, HostStepKeeps
<1>1. ASSUME NEW r \in Parents,
             \/ AskLaunch(r) \/ AskStatus(r)
             \/ \E control \in {"pause", "resume"} : Control(r, control)
             \/ FailPane(r) \/ ClosePane(r)
      PROVE  Executors' /\ LaunchesCounted'
  <2>1. UNCHANGED <<proc, lease, queue, roster, launches>>
    BY <1>1 DEF AskLaunch, AskStatus, Control, FailPane, ClosePane, LooksOnly,
       hostVars, RunVars, ProcessVars
  <2>2. QED BY <2>1, ElsewhereKeeps
<1>2. ASSUME NEW r \in Parents, ParentStep(r)
      PROVE  Executors' /\ LaunchesCounted'
  <2>1. CASE EnsureRunning(r)
    <3>1. CASE LooksOnly
      <4>1. UNCHANGED <<proc, lease, queue, roster, launches>>
        BY <3>1 DEF LooksOnly, hostVars, RunVars, ProcessVars
      <4>2. QED BY <4>1, ElsewhereKeeps
    <3>2. CASE ~LooksOnly
      <4>1. PICK p \in Spawnable : Spawn(p)
        BY <2>1, <3>2 DEF EnsureRunning
      <4>2. p \in Processes
        BY DEF Spawnable, Fresh
      <4>3. UNCHANGED <<queue, roster, launches>>
        BY <2>1, <3>2 DEF EnsureRunning, RunVars, ProcessVars
      <4>4. QED BY <4>1, <4>2, <4>3, HostStepKeeps
    <3>3. QED BY <3>1, <3>2
  <2>2. CASE AwaitStart(r) \/ Initialize(r) \/ Bind(r) \/ Record(r)
               \/ ListPanes(r) \/ SplitPane(r) \/ CheckPane(r)
               \/ InspectController(r) \/ Accepted(r) \/ LoseConnection(r)
    <3>1. UNCHANGED <<proc, lease, queue, roster, launches>>
      BY <2>2 DEF AwaitStart, Initialize, Bind, Record, ListPanes, SplitPane,
         CheckPane, InspectController, Accepted, LoseConnection, LooksOnly,
         hostVars, RunVars, ProcessVars
    <3>2. QED BY <3>1, ElsewhereKeeps
  <2>3. CASE RestorePanes(r) \/ ResumeInitial(r) \/ Execute(r)
    BY <2>3, AskKeeps
  <2>4. CASE TimeOut(r)
    BY <1>0a, <2>4
  <2>5. QED BY <1>2, <2>1, <2>2, <2>3, <2>4 DEF ParentStep
<1>4. ASSUME NEW p \in Processes,
             \/ StartStep(p) \/ RenewStep(p) \/ StopStep(p)
             \/ StopController(p) \/ CrashController(p)
      PROVE  Executors' /\ LaunchesCounted'
  <2>1. UNCHANGED <<roster, launches>>
    BY <1>4 DEF StartStep, RenewStep, StopStep, StopController,
       CrashController, RunVars
  <2>2. \/ /\ \/ Starts(p) \/ Renew(p) \/ Stop(p) \/ FailRenewal(p)
              \/ RemoveDescriptor(p)
           /\ UNCHANGED queue
        \/ /\ EndStop(p) \/ Crash(p)
           /\ Forget(p)
    BY <1>4 DEF StartStep, RenewStep, StopStep, StopController,
       CrashController, ProcessVars
  <2>3. QED BY <2>1, <2>2, HostStepKeeps
<1>5. ASSUME NEW p \in Processes, Work(p)
      PROVE  Executors' /\ LaunchesCounted'
  BY <1>5, WorkKeeps DEF Work
<1>6. CASE LapseStep \/ CorruptDisk \/ UNCHANGED vars
  <2>1. UNCHANGED <<proc, queue, roster, launches>>
    BY <1>6 DEF LapseStep, Lapse, CorruptDisk, ChangeIntegrity, vars,
       hostVars, sessionVars, RunVars, ProcessVars
  <2>2. lease' = lease \/ lease' = [lease EXCEPT !.live = FALSE]
    BY <1>6 DEF LapseStep, Lapse, CorruptDisk, ChangeIntegrity, vars, hostVars
  <2>3. lease'.owner = lease.owner
    BY <1>0, <2>2 DEF TypeOK, HostTypeOK, Lease
  <2>4. QED BY <2>1, <2>3, ElsewhereKeeps
<1>7. QED BY <1>0a, <1>1, <1>2, <1>4, <1>5, <1>6 DEF Next

-----------------------------------------------------------------------------
(* The invariant holds of every session: types, the executors' queues and  *)
(* the count of launches.                                                  *)
THEOREM SessionInvariance == Spec => []SessionInv
<1>1. Init => SessionInv
  BY InitTyped, ExecutorsStart DEF SessionInv
<1>2. SessionInv /\ [Next]_vars => SessionInv'
  BY TypeStep, ExecutorStep DEF SessionInv
<1>3. QED BY <1>1, <1>2, PTL DEF Spec

(* The state of the sessions has its types.                                *)
THEOREM SessionTypeCorrect == Spec => []TypeOK
<1>1. SessionInv => TypeOK
  BY DEF SessionInv
<1>2. QED BY <1>1, SessionInvariance, PTL

(* Whatever parents ask, and whatever they interrupt, the directory of the *)
(* run and its processes behave as ControllerHost says: every step of a    *)
(* session is one of its steps or leaves the directory alone.              *)
THEOREM SessionUsesHost == Spec => HostSpec
<1>1. Init => HostInit
  BY DEF Init
<1>2. SessionInv /\ [Next]_vars => [HostNext]_hostVars
  BY HostOfSession DEF SessionInv
<1>3. QED BY <1>1, <1>2, SessionInvariance, PTL DEF Spec, HostSpec

(* As long as no start has gone on without its lease, no parent's restart  *)
(* of the controller takes the socket or the descriptor from one that      *)
(* serves.                                                                 *)
THEOREM SessionReachable == Spec => []RunningIsReachable
  BY SessionUsesHost, HostReachable, PTL

(* Whatever parents ask, where a database was set aside the marker is that *)
(* refuses their later requests.                                           *)
THEOREM SessionQuarantineHolds == Spec => []QuarantineHolds
  BY SessionUsesHost, HostQuarantineHolds, PTL

(* The team of a run that has none is launched by one tick only.           *)
THEOREM LaunchedOnce == Spec => []FirstLaunchOnce
<1>1. SessionInv => FirstLaunchOnce
  BY DEF SessionInv, LaunchesCounted, FirstLaunchOnce
<1>2. QED BY <1>1, SessionInvariance, PTL
=============================================================================
