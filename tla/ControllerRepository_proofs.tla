--------------------- MODULE ControllerRepository_proofs ---------------------
(***************************************************************************)
(* Proofs about ControllerRepository for any number of controllers, keys,  *)
(* requests, any lease duration and any bound on the clock.                *)
(***************************************************************************)
EXTENDS ControllerRepository, TLAPS

\* The revision number counts the committed commands.
RevisionCounts == revision = Len(ledger)

\* A key has a processed_commands row exactly when the ledger holds it.
RecordsAgree == \A k \in Key : Recorded(k) <=> k \in Keys(ledger)

\* Every commit was computed from a snapshot older than itself.
BasesPast == \A i \in 1 .. Len(ledger) : ledger[i].base < i

\* Work in flight holds the aggregate of the revision it loaded.  While its
\* process has the newest token, it alone has committed since.
WorkSound ==
  \A o \in Owner : work[o].phase = "loaded" =>
    /\ process[o].state \in {"running", "stopping"}
    /\ work[o].base \in 1 .. Len(ledger)
    /\ work[o].view = Aggregate(ledger, work[o].base)
    /\ process[o].token = lease.token =>
         \A i \in work[o].base + 1 .. Len(ledger) :
           ledger[i].token = lease.token

\* No process has a token newer than the lease's.
TokensHeld == \A o \in Owner : process[o].token <= lease.token

\* No commit carries a token newer than the lease's, and those that carry
\* the lease's own are its holder's.
TokensIssued ==
  \A i \in 1 .. Len(ledger) :
    /\ ledger[i].token <= lease.token
    /\ ledger[i].token = lease.token /\ lease.owner # Null
         => ledger[i].owner = lease.owner

\* A process read its startup time in the past.
StartsInPast == \A o \in Owner : process[o].startedAt <= clock

RunInv == RevisionCounts /\ LostToTicksOnly /\ RecordsAgree /\ ExactlyOnce
            /\ FencedHistory /\ BasesPast

IInv == RunInv /\ WorkSound /\ TokensHeld /\ TokensIssued /\ StartsInPast

USE OwnerAssumption, NullAssumption, KeyAssumption, RequestAssumption, TtlAssumption

-----------------------------------------------------------------------------
(* Appending an entry to a log adds its key to the log's keys. *)
LEMMA KeysOfAppend ==
  ASSUME NEW S, NEW log \in Seq(S), NEW e
  PROVE  Keys(Append(log, e)) = Keys(log) \cup {e.key}
<1> DEFINE new == Append(log, e)
<1>1. Len(new) = Len(log) + 1 /\ new[Len(log) + 1] = e
        /\ Len(log) \in Nat
  OBVIOUS
<1>2. \A i \in 1 .. Len(log) : new[i] = log[i]
  OBVIOUS
<1>3. 1 .. Len(new) = (1 .. Len(log)) \cup {Len(log) + 1}
  BY <1>1
<1> HIDE DEF new
<1>4. {new[i].key : i \in 1 .. Len(new)}
        = {log[i].key : i \in 1 .. Len(log)} \cup {e.key}
  BY <1>1, <1>2, <1>3
<1>5. QED BY <1>4 DEF Keys, new

(* The initial state satisfies the type invariant. *)
LEMMA InitTypeOK == Init => TypeOK
<1> SUFFICES ASSUME Init PROVE TypeOK
  OBVIOUS
<1>1. lease \in LeaseRow
  BY DEF Init, LeaseRow
<1>2. process \in [Owner -> Runtime]
  BY DEF Init, Runtime, ProcessState
<1>3. work \in [Owner -> Work]
  BY DEF Init, Work, NoWork, WorkPhase
<1>4. QED BY <1>1, <1>2, <1>3 DEF Init, TypeOK

(* No work in flight is a legal value of work in flight. *)
LEMMA NoWorkType == NoWork \in Work
BY DEF NoWork, Work, WorkPhase

(* What the next tick of a drain starts from is legal work in flight. *)
LEMMA NextTickType == ASSUME TypeOK, NEW o \in Owner PROVE NextTick(o) \in Work
<1>1. work[o].now \in Nat
  BY DEF TypeOK, Work
<1>2. QED BY <1>1 DEF NextTick, NoWork, Work, WorkPhase

(* Nor does a process that is gone leave anything else. *)
LEMMA GoneType == Gone \in Runtime
BY DEF Gone, Runtime, ProcessState

(* Committing a revision keeps the types of the run's variables. *)
LEMMA PersistTypeOK ==
  ASSUME TypeOK, NEW o \in Owner, NEW k \in Key, NEW r \in Request,
         NEW base \in Nat, NEW view \in SUBSET Key,
         Persist(o, k, r, base, view)
  PROVE  /\ revision' \in Nat
         /\ applied' \in SUBSET Key
         /\ commands' \in [Key -> Request \cup {NoRequest}]
         /\ ledger' \in Seq(Entry)
<1>1. process[o].token \in Nat
  BY DEF TypeOK, Runtime
<1>2. [key |-> k, request |-> r, base |-> base, view |-> view, owner |-> o,
       token |-> process[o].token] \in Entry
  BY <1>1 DEF Entry
<1>3. QED BY <1>2 DEF TypeOK, Persist

(* A step on the lease keeps the types. *)
LEMMA LeaseTypeOK ==
  ASSUME TypeOK, NEW o \in Owner, LeaseStep(o)
  PROVE  TypeOK'
<1>1. process[o] \in Runtime /\ lease \in LeaseRow /\ clock \in Nat
        /\ process \in [Owner -> Runtime]
  BY DEF TypeOK
<1>2. CASE Start(o)
  <2>1. process' \in [Owner -> Runtime]
    BY <1>1, <1>2 DEF Start, Runtime, ProcessState
  <2>2. QED BY <1>2, <2>1 DEF Start, TypeOK, runVars
<1>3. CASE AcquireLease(o)
  <2>1. TokenOnAcquire(o, process[o].startedAt) \in Nat
    BY <1>1 DEF TokenOnAcquire, LeaseRow
  <2>2. lease' \in LeaseRow
    BY <1>1, <1>3, <2>1 DEF AcquireLease, LeaseRow, Runtime
  <2>3. process' \in [Owner -> Runtime]
    BY <1>1, <1>3, <2>1 DEF AcquireLease, Runtime, ProcessState
  <2>4. QED BY <1>3, <2>2, <2>3 DEF AcquireLease, TypeOK, runVars
<1>4. CASE RefuseLease(o)
  <2>1. process' \in [Owner -> Runtime]
    BY <1>1, <1>4, GoneType DEF RefuseLease
  <2>2. QED BY <1>4, <2>1 DEF RefuseLease, TypeOK, runVars
<1>5. CASE Publish(o)
  <2>1. process' \in [Owner -> Runtime]
    BY <1>1, <1>5 DEF Publish, Runtime, ProcessState
  <2>2. QED BY <1>5, <2>1 DEF Publish, TypeOK, runVars
<1>6. CASE RenewLease(o)
  <2>1. lease' \in LeaseRow
    BY <1>1, <1>6 DEF RenewLease, LeaseRow
  <2>2. QED BY <1>6, <2>1 DEF RenewLease, TypeOK, runVars
<1>7. CASE FailRenewal(o)
  <2>1. process' \in [Owner -> Runtime]
    BY <1>1, <1>7 DEF FailRenewal, Runtime, ProcessState
  <2>2. QED BY <1>7, <2>1 DEF FailRenewal, TypeOK, runVars
<1>8. CASE BeginShutdown(o)
  <2>1. process' \in [Owner -> Runtime]
    BY <1>1, <1>8 DEF BeginShutdown, Runtime, ProcessState
  <2>2. QED BY <1>8, <2>1 DEF BeginShutdown, TypeOK, runVars
<1>9. CASE Stop(o)
  <2>1. process' \in [Owner -> Runtime]
    BY <1>1, <1>9, GoneType DEF Stop
  <2>2. lease' \in LeaseRow
    BY <1>1, <1>9 DEF Stop, ReleasedLease, LeaseRow
  <2>3. work' \in [Owner -> Work]
    BY <1>9, NoWorkType DEF Stop, TypeOK
  <2>4. QED BY <1>9, <2>1, <2>2, <2>3 DEF Stop, TypeOK, runVars
<1>10. CASE Crash(o)
  <2>1. process' \in [Owner -> Runtime]
    BY <1>1, <1>10, GoneType DEF Crash
  <2>2. work' \in [Owner -> Work]
    BY <1>10, NoWorkType DEF Crash, TypeOK
  <2>3. QED BY <1>10, <2>1, <2>2 DEF Crash, TypeOK, runVars
<1>11. QED BY <1>2, <1>3, <1>4, <1>5, <1>6, <1>7, <1>8, <1>9, <1>10
           DEF LeaseStep

(* A step of asynchronous work keeps the types. *)
LEMMA WorkTypeOK ==
  ASSUME TypeOK, NEW o \in Owner, WorkStep(o)
  PROVE  TypeOK'
<1> USE DEF runVars, leaseVars
<1>1. CASE CaptureWrite(o)
  <2>1. work' \in [Owner -> Work]
    <3>1. work \in [Owner -> Work] /\ clock \in Nat
      BY DEF TypeOK
    <3> DEFINE captured == [work[o] EXCEPT !.phase = "authorized",
                                           !.now = clock]
    <3>2. captured \in Work
      BY <3>1 DEF Work, WorkPhase
    <3>3. work' = [work EXCEPT ![o] = captured]
      BY <1>1 DEF CaptureWrite
    <3> HIDE DEF captured
    <3>4. QED BY <3>1, <3>2, <3>3
  <2>2. QED BY <1>1, <2>1 DEF CaptureWrite, TypeOK
<1>2. CASE CommitWork(o)
  <2>1. /\ work[o].key \in Key
        /\ work[o].request \in Request \cup {NoRequest}
        /\ work[o].base \in Nat
        /\ work[o].view \in SUBSET Key
    BY DEF TypeOK, Work
  <2>2. /\ Persist(o, work[o].key, work[o].request, work[o].base, work[o].view)
        /\ ~Replays(work[o].key, work[o].request)
        /\ ~Conflicts(work[o].key, work[o].request)
        /\ work' = [work EXCEPT ![o] = NextTick(o)]
        /\ UNCHANGED <<clock, lease, process>>
    BY <1>2 DEF CommitWork, CommitSnapshot
  <2>3. work[o].request \in Request
    BY <2>1, <2>2 DEF Replays, Conflicts, Recorded
  <2>4. work' \in [Owner -> Work]
    BY <2>2, NextTickType DEF TypeOK
  <2>5. QED BY <2>1, <2>2, <2>3, <2>4, PersistTypeOK DEF TypeOK
<1>3. CASE ReplayWork(o)
  BY <1>3, NextTickType DEF ReplayWork, TypeOK
<1>4. CASE FailWork(o)
  BY <1>4, NoWorkType DEF FailWork, TypeOK
<1>5. CASE SettleWork(o)
  BY <1>5, NoWorkType DEF SettleWork, TypeOK
<1>6. ASSUME NEW k \in Key, NEW r \in Request, LoadSnapshot(o, k, r)
      PROVE  TypeOK'
  <2>1. work' \in [Owner -> Work]
    <3>1. work \in [Owner -> Work] /\ revision \in Nat
            /\ applied \in SUBSET Key
      BY DEF TypeOK
    <3> DEFINE read == [work[o] EXCEPT !.phase = "loaded", !.key = k,
                                       !.request = r, !.base = revision,
                                       !.view = applied]
    <3>2. read \in Work
      BY <3>1 DEF Work, WorkPhase
    <3>3. work' = [work EXCEPT ![o] = read]
      BY <1>6 DEF LoadSnapshot
    <3> HIDE DEF read
    <3>4. QED BY <3>1, <3>2, <3>3
  <2>2. QED BY <1>6, <2>1 DEF LoadSnapshot, TypeOK
<1>7. ASSUME NEW k \in TickKey, RetryTick(o, k)
      PROVE  TypeOK'
  <2>1. PICK kept \in SUBSET applied :
          Persist(o, k, TickRequest, work[o].base, work[o].view \cup kept)
    BY <1>7 DEF RetryTick
  <2>2. /\ work' = [work EXCEPT ![o] = NextTick(o)]
        /\ UNCHANGED <<clock, lease, process>>
    BY <1>7 DEF RetryTick
  <2>3. /\ work[o].base \in Nat
        /\ work[o].view \in SUBSET Key
        /\ applied \in SUBSET Key
    BY DEF TypeOK, Work
  <2>4. work' \in [Owner -> Work]
    BY <2>2, NextTickType DEF TypeOK
  <2>5. QED BY <2>1, <2>2, <2>3, <2>4, PersistTypeOK DEF TypeOK
<1>8. CASE SkipRetry(o)
  BY <1>8, NextTickType DEF SkipRetry, TypeOK
<1>9. QED BY <1>1, <1>2, <1>3, <1>4, <1>5, <1>6, <1>7, <1>8 DEF WorkStep

(* A synchronous command keeps the types. *)
LEMMA CommandTypeOK ==
  ASSUME TypeOK, NEW o \in Owner, CommandStep(o)
  PROVE  TypeOK'
<1>1. ASSUME NEW r \in Request, InitializeRun(o, r)
      PROVE  TypeOK'
  <2>1. Persist(o, InitKey, r, 0, {}) /\ UNCHANGED <<leaseVars, work>>
    BY <1>1 DEF InitializeRun
  <2>2. QED BY <2>1, PersistTypeOK DEF TypeOK, leaseVars
<1>2. ASSUME NEW k \in Key, NEW r \in Request, ParentCommand(o, k, r)
      PROVE  TypeOK'
  <2>1. Persist(o, k, r, revision, applied) /\ applied \in SUBSET Key
          /\ revision \in Nat
    BY <1>2 DEF ParentCommand, CommitSnapshot, TypeOK
  <2>2. QED BY <1>2, <2>1, PersistTypeOK DEF ParentCommand, TypeOK, leaseVars
<1>3. QED BY <1>1, <1>2 DEF CommandStep

(* Every step of the specification keeps the types. *)
LEMMA NextTypeOK == TypeOK /\ [Next]_vars => TypeOK'
<1> SUFFICES ASSUME TypeOK, [Next]_vars PROVE TypeOK'
  OBVIOUS
<1>1. CASE Tick BY <1>1 DEF Tick, TypeOK, runVars
<1>2. ASSUME NEW o \in Owner, LeaseStep(o) \/ WorkStep(o) \/ CommandStep(o)
      PROVE  TypeOK'
  BY <1>2, LeaseTypeOK, WorkTypeOK, CommandTypeOK
<1>3. CASE UNCHANGED vars BY <1>3 DEF vars, TypeOK
<1>4. QED BY <1>1, <1>2, <1>3 DEF Next

(* The variables keep their types in every run of any number of            *)
(* controllers: the lease row, the runtimes, work in flight and the run.   *)
THEOREM TypeCorrect == Spec => []TypeOK
<1>1. QED BY InitTypeOK, NextTypeOK, PTL DEF Spec

-----------------------------------------------------------------------------
(* A step that leaves the run alone keeps what is known about the run. *)
LEMMA RunKept ==
  ASSUME IInv, UNCHANGED runVars
  PROVE  RunInv'
<1>1. /\ revision' = revision /\ applied' = applied
      /\ commands' = commands /\ ledger' = ledger
  BY DEF runVars
<1>2. LostToTicksOnly'
  <2>1. /\ applied = Aggregate(ledger, Len(ledger))
        /\ \A n \in 1 .. Len(ledger) :
             /\ Aggregate(ledger, ledger[n].base) \subseteq ledger[n].view
             /\ \/ ledger[n].view = Aggregate(ledger, n - 1)
                \/ /\ ledger[n].key \in TickKey
                   /\ \A i \in ledger[n].base + 1 .. n - 1 :
                        ledger[i].token = ledger[n].token
    BY DEF IInv, RunInv, LostToTicksOnly
  <2>2. QED BY <1>1, <2>1 DEF LostToTicksOnly
<1>3. RevisionCounts' /\ RecordsAgree' /\ ExactlyOnce' /\ FencedHistory'
        /\ BasesPast'
  BY <1>1 DEF IInv, RunInv, RevisionCounts, RecordsAgree, Recorded, Keys,
     ExactlyOnce, FencedHistory, BasesPast
<1>4. QED BY <1>2, <1>3 DEF RunInv

(* And one that leaves work in flight, leases and processes alone too keeps *)
(* what is known about that work.                                          *)
LEMMA WorkKept ==
  ASSUME IInv, UNCHANGED <<ledger, lease, process, work>>
  PROVE  WorkSound' /\ TokensIssued' /\ TokensHeld'
<1>1. WorkSound'
  <2>1. ASSUME NEW p \in Owner, work[p].phase = "loaded"
        PROVE  /\ process[p].state \in {"running", "stopping"}
               /\ work[p].base \in 1 .. Len(ledger)
               /\ work[p].view = Aggregate(ledger, work[p].base)
               /\ process[p].token = lease.token =>
                    \A i \in work[p].base + 1 .. Len(ledger) :
                      ledger[i].token = lease.token
    BY <2>1 DEF IInv, WorkSound
  <2>2. QED BY <2>1 DEF WorkSound
<1>2. QED BY <1>1 DEF IInv, TokensIssued, TokensHeld

(* A lease step keeps the fencing facts: a token newly issued exceeds every *)
(* committed one, and one that stays stays with its owner.                  *)
LEMMA LeaseKeepsInv ==
  ASSUME TypeOK, IInv, NEW o \in Owner, LeaseStep(o)
  PROVE  IInv'
<1>1. /\ UNCHANGED runVars
      /\ clock' = clock
      /\ \A p \in Owner : work'[p] = work[p] \/ work'[p].phase # "loaded"
  <2> USE DEF runVars
  <2> DEFINE cleared == [work EXCEPT ![o] = NoWork]
  <2>1. \A p \in Owner : cleared[p] = work[p] \/ cleared[p].phase # "loaded"
    <3>1. work \in [Owner -> Work]
      BY DEF TypeOK
    <3>2. NoWork.phase # "loaded"
      BY DEF NoWork
    <3>3. QED BY <3>1, <3>2
  <2>2. CASE Start(o) BY <2>2 DEF Start
  <2>3. CASE AcquireLease(o) BY <2>3 DEF AcquireLease
  <2>4. CASE RefuseLease(o) BY <2>4 DEF RefuseLease
  <2>5. CASE Publish(o) BY <2>5 DEF Publish
  <2>6. CASE RenewLease(o) BY <2>6 DEF RenewLease
  <2>7. CASE FailRenewal(o) BY <2>7 DEF FailRenewal
  <2>8. CASE BeginShutdown(o) BY <2>8 DEF BeginShutdown
  <2>9. CASE Stop(o) BY <2>1, <2>9 DEF Stop
  <2>10. CASE Crash(o) BY <2>1, <2>10 DEF Crash
  <2>11. QED BY <2>2, <2>3, <2>4, <2>5, <2>6, <2>7, <2>8, <2>9, <2>10
             DEF LeaseStep
<1>2. RunInv'
  BY <1>1, RunKept
<1>3. /\ process \in [Owner -> Runtime] /\ lease \in LeaseRow
      /\ \A p \in Owner : p # o => process'[p] = process[p]
      /\ \A p \in Owner : process[p].token \in Nat
      /\ lease.token \in Nat
  <2>1. process \in [Owner -> Runtime] /\ lease \in LeaseRow
    BY DEF TypeOK
  <2>2. \A p \in Owner : process[p] \in Runtime
    BY <2>1
  <2>3. \A p \in Owner : p # o => process'[p] = process[p]
    BY <2>1 DEF LeaseStep, Start, AcquireLease, RefuseLease, Publish,
       RenewLease, FailRenewal, BeginShutdown, Stop, Crash
  <2>4. QED BY <2>1, <2>2, <2>3 DEF Runtime, LeaseRow
<1>4. TokensIssued'
  <2>1. lease.token \in Nat /\ lease \in LeaseRow
          /\ \A i \in 1 .. Len(ledger) : ledger[i].token \in Nat
    <3>1. lease \in LeaseRow /\ ledger \in Seq(Entry)
      BY DEF TypeOK
    <3>2. \A i \in 1 .. Len(ledger) : ledger[i] \in Entry
      BY <3>1
    <3>3. QED BY <3>1, <3>2 DEF LeaseRow, Entry
  <2>2. CASE \/ lease'.token = lease.token + 1
             \/ /\ lease'.token = lease.token
                /\ lease'.owner \in {lease.owner, Null}
    BY <1>1, <2>1, <2>2 DEF IInv, TokensIssued, runVars
  <2>3. CASE AcquireLease(o)
    <3>1. \/ lease'.token = lease.token + 1
          \/ lease'.token = lease.token /\ lease'.owner = lease.owner
      BY <2>3 DEF AcquireLease, TokenOnAcquire
    <3>2. QED BY <2>2, <3>1
  <2>4. CASE RenewLease(o)
    <3>1. lease'.token = lease.token /\ lease'.owner = lease.owner
      BY <2>1, <2>4 DEF RenewLease, LeaseRow
    <3>2. QED BY <2>2, <3>1
  <2>5. CASE Stop(o)
    <3>1. lease'.token = lease.token /\ lease'.owner \in {lease.owner, Null}
      BY <2>1, <2>5 DEF Stop, ReleasedLease, LeaseRow
    <3>2. QED BY <2>2, <3>1
  <2>6. CASE lease' = lease
    BY <2>2, <2>6
  <2>7. QED BY <2>3, <2>4, <2>5, <2>6 DEF LeaseStep, Start, RefuseLease,
               Publish, FailRenewal, BeginShutdown, Crash
<1>5. StartsInPast'
  <2>1. process \in [Owner -> Runtime] /\ clock \in Nat
    BY DEF TypeOK
  <2>2. CASE Start(o)
    BY <1>1, <2>1, <2>2 DEF Start, IInv, StartsInPast, Runtime
  <2>3. CASE \A p \in Owner : process'[p].startedAt = process[p].startedAt
    BY <1>1, <2>3 DEF IInv, StartsInPast
  <2>4. CASE AcquireLease(o)
    BY <2>1, <2>3, <2>4 DEF AcquireLease, Runtime
  <2>5. CASE process' = [process EXCEPT ![o] = Gone]
    BY <1>1, <2>1, <2>5 DEF Gone, IInv, StartsInPast
  <2>6. CASE Publish(o)
    BY <2>1, <2>3, <2>6 DEF Publish, Runtime
  <2>7. CASE RenewLease(o)
    BY <2>3, <2>7 DEF RenewLease
  <2>8. CASE FailRenewal(o)
    BY <2>1, <2>3, <2>8 DEF FailRenewal, Runtime
  <2>9. CASE BeginShutdown(o)
    BY <2>1, <2>3, <2>9 DEF BeginShutdown, Runtime
  <2>10. QED BY <2>2, <2>4, <2>5, <2>6, <2>7, <2>8, <2>9
             DEF LeaseStep, RefuseLease, Stop, Crash
<1>6. /\ lease'.token \in {lease.token, lease.token + 1}
      /\ process'[o].token \in {process[o].token, lease'.token, 0}
  <2>1. CASE AcquireLease(o)
    BY <1>3, <2>1 DEF AcquireLease, TokenOnAcquire, Runtime
  <2>2. CASE lease' = lease
              /\ process'[o].token \in {process[o].token, 0}
    BY <2>2
  <2>3. CASE Stop(o)
    BY <1>3, <2>3 DEF Stop, ReleasedLease, LeaseRow, Gone
  <2>4. CASE RenewLease(o)
    BY <1>3, <2>4 DEF RenewLease, LeaseRow
  <2>5. CASE Start(o)
    BY <1>3, <2>2, <2>5 DEF Start, Runtime
  <2>6. CASE Publish(o)
    BY <1>3, <2>2, <2>6 DEF Publish, Runtime
  <2>7. CASE FailRenewal(o)
    BY <1>3, <2>2, <2>7 DEF FailRenewal, Runtime
  <2>8. CASE BeginShutdown(o)
    BY <1>3, <2>2, <2>8 DEF BeginShutdown, Runtime
  <2>9. CASE RefuseLease(o) \/ Crash(o)
    BY <1>3, <2>2, <2>9 DEF RefuseLease, Crash, Gone
  <2>10. QED BY <2>1, <2>3, <2>4, <2>5, <2>6, <2>7, <2>8, <2>9 DEF LeaseStep
<1>7. TokensHeld'
  <2>1. ASSUME NEW p \in Owner PROVE process'[p].token <= lease'.token
    <3>1. process[p].token <= lease.token
      BY DEF IInv, TokensHeld
    <3>2. QED BY <1>3, <1>6, <3>1
  <2>2. QED BY <2>1 DEF TokensHeld
<1>8. ASSUME NEW p \in Owner, work'[p].phase = "loaded"
      PROVE  /\ work'[p] = work[p]
             /\ process'[p].state \in {"running", "stopping"}
             /\ process'[p].token = process[p].token
  <2>1. work'[p] = work[p]
    BY <1>1, <1>8
  <2>2. process[p].state \in {"running", "stopping"}
    BY <1>8, <2>1 DEF IInv, WorkSound
  <2>3. CASE p # o
    BY <1>3, <2>1, <2>2, <2>3
  <2>4. CASE p = o
    <3>1. CASE FailRenewal(o)
      BY <1>3, <2>1, <2>4, <3>1 DEF FailRenewal, Runtime
    <3>2. CASE BeginShutdown(o)
      BY <1>3, <2>1, <2>4, <3>2 DEF BeginShutdown, Runtime
    <3>3. CASE RenewLease(o)
      BY <2>1, <2>2, <2>4, <3>3 DEF RenewLease
    <3>4. CASE Stop(o) \/ Crash(o)
      <4>1. work' = [work EXCEPT ![o] = NoWork] /\ work \in [Owner -> Work]
        BY <3>4 DEF Stop, Crash, TypeOK
      <4>2. work'[p].phase = "none"
        BY <2>4, <4>1 DEF NoWork
      <4>3. QED BY <1>8, <4>2
    <3>5. QED BY <2>2, <2>4, <3>1, <3>2, <3>3, <3>4
              DEF LeaseStep, Start, AcquireLease, RefuseLease, Publish
  <2>5. QED BY <2>3, <2>4
<1>9. WorkSound'
  <2> SUFFICES ASSUME NEW p \in Owner, work'[p].phase = "loaded"
      PROVE  /\ process'[p].state \in {"running", "stopping"}
             /\ work'[p].base \in 1 .. Len(ledger')
             /\ work'[p].view = Aggregate(ledger', work'[p].base)
             /\ process'[p].token = lease'.token =>
                  \A i \in work'[p].base + 1 .. Len(ledger') :
                    ledger'[i].token = lease'.token
    BY DEF WorkSound
  <2>1. /\ work[p].phase = "loaded"
        /\ process[p].token <= lease.token
        /\ ledger' = ledger
    BY <1>1, <1>8 DEF IInv, TokensHeld, runVars
  <2>2. /\ work[p].base \in 1 .. Len(ledger)
        /\ work[p].view = Aggregate(ledger, work[p].base)
        /\ process[p].token = lease.token =>
             \A i \in work[p].base + 1 .. Len(ledger) :
               ledger[i].token = lease.token
    BY <2>1 DEF IInv, WorkSound
  <2>3. process'[p].token = lease'.token => lease'.token = lease.token
    BY <1>3, <1>6, <1>8, <2>1
  <2>4. QED BY <1>8, <2>1, <2>2, <2>3
<1>10. QED BY <1>2, <1>4, <1>5, <1>7, <1>9 DEF IInv

\* What a commit of the model is computed from: the aggregate as it is, or
\* it is a tick's, of a revision since which only the newest token committed.
SoundWrite(k, base, view) ==
  \/ base = revision /\ view = applied
  \/ /\ k \in TickKey /\ base \in 1 .. revision
     /\ \A i \in base + 1 .. Len(ledger) : ledger[i].token = lease.token
     /\ \E kept \in SUBSET applied : view = Aggregate(ledger, base) \cup kept

(* A sound write by the holder of the lease, of a command not recorded yet, *)
(* keeps the invariant.                                                     *)
LEMMA PersistKeepsInv ==
  ASSUME TypeOK, IInv, NEW o \in Owner, NEW k \in Key, NEW r \in Request,
         NEW base \in Nat, NEW view \in SUBSET Key,
         Persist(o, k, r, base, view), ~Recorded(k),
         SoundWrite(k, base, view),
         lease.owner = o, lease.token = process[o].token,
         UNCHANGED leaseVars,
         \A p \in Owner : work'[p] = work[p] \/ work'[p].phase # "loaded"
  PROVE  IInv'
<1> DEFINE e == [key |-> k, request |-> r, base |-> base, view |-> view,
                 owner |-> o, token |-> process[o].token]
<1>1. /\ Len(ledger) \in Nat
      /\ ledger' = Append(ledger, e)
      /\ Len(ledger') = Len(ledger) + 1
      /\ ledger'[Len(ledger) + 1] = e
      /\ \A i \in 1 .. Len(ledger) : ledger'[i] = ledger[i]
  BY DEF Persist, TypeOK
<1>2. Keys(ledger') = Keys(ledger) \cup {k}
  BY <1>1, KeysOfAppend DEF TypeOK
<1>3. \A i \in 1 .. Len(ledger) : ledger[i] \in Entry
  BY <1>1 DEF TypeOK
<1>4. \A i \in 1 .. Len(ledger') :
        i \in 1 .. Len(ledger) \/ i = Len(ledger) + 1
  BY <1>1
<1>5. /\ \A n \in 0 .. Len(ledger) : Aggregate(ledger', n) = Aggregate(ledger, n)
      /\ Aggregate(ledger', Len(ledger) + 1) = view \cup {k}
  <2>1. ASSUME NEW n \in 0 .. Len(ledger)
        PROVE  Aggregate(ledger', n) = Aggregate(ledger, n)
    <3>1. n = 0 \/ n \in 1 .. Len(ledger)
      BY <1>1
    <3>2. QED BY <1>1, <3>1 DEF Aggregate
  <2>2. Aggregate(ledger', Len(ledger) + 1) = view \cup {k}
    <3>1. Len(ledger) + 1 # 0 /\ e.view = view /\ e.key = k
      BY <1>1
    <3>2. QED BY <1>1, <3>1 DEF Aggregate
  <2>3. QED BY <2>1, <2>2
<1>14. revision = Len(ledger) /\ applied = Aggregate(ledger, Len(ledger))
         /\ base <= Len(ledger)
  BY <1>1 DEF IInv, RunInv, RevisionCounts, LostToTicksOnly, SoundWrite
<1>15. RevisionCounts' /\ BasesPast'
  <2>1. RevisionCounts'
    BY <1>1, <1>14 DEF Persist, RevisionCounts
  <2>2. ASSUME NEW i \in 1 .. Len(ledger') PROVE ledger'[i].base < i
    <3>1. CASE i \in 1 .. Len(ledger)
      BY <1>1, <3>1 DEF IInv, RunInv, BasesPast
    <3>2. CASE i = Len(ledger) + 1
      BY <1>1, <1>14, <3>2
    <3>3. QED BY <1>4, <3>1, <3>2
  <2>3. QED BY <2>1, <2>2 DEF BasesPast
<1>16. LostToTicksOnly'
  <2>1. applied' = Aggregate(ledger', Len(ledger'))
    BY <1>1, <1>5 DEF Persist
  <2>2. ASSUME NEW n \in 1 .. Len(ledger'), n \in 1 .. Len(ledger)
        PROVE  /\ Aggregate(ledger', ledger'[n].base) \subseteq ledger'[n].view
               /\ \/ ledger'[n].view = Aggregate(ledger', n - 1)
                  \/ /\ ledger'[n].key \in TickKey
                     /\ \A i \in ledger'[n].base + 1 .. n - 1 :
                          ledger'[i].token = ledger'[n].token
    <3>1. /\ ledger'[n] = ledger[n]
          /\ ledger[n].base \in Nat /\ ledger[n].base < n
          /\ n - 1 \in 0 .. Len(ledger)
      BY <1>1, <1>3, <2>2 DEF IInv, RunInv, BasesPast, Entry
    <3>2. ledger[n].base \in 0 .. Len(ledger)
      BY <1>1, <2>2, <3>1
    <3>3. \A i \in ledger[n].base + 1 .. n - 1 : ledger'[i] = ledger[i]
      BY <1>1, <2>2, <3>1
    <3>4. /\ Aggregate(ledger, ledger[n].base) \subseteq ledger[n].view
          /\ \/ ledger[n].view = Aggregate(ledger, n - 1)
             \/ /\ ledger[n].key \in TickKey
                /\ \A i \in ledger[n].base + 1 .. n - 1 :
                     ledger[i].token = ledger[n].token
      BY <2>2 DEF IInv, RunInv, LostToTicksOnly
    <3>5. QED BY <1>5, <3>1, <3>2, <3>3, <3>4
  <2>3. /\ Aggregate(ledger', base) \subseteq view
        /\ \/ view = Aggregate(ledger', Len(ledger))
           \/ /\ k \in TickKey
              /\ \A i \in base + 1 .. Len(ledger) :
                   ledger'[i].token = process[o].token
    <3>1. Aggregate(ledger', base) = Aggregate(ledger, base)
            /\ Aggregate(ledger', Len(ledger)) = applied
      BY <1>1, <1>5, <1>14
    <3>2. CASE base = revision /\ view = applied
      BY <1>14, <3>1, <3>2
    <3>3. CASE /\ k \in TickKey
               /\ \A i \in base + 1 .. Len(ledger) :
                    ledger[i].token = lease.token
               /\ \E kept \in SUBSET applied :
                    view = Aggregate(ledger, base) \cup kept
      <4>1. \A i \in base + 1 .. Len(ledger) : ledger'[i] = ledger[i]
        BY <1>1
      <4>2. QED BY <3>1, <3>3, <4>1
    <3>4. QED BY <3>2, <3>3 DEF SoundWrite
  <2>4. ASSUME NEW n \in 1 .. Len(ledger'), n = Len(ledger) + 1
        PROVE  /\ Aggregate(ledger', ledger'[n].base) \subseteq ledger'[n].view
               /\ \/ ledger'[n].view = Aggregate(ledger', n - 1)
                  \/ /\ ledger'[n].key \in TickKey
                     /\ \A i \in ledger'[n].base + 1 .. n - 1 :
                          ledger'[i].token = ledger'[n].token
    <3>1. n - 1 = Len(ledger) /\ ledger'[n] = e
      BY <1>1, <2>4
    <3>2. /\ e.base = base /\ e.view = view /\ e.key = k
          /\ e.token = process[o].token
      OBVIOUS
    <3>3. QED BY <2>3, <3>1, <3>2
  <2>5. QED BY <1>4, <2>1, <2>2, <2>4 DEF LostToTicksOnly
<1>6. RecordsAgree'
  <2>1. /\ commands \in [Key -> Request \cup {NoRequest}]
        /\ commands' = [commands EXCEPT ![k] = r]
        /\ r # NoRequest
    BY DEF Persist, TypeOK
  <2>2. \A q \in Key : commands[q] # NoRequest <=> q \in Keys(ledger)
    BY DEF IInv, RunInv, RecordsAgree, Recorded
  <2>3. \A q \in Key : commands'[q] # NoRequest <=> q \in Keys(ledger')
    BY <1>2, <2>1, <2>2
  <2>4. QED BY <2>3 DEF RecordsAgree, Recorded
<1>7. ExactlyOnce'
  <2>1. \A i \in 1 .. Len(ledger) : ledger[i].key # k
    BY DEF IInv, RunInv, RecordsAgree, Keys
  <2>2. commands' = [commands EXCEPT ![k] = r] /\ e.key = k /\ e.request = r
    BY DEF Persist
  <2>3. ASSUME NEW i \in 1 .. Len(ledger'), NEW j \in 1 .. Len(ledger'),
               ledger'[i].key = ledger'[j].key
        PROVE  i = j
    BY <1>1, <1>4, <2>1, <2>2, <2>3 DEF IInv, RunInv, ExactlyOnce
  <2>4. ASSUME NEW i \in 1 .. Len(ledger')
        PROVE  commands'[ledger'[i].key] = ledger'[i].request
    <3>1. CASE i = Len(ledger) + 1
      BY <1>1, <2>2, <3>1 DEF TypeOK
    <3>2. CASE i \in 1 .. Len(ledger)
      <4>1. ledger'[i] = ledger[i] /\ ledger[i] \in Entry
              /\ ledger[i].key # k
        BY <1>1, <1>3, <2>1, <3>2
      <4>2. commands[ledger[i].key] = ledger[i].request
        BY <3>2 DEF IInv, RunInv, ExactlyOnce
      <4>3. ledger[i].key \in Key
        BY <4>1 DEF Entry
      <4>4. QED BY <2>2, <4>1, <4>2, <4>3 DEF TypeOK
    <3>3. QED BY <1>4, <3>1, <3>2
  <2>5. QED BY <2>3, <2>4 DEF ExactlyOnce
<1>8. /\ e.token = lease.token
      /\ e.owner = lease.owner
      /\ lease.owner # Null
      /\ lease.token \in Nat
  BY DEF TypeOK, LeaseRow
<1>9. FencedHistory'
  <2> SUFFICES ASSUME NEW i \in 1 .. Len(ledger'), NEW j \in 1 .. Len(ledger'),
                      i < j
               PROVE  /\ ledger'[i].token <= ledger'[j].token
                      /\ ledger'[i].token = ledger'[j].token
                           => ledger'[i].owner = ledger'[j].owner
    BY DEF FencedHistory
  <2>1. i \in 1 .. Len(ledger)
    BY <1>1
  <2>2. CASE j \in 1 .. Len(ledger)
    BY <1>1, <2>1, <2>2 DEF IInv, RunInv, FencedHistory
  <2>3. CASE j = Len(ledger) + 1
    BY <1>1, <1>8, <2>1, <2>3 DEF IInv, TokensIssued
  <2>4. QED BY <1>4, <2>2, <2>3
<1>10. WorkSound'
  <2> SUFFICES ASSUME NEW p \in Owner, work'[p].phase = "loaded"
      PROVE  /\ process'[p].state \in {"running", "stopping"}
             /\ work'[p].base \in 1 .. Len(ledger')
             /\ work'[p].view = Aggregate(ledger', work'[p].base)
             /\ process'[p].token = lease'.token =>
                  \A i \in work'[p].base + 1 .. Len(ledger') :
                    ledger'[i].token = lease'.token
    BY DEF WorkSound
  <2>1. work'[p] = work[p] /\ process' = process /\ lease' = lease
    BY DEF leaseVars
  <2>2. /\ process[p].state \in {"running", "stopping"}
        /\ work[p].base \in 1 .. Len(ledger)
        /\ work[p].view = Aggregate(ledger, work[p].base)
        /\ process[p].token = lease.token =>
             \A i \in work[p].base + 1 .. Len(ledger) :
               ledger[i].token = lease.token
    BY <2>1 DEF IInv, WorkSound
  <2>3. work[p].base \in 1 .. Len(ledger')
          /\ Aggregate(ledger', work[p].base) = work[p].view
    BY <1>1, <1>5, <2>2
  <2>4. ASSUME process[p].token = lease.token,
               NEW i \in work[p].base + 1 .. Len(ledger')
        PROVE  ledger'[i].token = lease.token
    <3>1. i \in work[p].base + 1 .. Len(ledger) \/ i = Len(ledger) + 1
      BY <1>1, <2>2
    <3>2. CASE i = Len(ledger) + 1
      BY <1>1, <1>8, <3>2
    <3>3. CASE i \in work[p].base + 1 .. Len(ledger)
      BY <1>1, <2>2, <2>4, <3>3
    <3>4. QED BY <3>1, <3>2, <3>3
  <2>5. QED BY <2>1, <2>2, <2>3, <2>4
<1>11. TokensIssued'
  <2>1. lease' = lease
    BY DEF leaseVars
  <2>2. QED BY <1>1, <1>4, <1>8, <2>1 DEF IInv, TokensIssued
<1>12. StartsInPast' /\ TokensHeld'
  BY DEF IInv, StartsInPast, TokensHeld, leaseVars
<1>13. QED BY <1>6, <1>7, <1>9, <1>10, <1>11, <1>12, <1>15, <1>16
           DEF IInv, RunInv

\* Work that loads the snapshot in this step.
Loaded(p) == /\ work'[p].base = revision /\ work'[p].view = applied
             /\ revision > 0 /\ process[p].state \in {"running", "stopping"}

(* What every commit of the model establishes before it persists. *)
LEMMA CommitIsSound ==
  ASSUME TypeOK, IInv, NEW o \in Owner, WorkStep(o) \/ CommandStep(o)
  PROVE  \/ /\ UNCHANGED <<leaseVars, runVars>>
            /\ \A p \in Owner : \/ work'[p] = work[p]
                                \/ work'[p].phase # "loaded"
                                \/ Loaded(p)
         \/ /\ \E k \in Key, r \in Request, base \in Nat,
                  view \in SUBSET Key :
                 /\ Persist(o, k, r, base, view) /\ ~Recorded(k)
                 /\ SoundWrite(k, base, view)
            /\ lease.owner = o /\ lease.token = process[o].token
            /\ UNCHANGED leaseVars
            /\ \A p \in Owner : \/ work'[p] = work[p]
                                \/ work'[p].phase # "loaded"
<1> USE DEF leaseVars, runVars
<1>1. work \in [Owner -> Work]
  BY DEF TypeOK
<1>2. NoWork.phase # "loaded" /\ NextTick(o).phase # "loaded"
  BY DEF NoWork, NextTick
<1>3. CASE CaptureWrite(o)
  BY <1>1, <1>3 DEF CaptureWrite, Work
<1>4. CASE CommitWork(o)
  <2>1. /\ work[o].key \in Key
        /\ work[o].request \in Request \cup {NoRequest}
        /\ work[o].phase = "loaded"
    BY <1>4 DEF CommitWork, InFlight, TypeOK, Work
  <2>2. /\ revision = work[o].base
        /\ Fenced(o, process[o].token, work[o].now)
        /\ Persist(o, work[o].key, work[o].request, work[o].base,
                   work[o].view)
        /\ work' = [work EXCEPT ![o] = NextTick(o)]
        /\ UNCHANGED leaseVars
    BY <1>4 DEF CommitWork, CommitSnapshot
  <2>3. SoundWrite(work[o].key, work[o].base, work[o].view)
          /\ work[o].base \in Nat /\ work[o].view \in SUBSET Key
    BY <2>1, <2>2 DEF IInv, RunInv, WorkSound, LostToTicksOnly,
       RevisionCounts, SoundWrite, TypeOK, Work
  <2>4. ~Recorded(work[o].key) /\ work[o].request \in Request
    BY <1>4, <2>1
       DEF CommitWork, CommitSnapshot, Replays, Conflicts, Recorded
  <2>5. \A p \in Owner : work'[p] = work[p] \/ work'[p].phase # "loaded"
    BY <1>1, <1>2, <2>2
  <2>6. QED BY <2>1, <2>2, <2>3, <2>4, <2>5 DEF Fenced
<1>5. CASE ReplayWork(o)
  BY <1>1, <1>2, <1>5 DEF ReplayWork
<1>6. CASE FailWork(o)
  BY <1>1, <1>2, <1>6 DEF FailWork
<1>7. CASE SettleWork(o)
  BY <1>1, <1>2, <1>7 DEF SettleWork
<1>8. ASSUME NEW k \in Key, NEW r \in Request, LoadSnapshot(o, k, r)
      PROVE  /\ UNCHANGED <<leaseVars, runVars>>
             /\ \A p \in Owner : work'[p] = work[p] \/ Loaded(p)
  <2>1. work' = [work EXCEPT ![o] = [@ EXCEPT !.phase = "loaded", !.key = k,
                                             !.request = r, !.base = revision,
                                             !.view = applied]]
    BY <1>8 DEF LoadSnapshot
  <2>2. Loaded(o)
    BY <1>1, <1>8, <2>1 DEF Work, Loaded, LoadSnapshot
  <2>3. \A p \in Owner : p = o \/ work'[p] = work[p]
    BY <1>1, <2>1
  <2>4. QED BY <1>8, <2>2, <2>3 DEF LoadSnapshot
<1>9. ASSUME NEW r \in Request, InitializeRun(o, r)
      PROVE  /\ Persist(o, InitKey, r, 0, {}) /\ ~Recorded(InitKey)
             /\ SoundWrite(InitKey, 0, {})
             /\ lease.owner = o /\ lease.token = process[o].token
             /\ UNCHANGED <<leaseVars, work>>
  <2>1. revision = 0 /\ Persist(o, InitKey, r, 0, {}) /\ ~Recorded(InitKey)
          /\ Fenced(o, process[o].token, clock)
          /\ UNCHANGED <<leaseVars, work>>
    BY <1>9 DEF InitializeRun
  <2>2. Len(ledger) = 0
    BY <2>1 DEF IInv, RunInv, RevisionCounts
  <2>3. applied = {}
    BY <2>2 DEF IInv, RunInv, LostToTicksOnly, Aggregate
  <2>4. QED BY <2>1, <2>3 DEF Fenced, SoundWrite
<1>10. ASSUME NEW k \in Key, NEW r \in Request, ParentCommand(o, k, r)
       PROVE  /\ Persist(o, k, r, revision, applied) /\ ~Recorded(k)
              /\ SoundWrite(k, revision, applied)
              /\ revision \in Nat /\ applied \in SUBSET Key
              /\ lease.owner = o /\ lease.token = process[o].token
              /\ UNCHANGED <<leaseVars, work>>
  BY <1>10 DEF ParentCommand, CommitSnapshot, Fenced, Replays, Conflicts,
     Recorded, SoundWrite, TypeOK
<1>14. CASE SkipRetry(o)
  BY <1>1, <1>2, <1>14 DEF SkipRetry
<1>15. ASSUME NEW k \in TickKey, RetryTick(o, k)
       PROVE  /\ \E base \in Nat, view \in SUBSET Key :
                   /\ Persist(o, k, TickRequest, base, view) /\ ~Recorded(k)
                   /\ SoundWrite(k, base, view)
              /\ lease.owner = o /\ lease.token = process[o].token
              /\ UNCHANGED leaseVars
              /\ \A p \in Owner : \/ work'[p] = work[p]
                                  \/ work'[p].phase # "loaded"
  <2>1. PICK kept \in SUBSET applied :
          Persist(o, k, TickRequest, work[o].base, work[o].view \cup kept)
    BY <1>15 DEF RetryTick
  <2>2. /\ lease.owner = o /\ lease.token = process[o].token
        /\ work[o].phase = "loaded" /\ ~Recorded(k)
        /\ UNCHANGED leaseVars /\ work' = [work EXCEPT ![o] = NextTick(o)]
    BY <1>15 DEF RetryTick, Overtaken, InFlight, Fenced
  <2>3. /\ work[o].base \in 1 .. Len(ledger)
        /\ work[o].view = Aggregate(ledger, work[o].base)
        /\ \A i \in work[o].base + 1 .. Len(ledger) :
             ledger[i].token = lease.token
    BY <2>2 DEF IInv, WorkSound
  <2>4. SoundWrite(k, work[o].base, work[o].view \cup kept)
    BY <1>15, <2>1, <2>3 DEF SoundWrite, IInv, RunInv, RevisionCounts
  <2>5. work[o].base \in Nat /\ work[o].view \cup kept \in SUBSET Key
    BY DEF TypeOK, Work
  <2>6. \A p \in Owner : work'[p] = work[p] \/ work'[p].phase # "loaded"
    BY <1>1, <1>2, <2>2
  <2>7. QED BY <2>1, <2>2, <2>4, <2>5, <2>6
<1>11. CASE WorkStep(o)
  BY <1>3, <1>4, <1>5, <1>6, <1>7, <1>8, <1>11, <1>14, <1>15 DEF WorkStep
<1>12. CASE CommandStep(o)
  BY <1>9, <1>10, <1>12 DEF CommandStep
<1>13. QED BY <1>11, <1>12

(* Steps of work and commands keep the invariant. *)
LEMMA WorkKeepsInv ==
  ASSUME TypeOK, IInv, NEW o \in Owner, WorkStep(o) \/ CommandStep(o)
  PROVE  IInv'
<1>1. CASE /\ UNCHANGED <<leaseVars, runVars>>
           /\ \A p \in Owner : \/ work'[p] = work[p]
                               \/ work'[p].phase # "loaded"
                               \/ Loaded(p)
  <2>1. WorkSound'
    <3>1. /\ revision = Len(ledger) /\ Len(ledger) \in Nat
          /\ applied = Aggregate(ledger, Len(ledger))
      BY DEF IInv, RunInv, RevisionCounts, LostToTicksOnly, TypeOK
    <3>2. /\ ledger' = ledger /\ process' = process /\ lease' = lease
      BY <1>1 DEF runVars, leaseVars
    <3>3. ASSUME NEW p \in Owner, work'[p].phase = "loaded"
          PROVE  /\ process[p].state \in {"running", "stopping"}
                 /\ work'[p].base \in 1 .. Len(ledger)
                 /\ work'[p].view = Aggregate(ledger, work'[p].base)
                 /\ process[p].token = lease.token =>
                      \A i \in work'[p].base + 1 .. Len(ledger) :
                        ledger[i].token = lease.token
      <4>1. CASE work'[p] = work[p]
        BY <3>3, <4>1 DEF IInv, WorkSound
      <4>2. CASE Loaded(p)
        BY <3>1, <4>2 DEF Loaded
      <4>3. QED BY <1>1, <3>3, <4>1, <4>2
    <3>4. QED BY <3>2, <3>3 DEF WorkSound
  <2>2. RunInv' /\ TokensIssued' /\ StartsInPast' /\ TokensHeld'
    <3>1. TokensIssued' /\ StartsInPast' /\ TokensHeld'
      BY <1>1 DEF IInv, TokensIssued, TokensHeld, StartsInPast, runVars,
         leaseVars
    <3>2. QED BY <1>1, <3>1, RunKept
  <2>3. QED BY <2>1, <2>2 DEF IInv
<1>2. CASE /\ \E k \in Key, r \in Request, base \in Nat,
                 view \in SUBSET Key :
                /\ Persist(o, k, r, base, view) /\ ~Recorded(k)
                /\ SoundWrite(k, base, view)
           /\ lease.owner = o /\ lease.token = process[o].token
           /\ UNCHANGED leaseVars
           /\ \A p \in Owner : \/ work'[p] = work[p]
                               \/ work'[p].phase # "loaded"
  BY <1>2, PersistKeepsInv
<1>3. QED BY <1>1, <1>2, CommitIsSound

(* The invariant holds initially. *)
LEMMA InitInv == Init => IInv
<1> SUFFICES ASSUME Init PROVE IInv
  OBVIOUS
<1>1. Len(ledger) = 0 /\ Keys(ledger) = {}
  BY DEF Init, Keys
<1>2. QED BY <1>1
          DEF Init, IInv, RunInv, RevisionCounts, LostToTicksOnly, Aggregate,
          RecordsAgree, Recorded, ExactlyOnce, FencedHistory, BasesPast,
          WorkSound, TokensHeld, TokensIssued, StartsInPast, NoWork

(* Every step keeps the invariant. *)
LEMMA NextInv == TypeOK /\ IInv /\ [Next]_vars => IInv'
<1> SUFFICES ASSUME TypeOK, IInv, [Next]_vars PROVE IInv'
  OBVIOUS
<1>1. CASE Tick
  <2>1. clock' = clock + 1 /\ UNCHANGED <<lease, process, work, runVars>>
    BY <1>1 DEF Tick
  <2>2. StartsInPast'
    <3>1. \A o \in Owner : process[o].startedAt \in Nat
      BY DEF TypeOK, Runtime
    <3>2. clock \in Nat
      BY DEF TypeOK
    <3>3. QED BY <2>1, <3>1, <3>2 DEF IInv, StartsInPast
  <2>3. RunInv' /\ WorkSound' /\ TokensIssued' /\ TokensHeld'
    BY <2>1, RunKept, WorkKept DEF runVars
  <2>4. QED BY <2>2, <2>3 DEF IInv
<1>2. ASSUME NEW o \in Owner, LeaseStep(o) \/ WorkStep(o) \/ CommandStep(o)
      PROVE  IInv'
  BY <1>2, LeaseKeepsInv, WorkKeepsInv
<1>3. CASE UNCHANGED vars
  <2>1. UNCHANGED runVars /\ UNCHANGED <<ledger, lease, process, work>>
          /\ UNCHANGED clock
    BY <1>3 DEF vars, runVars
  <2>2. StartsInPast'
    BY <2>1 DEF IInv, StartsInPast
  <2>3. QED BY <2>1, <2>2, RunKept, WorkKept DEF IInv
<1>4. QED BY <1>1, <1>2, <1>3 DEF Next

(* The inductive invariant behind the theorems below: the revision counts   *)
(* the ledger, the recorded keys are its keys, work in flight holds the      *)
(* aggregate of the revision it loaded and is overtaken, while its process   *)
(* still has the newest token, by commits under that token alone, and no    *)
(* process and no commit has a token newer than the lease's.                *)
THEOREM Invariance == Spec => []IInv
<1>1. QED BY InitInv, NextInv, TypeCorrect, PTL DEF Spec

(* No controller's takeover and no command that was not a tick in flight    *)
(* loses an update: what the retry of a tick overwrites was committed under *)
(* its own token since it loaded, and nothing else is ever lost.            *)
THEOREM LossesBounded == Spec => []LostToTicksOnly
<1>1. IInv => LostToTicksOnly
  BY DEF IInv, RunInv
<1>2. QED BY <1>1, Invariance, PTL

(* An idempotency key commits at most one revision, and the record kept    *)
(* under it is that of the request committed.                              *)
THEOREM CommittedOnce == Spec => []ExactlyOnce
<1>1. IInv => ExactlyOnce
  BY DEF IInv, RunInv
<1>2. QED BY <1>1, Invariance, PTL

(* Fencing tokens order the commits of all controllers into reigns.        *)
THEOREM ReignsInOrder == Spec => []FencedHistory
<1>1. IInv => FencedHistory
  BY DEF IInv, RunInv
<1>2. QED BY <1>1, Invariance, PTL

-----------------------------------------------------------------------------
(* A lease in time ends only by the orderly stop of its own holder. *)
LEMMA StepPreemptsNobody ==
  ASSUME TypeOK, IInv, [Next]_vars, NEW o \in Owner,
         lease.owner = o, InTime(clock), lease'.owner # o
  PROVE  lease'.owner = Null /\ process[o].token = lease.token
           /\ process'[o].state = "stopped"
<1>1. lease \in LeaseRow /\ process \in [Owner -> Runtime] /\ clock \in Nat
  BY DEF TypeOK
<1>2. PICK p \in Owner : AcquireLease(p) \/ RenewLease(p) \/ Stop(p)
  <2>1. lease' # lease
    OBVIOUS
  <2>2. QED BY <2>1 DEF Next, Tick, LeaseStep, WorkStep, CommandStep, Start,
               RefuseLease, Publish, FailRenewal, BeginShutdown, Crash,
               CaptureWrite, CommitWork, ReplayWork, FailWork, SkipRetry,
               RetryTick, SettleWork, LoadSnapshot, InitializeRun, ParentCommand, leaseVars, vars
<1>3. CASE AcquireLease(p)
  <2>1. process[p].startedAt <= clock /\ process[p].startedAt \in Nat
    BY <1>1 DEF IInv, StartsInPast, Runtime
  <2>2. HeldAt(process[p].startedAt)
    BY <1>1, <2>1 DEF HeldAt, InTime, LeaseRow
  <2>3. lease.owner = p /\ lease'.owner = p
    BY <1>3, <2>2 DEF AcquireLease
  <2>4. QED BY <2>3
<1>4. CASE RenewLease(p)
  <2>1. lease'.owner = lease.owner
    BY <1>1, <1>4 DEF RenewLease, LeaseRow
  <2>2. QED BY <2>1
<1>5. CASE Stop(p)
  <2>1. /\ lease' # lease
        /\ lease' = IF process[p].release THEN ReleasedLease(p) ELSE lease
    BY <1>5 DEF Stop
  <2>2. /\ Fenced(p, process[p].token, clock)
        /\ lease' = [lease EXCEPT !.owner = Null, !.expiresAt = Null]
    BY <2>1 DEF ReleasedLease
  <2>3. p = o /\ process[o].token = lease.token
    BY <2>2 DEF Fenced
  <2>4. lease'.owner = Null
    BY <1>1, <2>2 DEF LeaseRow
  <2>5. process'[o].state = "stopped"
    BY <1>1, <1>5, <2>3 DEF Stop, Gone
  <2>6. QED BY <2>3, <2>4, <2>5
<1>6. QED BY <1>2, <1>3, <1>4, <1>5

(* No controller loses an unexpired lease to another one: a takeover waits *)
(* for the expiry, also when the start that takes over compares with a     *)
(* clock reading older than the lease.                                     *)
THEOREM LeaseIsSafe == Spec => NoPreemption
<1>1. TypeOK /\ IInv /\ [Next]_vars =>
        [\A o \in Owner :
           lease.owner = o /\ InTime(clock) /\ lease'.owner # o
             => lease'.owner = Null /\ process[o].token = lease.token
                /\ process'[o].state = "stopped"]_vars
  BY StepPreemptsNobody
<1>2. QED BY <1>1, TypeCorrect, Invariance, PTL DEF Spec, NoPreemption

-----------------------------------------------------------------------------
(* Every step of the repository is a step of the run's ledger or invisible. *)
LEMMA StepRefines ==
  ASSUME TypeOK, IInv, [Next]_vars
  PROVE  [Ledger!Next]_(Ledger!vars)
<1>1. lease \in LeaseRow
  BY DEF TypeOK
<1> USE DEF Ledger!Next, Ledger!vars
<1>2. CASE UNCHANGED <<ledger, lease>>
  BY <1>2
<1>3. ASSUME NEW o \in Owner, AcquireLease(o)
      PROVE  [Ledger!Next]_(Ledger!vars)
  <2>1. ledger' = ledger /\ lease'.owner = o
          /\ lease'.token = TokenOnAcquire(o, process[o].startedAt)
    BY <1>3 DEF AcquireLease, runVars
  <2>2. CASE lease.owner = o /\ HeldAt(process[o].startedAt)
    BY <2>1, <2>2 DEF TokenOnAcquire
  <2>3. CASE ~(lease.owner = o /\ HeldAt(process[o].startedAt))
    <3>1. Ledger!PassAuthority(o)
      BY <2>1, <2>3 DEF Ledger!PassAuthority, TokenOnAcquire
    <3>2. QED BY <3>1
  <2>4. QED BY <2>2, <2>3
<1>4. ASSUME NEW o \in Owner, RenewLease(o)
      PROVE  [Ledger!Next]_(Ledger!vars)
  BY <1>1, <1>4 DEF RenewLease, LeaseRow, runVars
<1>5. ASSUME NEW o \in Owner, Stop(o)
      PROVE  [Ledger!Next]_(Ledger!vars)
  <2>1. ledger' = ledger
    BY <1>5 DEF Stop, runVars
  <2>2. \/ lease' = lease
        \/ lease' = [lease EXCEPT !.owner = Null, !.expiresAt = Null]
    BY <1>5 DEF Stop, ReleasedLease
  <2>3. CASE lease' = lease
    BY <2>1, <2>3
  <2>4. CASE lease' = [lease EXCEPT !.owner = Null, !.expiresAt = Null]
    <3>1. lease'.owner = Null /\ lease'.token = lease.token
      BY <1>1, <2>4 DEF LeaseRow
    <3>2. Ledger!GiveUpAuthority
      BY <2>1, <3>1 DEF Ledger!GiveUpAuthority
    <3>3. QED BY <3>2
  <2>5. QED BY <2>2, <2>3, <2>4
<1>6. ASSUME NEW o \in Owner, WorkStep(o) \/ CommandStep(o)
      PROVE  [Ledger!Next]_(Ledger!vars)
  <2>1. CASE UNCHANGED <<leaseVars, runVars>>
    BY <1>2, <2>1 DEF leaseVars, runVars
  <2>2. ASSUME NEW k \in Key, NEW r \in Request, NEW base \in Nat,
               NEW view \in SUBSET Key, Persist(o, k, r, base, view),
               ~Recorded(k), SoundWrite(k, base, view),
               lease.owner = o, lease.token = process[o].token,
               UNCHANGED leaseVars
        PROVE  [Ledger!Next]_(Ledger!vars)
    <3>1. /\ k \notin Ledger!Keys(ledger)
          /\ revision = Len(ledger)
          /\ applied = Ledger!Aggregate(ledger, Len(ledger))
          /\ Ledger!Aggregate(ledger, base) = Aggregate(ledger, base)
      BY <2>2 DEF IInv, RunInv, LostToTicksOnly, RevisionCounts, RecordsAgree,
         Keys, Aggregate, Ledger!Keys, Ledger!Aggregate
    <3>2. Ledger!Enter(k, r, base, view)
      BY <2>2, <3>1, OwnerAssumption DEF Ledger!Enter, Persist, leaseVars
    <3>5. ledger' # ledger
      BY <2>2 DEF Persist, TypeOK, Entry
    <3>3. CASE base = revision /\ view = applied
      <4>1. Ledger!Commit(k, r)
        BY <3>1, <3>2, <3>3 DEF Ledger!Commit
      <4>2. QED BY <3>5, <4>1 DEF Ledger!Write
    <3>4. CASE /\ k \in TickKey /\ base \in 1 .. revision
               /\ \A i \in base + 1 .. Len(ledger) :
                    ledger[i].token = lease.token
               /\ \E kept \in SUBSET applied :
                    view = Aggregate(ledger, base) \cup kept
      <4>1. Ledger!Overwrite(k, r, base)
        BY <3>1, <3>2, <3>4 DEF Ledger!Overwrite
      <4>2. base \in 1 .. Len(ledger)
        BY <3>1, <3>4
      <4>3. QED BY <3>5, <3>4, <4>1, <4>2 DEF Ledger!Write
    <3>6. QED BY <2>2, <3>3, <3>4 DEF SoundWrite
  <2>3. QED BY <1>6, <2>1, <2>2, CommitIsSound
<1>7. CASE Tick
  BY <1>2, <1>7 DEF Tick, runVars
<1>8. ASSUME NEW o \in Owner, LeaseStep(o)
      PROVE  [Ledger!Next]_(Ledger!vars)
  BY <1>2, <1>3, <1>4, <1>5, <1>8
     DEF LeaseStep, Start, RefuseLease, Publish, FailRenewal, BeginShutdown,
     Crash, runVars
<1>9. CASE UNCHANGED vars
  BY <1>2, <1>9 DEF vars
<1>10. QED BY <1>6, <1>7, <1>8, <1>9 DEF Next

(* The lease and commitSnapshot implement the abstract ledger of a run for *)
(* any number of controllers that crash, stall and overlap.                *)
THEOREM RepositoryImplementsLedger == Spec => ImplementsRunLedger
<1>1. Init => Ledger!Init
  BY DEF Init, Ledger!Init
<1>2. TypeOK /\ IInv /\ [Next]_vars => [Ledger!Next]_(Ledger!vars)
  BY StepRefines
<1>3. QED BY <1>1, <1>2, TypeCorrect, Invariance, PTL
          DEF Spec, ImplementsRunLedger, Ledger!Spec
=============================================================================
