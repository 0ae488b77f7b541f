------------------------- MODULE ControllerRepository -------------------------
(***************************************************************************)
(* The SQLite repository of one run as several controller processes use    *)
(* it: the single controller lease with its fencing token and its expiry,  *)
(* the runtime that acquires, renews and releases it, and commitSnapshot,  *)
(* which replaces the whole aggregate under a fence, an idempotency key    *)
(* and an expected revision.                                               *)
(*                                                                         *)
(* A controller captures its write authority, later reads the snapshot,    *)
(* awaits an external effect, and only then commits: between these the     *)
(* clock, the lease and the run may all have moved, and a drain of the     *)
(* orchestration loop reuses one captured write for many commits.  Beside  *)
(* that asynchronous work a process serves parent commands, which load and *)
(* commit in one turn.  A commit refused as stale fails, except that of a  *)
(* tick of the loop: it is tried again over the newer revision.            *)
(*                                                                         *)
(* An aggregate is represented by the set of commands whose effect it      *)
(* holds, because committing replaces all of it: what a writer did not see *)
(* it erases.                                                              *)
(***************************************************************************)
EXTENDS Naturals, Sequences

CONSTANTS Owner,        \* one fresh owner id per controller process
          Null,         \* SQL NULL in the controller_lease row
          Key,          \* idempotency keys
          InitKey,      \* the key of the command that initializes the run
          TickKey,      \* the keys of the loop's ticks, orchestrate-r<revision>
          Request,      \* request contents, as told apart by requestHash
          TickRequest,  \* what a tick's request is, its revision apart
          NoRequest,    \* no processed_commands row
          LeaseTtl,     \* lease duration in clock units
          MaxTime       \* bound: the clock stops here

ASSUME OwnerAssumption   == Null \notin Owner
ASSUME NullAssumption    == Null \notin Nat
ASSUME KeyAssumption     == InitKey \in Key /\ TickKey \subseteq Key \ {InitKey}
ASSUME RequestAssumption == NoRequest \notin Request /\ TickRequest \in Request
ASSUME TtlAssumption     == LeaseTtl \in Nat \ {0} /\ MaxTime \in Nat

VARIABLES
  clock,      \* the wall clock every process reads
  lease,      \* the controller_lease row
  process,    \* per controller: runtime state, startup time, lease token it
              \* holds, and whether its shutdown is to release the lease
  work,       \* per controller: the write it captured and what it read since
  revision,   \* runs.revision, 0 while the run does not exist
  applied,    \* the persisted aggregate: the commands whose effect it holds
  commands,   \* processed_commands: the request recorded under each key
  ledger      \* the controller_events rows, one entry per committed revision

vars == <<clock, lease, process, work, revision, applied, commands, ledger>>

leaseVars == <<clock, lease, process>>
runVars   == <<revision, applied, commands, ledger>>

ProcessState == {"new", "starting", "acquired", "running", "stopping",
                 "stopped"}
WorkPhase == {"none", "authorized", "loaded"}

NoWork == [phase |-> "none", now |-> 0, key |-> InitKey, base |-> 0,
           request |-> NoRequest, view |-> {}]

\* What a process that is gone leaves of its memory.
Gone == [state |-> "stopped", startedAt |-> 0, token |-> 0, release |-> TRUE]

Keys(log) == {log[i].key : i \in 1 .. Len(log)}

\* The aggregate that the n-th commit of a log left.
Aggregate(log, n) == IF n = 0 THEN {} ELSE log[n].view \cup {log[n].key}

LeaseRow == [owner : Owner \cup {Null}, token : Nat,
             expiresAt : Nat \cup {Null}]
Runtime  == [state : ProcessState, startedAt : Nat, token : Nat,
             release : BOOLEAN]
Work     == [phase : WorkPhase, now : Nat, key : Key, base : Nat,
             request : Request \cup {NoRequest}, view : SUBSET Key]
Entry    == [key : Key, request : Request, base : Nat, view : SUBSET Key,
             owner : Owner, token : Nat]

TypeOK ==
  /\ clock \in Nat
  /\ lease \in LeaseRow
  /\ process \in [Owner -> Runtime]
  /\ work \in [Owner -> Work]
  /\ revision \in Nat
  /\ applied \in SUBSET Key
  /\ commands \in [Key -> Request \cup {NoRequest}]
  /\ ledger \in Seq(Entry)

Init ==
  /\ clock = 0
  /\ lease = [owner |-> Null, token |-> 0, expiresAt |-> Null]
  /\ process = [o \in Owner |-> [state |-> "new", startedAt |-> 0,
                                 token |-> 0, release |-> TRUE]]
  /\ work = [o \in Owner |-> NoWork]
  /\ revision = 0
  /\ applied = {}
  /\ commands = [k \in Key |-> NoRequest]
  /\ ledger = <<>>

-----------------------------------------------------------------------------
(* The controller lease.                                                   *)

\* Does the row name a holder whose lease has not expired at `now`?
InTime(now) == lease.expiresAt # Null /\ lease.expiresAt > now
HeldAt(now) == lease.owner # Null /\ InTime(now)

\* Mutant: an unexpired lease is authority enough, whoever holds it.
FencedByAnyone(o, token, now) == InTime(now)

\* #assertFence: the write names the holder and its token, and is in time.
Fenced(o, token, now) ==
  /\ lease.owner = o
  /\ lease.token = token
  /\ InTime(now)

\* Mutant: a lease that was released is taken over with its old token.
TokenOnAcquireAfterRelease(o, now) ==
  IF lease.owner \in {o, Null} THEN lease.token ELSE lease.token + 1

\* An owner that still holds the lease keeps its token; anybody else, and a
\* holder that let it expire, is given a token never used before.
TokenOnAcquire(o, now) ==
  IF lease.owner = o /\ HeldAt(now) THEN lease.token ELSE lease.token + 1

Tick ==
  /\ clock < MaxTime
  /\ clock' = clock + 1
  /\ UNCHANGED <<lease, process, work, runVars>>

\* start() reads the clock, then opens and verifies the database.
Start(o) ==
  /\ process[o].state = "new"
  /\ process' = [process EXCEPT ![o].state = "starting",
                                ![o].startedAt = clock]
  /\ UNCHANGED <<clock, lease, work, runVars>>

\* start() acquires the lease as of the time it read first.
AcquireLease(o) ==
  LET now == process[o].startedAt IN
  /\ process[o].state = "starting"
  /\ HeldAt(now) => lease.owner = o
  /\ lease' = [owner |-> o, token |-> TokenOnAcquire(o, now),
               expiresAt |-> now + LeaseTtl]
  /\ process' = [process EXCEPT ![o].state = "acquired",
                                ![o].token = TokenOnAcquire(o, now)]
  /\ UNCHANGED <<clock, work, runVars>>

\* Another owner's lease is unexpired: the start fails and is rolled back.
RefuseLease(o) ==
  /\ process[o].state = "starting"
  /\ HeldAt(process[o].startedAt) /\ lease.owner # o
  /\ process' = [process EXCEPT ![o] = Gone]
  /\ UNCHANGED <<clock, lease, work, runVars>>

\* The socket listens and the descriptor is written: requests are served.
Publish(o) ==
  /\ process[o].state = "acquired"
  /\ process' = [process EXCEPT ![o].state = "running"]
  /\ UNCHANGED <<clock, lease, work, runVars>>

RenewLease(o) ==
  /\ process[o].state = "running"
  /\ Fenced(o, process[o].token, clock)
  /\ lease' = [lease EXCEPT !.expiresAt = clock + LeaseTtl]
  /\ UNCHANGED <<clock, process, work, runVars>>

\* A renewal that fails stops the controller without releasing the lease.
FailRenewal(o) ==
  /\ process[o].state = "running"
  /\ ~Fenced(o, process[o].token, clock)
  /\ process' = [process EXCEPT ![o].state = "stopping",
                                ![o].release = FALSE]
  /\ UNCHANGED <<clock, lease, work, runVars>>

\* shutdown() closes the socket first; work in flight goes on meanwhile.
BeginShutdown(o) ==
  /\ process[o].state = "running"
  /\ process' = [process EXCEPT ![o].state = "stopping"]
  /\ UNCHANGED <<clock, lease, work, runVars>>

\* Mutants: the release clears the whole row, or checks no fence.
ReleasedRow(o) ==
  IF Fenced(o, process[o].token, clock)
    THEN [owner |-> Null, token |-> Null, expiresAt |-> Null]
    ELSE lease

ReleasedLeaseOfAnyone(o) == [lease EXCEPT !.owner = Null, !.expiresAt = Null]

\* releaseLease keeps the token: the next holder's has to be newer.
ReleasedLease(o) ==
  IF Fenced(o, process[o].token, clock)
    THEN [lease EXCEPT !.owner = Null, !.expiresAt = Null]
    ELSE lease

\* The end of shutdown(), and the rollback of a start that failed after the
\* lease was acquired: release it if it still is ours, close the database.
Stop(o) ==
  /\ process[o].state \in {"acquired", "stopping"}
  /\ lease' = IF process[o].release THEN ReleasedLease(o) ELSE lease
  /\ process' = [process EXCEPT ![o] = Gone]
  /\ work' = [work EXCEPT ![o] = NoWork]
  /\ UNCHANGED <<clock, runVars>>

\* The process dies: nothing is released, what was in flight is gone.
Crash(o) ==
  /\ process[o].state \in {"starting", "acquired", "running", "stopping"}
  /\ process' = [process EXCEPT ![o] = Gone]
  /\ work' = [work EXCEPT ![o] = NoWork]
  /\ UNCHANGED <<clock, lease, runVars>>

-----------------------------------------------------------------------------
(* The run.                                                                *)

Recorded(k) == commands[k] # NoRequest

\* One committed revision: the aggregate is replaced by what its writer saw
\* plus the command, the event rows and the command row are added.
Persist(o, k, r, base, view) ==
  /\ revision' = revision + 1
  /\ applied' = view \cup {k}
  /\ commands' = [commands EXCEPT ![k] = r]
  /\ ledger' = Append(ledger, [key |-> k, request |-> r, base |-> base,
                               view |-> view, owner |-> o,
                               token |-> process[o].token])

\* A command recorded under this key is answered from the record instead.
Replays(k, r)   == commands[k] = r
Conflicts(k, r) == Recorded(k) /\ commands[k] # r

InitializeRun(o, r) ==
  /\ process[o].state = "running"
  /\ Fenced(o, process[o].token, clock)
  /\ ~Recorded(InitKey)
  /\ revision = 0
  /\ Persist(o, InitKey, r, 0, {})
  /\ UNCHANGED <<leaseVars, work>>

\* Mutant: commitSnapshot forgets the recorded command.
CommitSnapshotUnrecorded(o, k, r, base, view, now) ==
  /\ Fenced(o, process[o].token, now)
  /\ revision > 0
  /\ revision = base
  /\ Persist(o, k, r, base, view)

\* commitSnapshot, in the order of its checks.
CommitSnapshot(o, k, r, base, view, now) ==
  /\ Fenced(o, process[o].token, now)
  /\ ~Replays(k, r) /\ ~Conflicts(k, r)
  /\ revision > 0
  /\ revision = base
  /\ Persist(o, k, r, base, view)

\* A parent command loads and commits within one turn of the event loop.
ParentCommand(o, k, r) ==
  /\ process[o].state = "running"
  /\ k \notin TickKey
  /\ CommitSnapshot(o, k, r, revision, applied, clock)
  /\ UNCHANGED <<leaseVars, work>>

\* A request captures the controller's write authority as of now.
CaptureWrite(o) ==
  /\ process[o].state = "running"
  /\ work[o].phase = "none"
  /\ work' = [work EXCEPT ![o].phase = "authorized", ![o].now = clock]
  /\ UNCHANGED <<leaseVars, runVars>>

\* It loads the snapshot and starts the effect whose result it will commit.
\* The key of a tick names the revision it loads, so it is new.
LoadSnapshot(o, k, r) ==
  /\ process[o].state \in {"running", "stopping"}
  /\ work[o].phase = "authorized"
  /\ revision > 0
  /\ k \in TickKey => r = TickRequest /\ ~Recorded(k)
  /\ work' = [work EXCEPT ![o] = [@ EXCEPT !.phase = "loaded", !.key = k,
                                           !.request = r, !.base = revision,
                                           !.view = applied]]
  /\ UNCHANGED <<leaseVars, runVars>>

\* The captured write serves the next tick of the drain as well.
NextTick(o) == [NoWork EXCEPT !.phase = "authorized", !.now = work[o].now]

InFlight(o) ==
  process[o].state \in {"running", "stopping"} /\ work[o].phase = "loaded"

CommitWork(o) ==
  /\ InFlight(o)
  /\ CommitSnapshot(o, work[o].key, work[o].request, work[o].base,
                    work[o].view, work[o].now)
  /\ work' = [work EXCEPT ![o] = NextTick(o)]
  /\ UNCHANGED leaseVars

ReplayWork(o) ==
  /\ InFlight(o)
  /\ Fenced(o, process[o].token, work[o].now)
  /\ Replays(work[o].key, work[o].request)
  /\ work' = [work EXCEPT ![o] = NextTick(o)]
  /\ UNCHANGED <<leaseVars, runVars>>

\* Mutant: the retry relies on the fence that the first attempt passed.
OvertakenUnfenced(o) ==
  /\ InFlight(o)
  /\ work[o].key \in TickKey /\ ~Recorded(work[o].key)
  /\ revision # work[o].base

\* A tick whose revision has become stale.
Overtaken(o) ==
  /\ InFlight(o)
  /\ work[o].key \in TickKey /\ ~Recorded(work[o].key)
  /\ Fenced(o, process[o].token, work[o].now)
  /\ revision # work[o].base

\* In the same turn it is committed over the latest revision, under the key
\* of that one.  The run and the stories are the tick's, of each agent the
\* newer state is taken: of what was committed meanwhile any part survives.
RetryTick(o, k) ==
  /\ Overtaken(o)
  /\ k \in TickKey /\ ~Recorded(k)
  /\ \E kept \in SUBSET applied :
       Persist(o, k, TickRequest, work[o].base, work[o].view \cup kept)
  /\ work' = [work EXCEPT ![o] = NextTick(o)]
  /\ UNCHANGED leaseVars

\* What the tick would commit is what is there already.
SkipRetry(o) ==
  /\ Overtaken(o)
  /\ work' = [work EXCEPT ![o] = NextTick(o)]
  /\ UNCHANGED <<leaseVars, runVars>>

\* The commit throws: stale fence, conflicting request, stale revision, or
\* writer leases that contradict the snapshot.
FailWork(o) ==
  /\ InFlight(o)
  /\ ~(/\ Fenced(o, process[o].token, work[o].now)
       /\ Replays(work[o].key, work[o].request))
  /\ work' = [work EXCEPT ![o] = NoWork]
  /\ UNCHANGED <<leaseVars, runVars>>

\* The drain is quiet, or the request gave up before it loaded anything.
SettleWork(o) ==
  /\ work[o].phase = "authorized"
  /\ work' = [work EXCEPT ![o] = NoWork]
  /\ UNCHANGED <<leaseVars, runVars>>

-----------------------------------------------------------------------------
LeaseStep(o) ==
  \/ Start(o) \/ AcquireLease(o) \/ RefuseLease(o) \/ Publish(o)
  \/ RenewLease(o) \/ FailRenewal(o) \/ BeginShutdown(o) \/ Stop(o)
  \/ Crash(o)

WorkStep(o) ==
  \/ CaptureWrite(o) \/ CommitWork(o) \/ ReplayWork(o) \/ FailWork(o)
  \/ SkipRetry(o) \/ SettleWork(o)
  \/ \E k \in TickKey : RetryTick(o, k)
  \/ \E k \in Key, r \in Request : LoadSnapshot(o, k, r)

CommandStep(o) ==
  \/ \E r \in Request : InitializeRun(o, r)
  \/ \E k \in Key, r \in Request : ParentCommand(o, k, r)

Next ==
  \/ Tick
  \/ \E o \in Owner : LeaseStep(o) \/ WorkStep(o) \/ CommandStep(o)

Spec == Init /\ [][Next]_vars

-----------------------------------------------------------------------------
(* Properties.                                                             *)

\* An update is lost only to a tick that was in flight when it was committed,
\* in the same reign of the same controller: every other commit keeps all that
\* the aggregate holds, although each replaces the whole of it with what its
\* writer computed from a snapshot read before an await, and a tick keeps what
\* was there when it loaded.  So no takeover loses anything.
LostToTicksOnly ==
  /\ applied = Aggregate(ledger, Len(ledger))
  /\ \A n \in 1 .. Len(ledger) :
       LET e == ledger[n] IN
       /\ Aggregate(ledger, e.base) \subseteq e.view
       /\ \/ e.view = Aggregate(ledger, n - 1)
          \/ /\ e.key \in TickKey
             /\ \A i \in e.base + 1 .. n - 1 : ledger[i].token = e.token

\* Exactly once: whatever is retried, duplicated or raced by two controllers,
\* one idempotency key commits one revision, and the answer kept for it is
\* the answer to the request that was committed.
ExactlyOnce ==
  /\ \A i, j \in 1 .. Len(ledger) : ledger[i].key = ledger[j].key => i = j
  /\ \A i \in 1 .. Len(ledger) : commands[ledger[i].key] = ledger[i].request

\* Fencing: the history is a sequence of reigns.  Once a controller with a
\* newer token has committed, none with an older one ever does, and a token
\* belongs to one controller only, although every captured write carries an
\* old clock reading and a lease may lapse while its holder awaits.
FencedHistory ==
  \A i, j \in 1 .. Len(ledger) : i < j =>
    /\ ledger[i].token <= ledger[j].token
    /\ ledger[i].token = ledger[j].token => ledger[i].owner = ledger[j].owner

\* A controller whose lease is in time is never pushed out: while the lease
\* is unexpired only its holder's own orderly stop ends the holding, although
\* starts compare with a clock they read earlier and stops may come late.
NoPreemption ==
  [][\A o \in Owner :
       lease.owner = o /\ InTime(clock) /\ lease'.owner # o
         => lease'.owner = Null /\ process[o].token = lease.token
            /\ process'[o].state = "stopped"]_vars

\* The repository implements the abstract ledger of a run: clock, expiry,
\* processes and work in flight are invisible, and every commit is computed
\* from all that was committed before it, or tried again over what its own
\* controller committed meanwhile, by the controller in authority.
Ledger == INSTANCE RunLedger WITH
            NoOwner   <- Null,
            authority <- [owner |-> lease.owner, token |-> lease.token]
ImplementsRunLedger == Ledger!Spec
=============================================================================
