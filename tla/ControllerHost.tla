----------------------------- MODULE ControllerHost -----------------------------
(***************************************************************************)
(* The runtime directory of one run and the detached controller processes  *)
(* that are spawned into it: the database with its lease, the quarantine   *)
(* marker, the socket and the descriptor by which clients find the one     *)
(* controller that serves the run.                                         *)
(*                                                                         *)
(* A process starts in the steps between which another process may act,    *)
(* a crash may fall or so much time may pass that its lease lapses:        *)
(*                                                                         *)
(*   spawned    marker?    checked    open       opened                    *)
(*   opened     verify     verified   acquire    leased                    *)
(*   leased     exists?    probing    connect    stale   unlink  cleared   *)
(*   cleared    listen     bound      describe   running                   *)
(*                                                                         *)
(* and it ends stopping or failing, removing its descriptor, gone.  Of     *)
(* what one process looks at, another may change everything before it      *)
(* acts on it: only the lease keeps them apart, and it may lapse.          *)
(*                                                                         *)
(* A process acquires the lease at most once, so a lease needs no token    *)
(* here: its owner is one.  While it runs it renews its lease long before  *)
(* the expiry, so the lease lapses only when its owner is dead or stalls.  *)
(***************************************************************************)
EXTENDS Naturals

CONSTANTS Processes,  \* bound: processes that exist or are referred to
          None

ASSUME ProcessAssumption == None \notin Processes

VARIABLES
  proc,        \* how far each process is
  lease,       \* controller_lease of the run's database: its owner, and
               \* whether it has not expired
  integrity,   \* what assertIntegrity finds there: "sound", the "half" of a
               \* launch (a writer's lease, no assignment) or "corrupt"
  database,    \* the file at controller.sqlite: "absent", "kept", set "aside",
               \* or "recreated" after that
  astray,      \* the processes that opened a recreated file: the lease and
               \* the integrity they find are that file's
  marker,      \* quarantine.json exists
  socket,      \* controller.sock: the process that bound it
  descriptor,  \* controller.json: the process that wrote it
  unfenced     \* history: a start went on although its lease had lapsed, or
               \* in a recreated file

hostVars == <<proc, lease, integrity, database, astray, marker, socket,
              descriptor, unfenced>>

\* What a step leaves alone of the directory, if it works on its socket, on
\* the database, or on neither.
DatabaseVars == <<integrity, database, astray, marker, unfenced>>
SocketVars   == <<socket, descriptor>>

\* Between the lease and the service: what the lease alone protects.
Starting == {"leased", "probing", "stale", "cleared", "bound"}

Phases == Starting \cup
          {"spawned", "checked", "opened", "verified", "running", "stopping",
           "failing", "removing", "quarantining", "marking", "marked",
           "stranded", "gone"}

Lease == [owner : Processes \cup {None}, live : BOOLEAN]

HostTypeOK ==
  /\ proc \in [Processes -> Phases]
  /\ lease \in Lease
  /\ integrity \in {"sound", "half", "corrupt"}
  /\ database \in {"absent", "kept", "aside", "recreated"}
  /\ astray \subseteq Processes
  /\ marker \in BOOLEAN
  /\ socket \in Processes \cup {None}
  /\ descriptor \in Processes \cup {None}
  /\ unfenced \in BOOLEAN

NoLease == [owner |-> None, live |-> FALSE]

HostInit ==
  /\ proc = [p \in Processes |-> "gone"]
  /\ lease = NoLease
  /\ integrity = "sound"
  /\ database = "absent"
  /\ astray = {}
  /\ marker = FALSE
  /\ socket = None
  /\ descriptor = None
  /\ unfenced = FALSE

Alive(p) == proc[p] # "gone"

Becomes(p, phase) == proc' = [proc EXCEPT ![p] = phase]

\* A process that goes on, and one that ends and closes its files.
Proceeds(p, phase) == Becomes(p, phase) /\ UNCHANGED astray
Ends(p)            == Becomes(p, "gone") /\ astray' = astray \ {p}

\* Process numbers that nothing in the directory refers to.
Fresh == {p \in Processes : /\ ~Alive(p)
                            /\ p # socket /\ p # descriptor /\ p # lease.owner}

-----------------------------------------------------------------------------
(* Files.                                                                  *)

\* The process serves the connections it has and those that reach it.
Accepting(p) == p # None /\ p \in Processes /\ proc[p] = "running"

\* May a connection to the socket at the path be accepted?  One that is bound
\* may listen or not yet.
Answers(p) ==
  IF Accepting(p) THEN {TRUE}
  ELSE IF p \in Processes /\ proc[p] = "bound" THEN BOOLEAN ELSE {FALSE}

HeldByAnother(p) == lease.owner # None /\ lease.owner # p /\ lease.live

\* Mutant: the row is cleared instead of the owner and the expiry in it.
ReleasedToNull(p) ==
  IF lease.owner = p /\ lease.live THEN None ELSE lease

\* releaseLease is fenced: a lease that lapsed or was taken over stays, as
\* does that of the run's database if the process works on another one.
Released(p) ==
  IF lease.owner = p /\ lease.live THEN NoLease ELSE lease

\* A renewal succeeds: of a recreated file any process may hold the lease.
MayHold(p)  == p \in astray \/ (lease.owner = p /\ lease.live)
MayLose(p)  == p \in astray \/ ~(lease.owner = p /\ lease.live)

-----------------------------------------------------------------------------
(* A process starts: the database.                                         *)

Spawn(p) ==
  /\ p \in Fresh
  /\ Becomes(p, "spawned")
  /\ UNCHANGED <<lease, DatabaseVars, SocketVars>>

\* A quarantined database is refused.
CheckMarker(p) ==
  /\ proc[p] = "spawned"
  /\ Becomes(p, IF marker THEN "gone" ELSE "checked")
  /\ UNCHANGED <<lease, DatabaseVars, SocketVars>>

\* One that is missing is created, set aside in the meantime or not.
Open(p) ==
  /\ proc[p] = "checked"
  /\ Becomes(p, "opened")
  /\ IF database \in {"absent", "kept"}
       THEN database' = "kept" /\ UNCHANGED <<astray, unfenced>>
       ELSE /\ database' = "recreated"
            /\ astray' = astray \cup {p}
            /\ unfenced' = TRUE
  /\ UNCHANGED <<lease, integrity, marker, SocketVars>>

\* The database is verified and assessed before the lease is asked for.
Verify(p) ==
  /\ proc[p] = "opened"
  /\ Becomes(p, IF integrity = "sound" \/ p \in astray
                  THEN "verified" ELSE "quarantining")
  /\ UNCHANGED <<lease, DatabaseVars, SocketVars>>

Acquire(p) ==
  /\ proc[p] = "verified"
  /\ \/ /\ p \in astray \/ HeldByAnother(p)
        /\ Ends(p) /\ UNCHANGED lease
     \/ /\ p \in astray
        /\ Proceeds(p, "leased") /\ UNCHANGED lease
     \/ /\ p \notin astray /\ ~HeldByAnother(p)
        /\ Proceeds(p, "leased")
        /\ lease' = [owner |-> p, live |-> TRUE]
  /\ UNCHANGED <<integrity, database, marker, SocketVars, unfenced>>

\* Another process may have marked or moved the database before.
Quarantine(p) ==
  /\ proc[p] = "quarantining"
  /\ Becomes(p, IF marker \/ database = "aside" THEN "gone" ELSE "marking")
  /\ UNCHANGED <<lease, DatabaseVars, SocketVars>>

\* Mutant: the marker stays in its temporary file.
MarkUnnamed(p) ==
  /\ proc[p] = "marking"
  /\ Becomes(p, "marked")
  /\ UNCHANGED <<lease, DatabaseVars, SocketVars>>

\* The marker is durable before any file is moved.
Mark(p) ==
  /\ proc[p] = "marking"
  /\ Becomes(p, "marked")
  /\ marker' = TRUE
  /\ UNCHANGED <<lease, integrity, database, astray, SocketVars, unfenced>>

MoveAside(p) ==
  /\ proc[p] = "marked"
  /\ Becomes(p, "gone")
  /\ database' = "aside"
  /\ UNCHANGED <<lease, integrity, astray, marker, SocketVars, unfenced>>

-----------------------------------------------------------------------------
(* A process starts: the socket.                                           *)

\* #rollbackFailedStart, before the descriptor is written.
RollBack(p) ==
  /\ Ends(p)
  /\ lease' = IF p \in astray THEN lease ELSE Released(p)
  /\ UNCHANGED <<integrity, database, marker, SocketVars, unfenced>>

\* removeStaleSocket: is there a socket at all?
Look(p) ==
  /\ proc[p] = "leased"
  /\ Becomes(p, IF socket = None THEN "cleared" ELSE "probing")
  /\ UNCHANGED <<lease, DatabaseVars, SocketVars>>

\* Mutant: whatever is at the path counts as stale.
ProbeNothing(p) ==
  /\ proc[p] = "probing"
  /\ Becomes(p, "stale")
  /\ UNCHANGED <<lease, DatabaseVars, SocketVars>>

\* A socket that accepts the connection is not replaced.
Probe(p) ==
  /\ proc[p] = "probing"
  /\ \/ TRUE \in Answers(socket) /\ RollBack(p)
     \/ /\ FALSE \in Answers(socket)
        /\ Becomes(p, "stale")
        /\ UNCHANGED <<lease, DatabaseVars, SocketVars>>

\* Later what is at the path by then is unlinked.
Unlink(p) ==
  /\ proc[p] = "stale"
  /\ IF socket = None
       THEN RollBack(p)
       ELSE /\ Becomes(p, "cleared")
            /\ socket' = None
            /\ UNCHANGED <<lease, DatabaseVars, descriptor>>

\* A path that exists again is not replaced.
Listen(p) ==
  /\ proc[p] = "cleared"
  /\ IF socket # None
       THEN RollBack(p)
       ELSE /\ Becomes(p, "bound")
            /\ socket' = p
            /\ UNCHANGED <<lease, DatabaseVars, descriptor>>

\* The descriptor is written when the socket is there.  Without it the start
\* fails, but the server that listens is not closed and keeps the process.
Serve(p) ==
  /\ proc[p] = "bound"
  /\ IF socket = None
       THEN /\ Proceeds(p, "stranded")
            /\ lease' = IF p \in astray THEN lease ELSE Released(p)
            /\ UNCHANGED descriptor
       ELSE /\ Proceeds(p, "running")
            /\ descriptor' = p
            /\ UNCHANGED lease
  /\ UNCHANGED <<integrity, database, marker, socket, unfenced>>

-----------------------------------------------------------------------------
(* A process runs and stops.                                               *)

\* A renewal writes the descriptor again, whosever is there.
Renew(p) ==
  /\ proc[p] = "running" /\ MayHold(p)
  /\ descriptor' = p
  /\ UNCHANGED <<proc, lease, DatabaseVars, socket>>

\* Connections are destroyed, and whatever is at the path is unlinked.
Close(p, phase) ==
  /\ proc[p] = "running"
  /\ Becomes(p, phase)
  /\ socket' = None
  /\ UNCHANGED <<lease, DatabaseVars, descriptor>>

\* SIGTERM, SIGINT or controller.shutdown.
Stop(p) == Close(p, "stopping")

\* The renewal finds the lease expired or taken over: fail-stop.
FailRenewal(p) == MayLose(p) /\ Close(p, "failing")

\* The lease is released unless its renewal has failed; the descriptor is
\* looked at.
EndStop(p) ==
  /\ proc[p] \in {"stopping", "failing"}
  /\ IF descriptor = p THEN Proceeds(p, "removing") ELSE Ends(p)
  /\ lease' = IF proc[p] = "stopping" /\ p \notin astray THEN Released(p)
                                                        ELSE lease
  /\ UNCHANGED <<integrity, database, marker, SocketVars, unfenced>>

\* It is compared once more, and what is there after that is unlinked.
RemoveDescriptor(p) ==
  /\ proc[p] = "removing"
  /\ Ends(p)
  /\ descriptor' \in {None} \cup ({descriptor} \ {p})
  /\ UNCHANGED <<lease, integrity, database, marker, socket, unfenced>>

\* SIGKILL, or SIGTERM before its handler is installed: the files stay.
Crash(p) ==
  /\ Alive(p)
  /\ Ends(p)
  /\ UNCHANGED <<lease, integrity, database, marker, SocketVars, unfenced>>

\* Time passes that the owner, dead or stalled, does not use for a renewal.
Lapse ==
  /\ lease.live
  /\ lease' = [lease EXCEPT !.live = FALSE]
  /\ unfenced' = (unfenced \/ \E p \in Processes :
                                 p = lease.owner /\ proc[p] \in Starting)
  /\ UNCHANGED <<proc, integrity, database, astray, marker, SocketVars>>

\* Whoever may write the database, or its disk, changes what a start finds.
ChangeIntegrity ==
  /\ integrity' \in {"sound", "half", "corrupt"}
  /\ UNCHANGED <<proc, lease, database, astray, marker, SocketVars, unfenced>>

OpensDatabase(p) ==
  \/ CheckMarker(p) \/ Open(p) \/ Verify(p) \/ Acquire(p)
  \/ Quarantine(p) \/ Mark(p) \/ MoveAside(p)

OpensSocket(p) == Look(p) \/ Probe(p) \/ Unlink(p) \/ Listen(p) \/ Serve(p)

Starts(p) == OpensDatabase(p) \/ OpensSocket(p)

ProcessNext(p) ==
  \/ Spawn(p) \/ Starts(p) \/ Renew(p) \/ Stop(p) \/ FailRenewal(p)
  \/ EndStop(p) \/ RemoveDescriptor(p) \/ Crash(p)

HostNext ==
  \/ \E p \in Processes : ProcessNext(p)
  \/ Lapse
  \/ ChangeIntegrity

HostSpec == HostInit /\ [][HostNext]_hostVars

-----------------------------------------------------------------------------
(* As long as no start has gone on without the lease, a process that runs  *)
(* is the one that the path of the socket leads to, and the descriptor     *)
(* leads to nobody else: no start takes them from a controller that still  *)
(* serves, however long that one has stalled itself, although each start   *)
(* probes and unlinks in two steps, and no end of another process leaves   *)
(* its own behind.  So no two processes ever run.                          *)
RunningIsReachable ==
  ~unfenced => \A p \in Processes :
    proc[p] = "running" => socket = p /\ descriptor \in {p, None}

(* A database that was set aside, or one that was created in its place by  *)
(* a start that had looked for the marker before, is never without the     *)
(* marker that keeps every later start and every client away.              *)
QuarantineHolds == database \in {"aside", "recreated"} => marker
=============================================================================
