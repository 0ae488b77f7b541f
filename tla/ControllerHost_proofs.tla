------------------------- MODULE ControllerHost_proofs -------------------------
(***************************************************************************)
(* Proofs about the runtime directory and the controller processes, for    *)
(* any number of processes and whatever their leases do.                   *)
(***************************************************************************)
EXTENDS ControllerHost, TLAPS

\* The marker is there before a file is moved and after.
Quarantined ==
  /\ QuarantineHolds
  /\ \A p \in Processes : proc[p] = "marked" => marker

\* What the lease keeps apart as long as every start goes on with it: one
\* start at a time is between its lease and its service, a socket leads to
\* the process that bound it, and nothing is served while one is unlinked.
Apart ==
  /\ astray = {}
  /\ \A p \in Processes :
       proc[p] \in Starting => lease = [owner |-> p, live |-> TRUE]
  /\ \A p \in Processes : proc[p] \in {"bound", "running"} => socket = p
  /\ \A p \in Processes : proc[p] = "running" => descriptor \in {p, None}
  /\ \A p, q \in Processes :
       proc[p] = "stale" => proc[q] \notin {"bound", "running"}

HostInv == HostTypeOK /\ (~unfenced => Apart) /\ Quarantined

USE ProcessAssumption

(* The empty directory satisfies the invariant. *)
LEMMA HostInitInv == HostInit => HostInv
<1> SUFFICES ASSUME HostInit PROVE HostInv
  OBVIOUS
<1>1. HostTypeOK
  BY DEF HostInit, HostTypeOK, NoLease, Lease, Phases
<1>2. Apart
  BY DEF HostInit, Apart, Starting
<1>3. Quarantined
  BY DEF HostInit, Quarantined, QuarantineHolds
<1>4. QED BY <1>1, <1>2, <1>3 DEF HostInv

(* A process that takes the next phase: nothing else about the others. *)
LEMMA Advanced ==
  ASSUME HostTypeOK, NEW p \in Processes, NEW phase \in Phases,
         Becomes(p, phase)
  PROVE  /\ proc' \in [Processes -> Phases]
         /\ proc'[p] = phase
         /\ \A q \in Processes : q # p => proc'[q] = proc[q]
  BY DEF HostTypeOK, Becomes

(* Which phase a step on the database leads to, and what it leaves alone. *)
LEMMA DatabaseStep ==
  ASSUME HostTypeOK, NEW p \in Processes, OpensDatabase(p)
  PROVE  /\ \E phase \in Phases : Becomes(p, phase)
         /\ UNCHANGED <<integrity, socket, descriptor>>
         /\ lease' \in {lease, [owner |-> p, live |-> TRUE]}
         /\ database' \in {"absent", "kept", "aside", "recreated"}
         /\ astray' \in {astray, astray \cup {p}, astray \ {p}}
         /\ marker' \in BOOLEAN
         /\ unfenced' \in BOOLEAN
<1> USE DEF DatabaseVars, SocketVars, HostTypeOK, Phases
<1>1. CASE CheckMarker(p) BY <1>1 DEF CheckMarker
<1>2. CASE Open(p) BY <1>2 DEF Open
<1>3. CASE Verify(p) BY <1>3 DEF Verify
<1>4. CASE Acquire(p) BY <1>4 DEF Acquire, Ends, Proceeds, Starting
<1>5. CASE Quarantine(p) BY <1>5 DEF Quarantine
<1>6. CASE Mark(p) BY <1>6 DEF Mark
<1>7. CASE MoveAside(p) BY <1>7 DEF MoveAside
<1>8. QED BY <1>1, <1>2, <1>3, <1>4, <1>5, <1>6, <1>7 DEF OpensDatabase

(* The same of the other steps of a process. *)
LEMMA ServiceStep ==
  ASSUME HostTypeOK, NEW p \in Processes,
         \/ Spawn(p) \/ OpensSocket(p) \/ Renew(p) \/ Stop(p)
         \/ FailRenewal(p) \/ EndStop(p) \/ RemoveDescriptor(p) \/ Crash(p)
  PROVE  /\ proc' = proc \/ \E phase \in Phases \ {"marked"} : Becomes(p, phase)
         /\ UNCHANGED <<integrity, database, marker, unfenced>>
         /\ lease' \in {lease, NoLease}
         /\ astray' \in {astray, astray \ {p}}
         /\ socket' \in {socket, p, None}
         /\ descriptor' \in {descriptor, p, None}
<1> USE DEF DatabaseVars, SocketVars, Phases, Starting, Released
<1>1. CASE Spawn(p) BY <1>1 DEF Spawn
<1>2. CASE Look(p) BY <1>2 DEF Look
<1>3. CASE Probe(p) BY <1>3 DEF Probe, RollBack, Ends
<1>4. CASE Unlink(p) BY <1>4 DEF Unlink, RollBack, Ends
<1>5. CASE Listen(p) BY <1>5 DEF Listen, RollBack, Ends
<1>6. CASE Serve(p) BY <1>6 DEF Serve, Proceeds
<1>7. CASE Renew(p) BY <1>7 DEF Renew
<1>8. CASE Stop(p) \/ FailRenewal(p) BY <1>8 DEF Stop, FailRenewal, Close
<1>9. CASE EndStop(p) BY <1>9 DEF EndStop, Proceeds, Ends
<1>10. CASE RemoveDescriptor(p) BY <1>10 DEF RemoveDescriptor, Ends
<1>11. CASE Crash(p) BY <1>11 DEF Crash, Ends
<1>12. QED
  BY <1>1, <1>2, <1>3, <1>4, <1>5, <1>6, <1>7, <1>8, <1>9, <1>10, <1>11
     DEF OpensSocket

(* Every step keeps the state well typed. *)
LEMMA HostTypeStep == HostTypeOK /\ [HostNext]_hostVars => HostTypeOK'
<1> SUFFICES ASSUME HostTypeOK, [HostNext]_hostVars PROVE HostTypeOK'
  OBVIOUS
<1>1. lease \in Lease /\ NoLease \in Lease
        /\ \A p \in Processes : [owner |-> p, live |-> TRUE] \in Lease
  BY DEF HostTypeOK, NoLease, Lease
<1>2. ASSUME NEW p \in Processes, OpensDatabase(p) PROVE HostTypeOK'
  <2>1. proc' \in [Processes -> Phases]
    BY <1>2, DatabaseStep, Advanced
  <2>2. QED BY <1>1, <1>2, <2>1, DatabaseStep DEF HostTypeOK
<1>3. ASSUME NEW p \in Processes,
             \/ Spawn(p) \/ OpensSocket(p) \/ Renew(p) \/ Stop(p)
             \/ FailRenewal(p) \/ EndStop(p) \/ RemoveDescriptor(p) \/ Crash(p)
      PROVE  HostTypeOK'
  <2>1. proc' \in [Processes -> Phases]
    BY <1>3, ServiceStep, Advanced DEF HostTypeOK
  <2>2. QED BY <1>1, <1>3, <2>1, ServiceStep DEF HostTypeOK
<1>4. CASE Lapse
  <2>1. lease' \in Lease
    BY <1>1, <1>4 DEF Lapse, Lease
  <2>2. QED BY <1>4, <2>1 DEF HostTypeOK, Lapse, SocketVars
<1>5. CASE ChangeIntegrity
  BY <1>5 DEF HostTypeOK, ChangeIntegrity, SocketVars
<1>6. CASE UNCHANGED hostVars
  BY <1>6 DEF HostTypeOK, hostVars
<1>7. QED
  BY <1>2, <1>3, <1>4, <1>5, <1>6 DEF HostNext, ProcessNext, Starts

-----------------------------------------------------------------------------
(* A process that neither starts on with the lease nor serves disturbs     *)
(* nobody, although it gives up its own lease or removes the descriptor.   *)
LEMMA OthersStayApart ==
  ASSUME HostTypeOK, Apart, NEW p \in Processes,
         NEW phase \in Phases \ (Starting \cup {"running"}), Becomes(p, phase),
         astray' \subseteq astray, socket' = socket,
         descriptor' \in {descriptor, None},
         lease' = lease \/ lease.owner = p
  PROVE  Apart'
<1>1. /\ proc'[p] = phase
      /\ \A q \in Processes : q # p => proc'[q] = proc[q]
  BY Advanced
<1>2. phase \notin {"bound", "running", "stale"}
  BY DEF Starting
<1>3. ASSUME NEW q \in Processes, proc'[q] \in Starting
      PROVE  lease' = [owner |-> q, live |-> TRUE]
  <2>1. q # p /\ proc[q] \in Starting
    BY <1>1, <1>3
  <2>2. lease = [owner |-> q, live |-> TRUE]
    BY <2>1 DEF Apart
  <2>3. QED BY <2>1, <2>2
<1>4. QED BY <1>1, <1>2, <1>3 DEF Apart

(* A start with the lease is the only one, and it alone goes on. *)
LEMMA StartStaysApart ==
  ASSUME HostTypeOK, Apart, NEW p \in Processes,
         NEW phase \in {"leased", "probing", "cleared"}, Becomes(p, phase),
         astray' = astray, socket' = socket, descriptor' = descriptor,
         lease' = [owner |-> p, live |-> TRUE],
         \A q \in Processes : proc[q] \in Starting => q = p
  PROVE  Apart'
<1>1. /\ proc'[p] = phase
      /\ \A q \in Processes : q # p => proc'[q] = proc[q]
  BY Advanced DEF Phases, Starting
<1>2. \A q \in Processes : proc'[q] \in Starting => q = p
  BY <1>1
<1>3. \A q \in Processes : proc'[q] # "stale"
  BY <1>1, <1>2 DEF Starting
<1>4. QED BY <1>1, <1>2, <1>3 DEF Apart

(* The lease is enough to be the only start. *)
LEMMA OneStart ==
  ASSUME Apart, NEW p \in Processes, proc[p] \in Starting
  PROVE  /\ lease = [owner |-> p, live |-> TRUE]
         /\ \A q \in Processes : proc[q] \in Starting => q = p
<1>1. lease = [owner |-> p, live |-> TRUE]
  BY DEF Apart
<1>2. ASSUME NEW q \in Processes, proc[q] \in Starting PROVE q = p
  <2>1. lease = [owner |-> q, live |-> TRUE]
    BY <1>2 DEF Apart
  <2>2. lease.owner = p /\ lease.owner = q
    BY <1>1, <2>1
  <2>3. QED BY <2>2
<1>3. QED BY <1>1, <1>2

(* The rollback of a start is an end among others. *)
LEMMA RollBackApart ==
  ASSUME HostTypeOK, Apart, NEW p \in Processes, RollBack(p)
  PROVE  Apart'
<1>1. /\ "gone" \in Phases \ (Starting \cup {"running"})
      /\ Becomes(p, "gone") /\ astray' \subseteq astray
      /\ socket' = socket /\ descriptor' = descriptor
      /\ lease' = lease \/ lease.owner = p
  BY DEF RollBack, Ends, Released, SocketVars, Phases, Starting
<1>2. QED BY <1>1, OthersStayApart

(* Steps on the database keep processes apart, unless one opens a file     *)
(* that was recreated.                                                     *)
LEMMA DatabaseApart ==
  ASSUME HostTypeOK, Apart, NEW p \in Processes, OpensDatabase(p), ~unfenced'
  PROVE  Apart'
<1> USE DEF DatabaseVars, SocketVars, Phases, Starting
<1>1. CASE CheckMarker(p)
  BY <1>1, OthersStayApart DEF CheckMarker
<1>2. CASE Open(p)
  BY <1>2, OthersStayApart DEF Open
<1>3. CASE Verify(p)
  BY <1>3, OthersStayApart DEF Verify
<1>4. CASE Acquire(p)
  <2>1. astray = {} /\ p \notin astray
    BY DEF Apart
  <2>2. CASE Ends(p) /\ UNCHANGED lease
    BY <1>4, <2>2, OthersStayApart DEF Acquire, Ends
  <2>3. CASE /\ ~HeldByAnother(p)
             /\ Proceeds(p, "leased")
             /\ lease' = [owner |-> p, live |-> TRUE]
    <3>1. ASSUME NEW q \in Processes, proc[q] \in Starting PROVE q = p
      <4>1. lease = [owner |-> q, live |-> TRUE]
        BY <3>1 DEF Apart
      <4>2. lease.owner = q /\ lease.live /\ q # None
        BY <4>1
      <4>3. QED BY <2>3, <4>2 DEF HeldByAnother
    <3>2. Becomes(p, "leased") /\ astray' = astray
            /\ socket' = socket /\ descriptor' = descriptor
      BY <1>4, <2>3 DEF Acquire, Proceeds
    <3>3. QED BY <2>3, <3>1, <3>2, StartStaysApart
  <2>4. QED BY <1>4, <2>1, <2>2, <2>3 DEF Acquire
<1>5. CASE Quarantine(p)
  BY <1>5, OthersStayApart DEF Quarantine
<1>6. CASE Mark(p)
  BY <1>6, OthersStayApart DEF Mark
<1>7. CASE MoveAside(p)
  BY <1>7, OthersStayApart DEF MoveAside
<1>8. QED BY <1>1, <1>2, <1>3, <1>4, <1>5, <1>6, <1>7 DEF OpensDatabase

(* Steps on the socket keep processes apart: what was found stale cannot   *)
(* be replaced before it is unlinked.                                      *)
LEMMA SocketApart ==
  ASSUME HostTypeOK, Apart, NEW p \in Processes, OpensSocket(p)
  PROVE  Apart'
<1>1. CASE Look(p)
  <2>1. proc[p] \in Starting
    BY <1>1 DEF Look, Starting
  <2>2. /\ \E phase \in {"probing", "cleared"} : Becomes(p, phase)
        /\ astray' = astray /\ socket' = socket /\ descriptor' = descriptor
        /\ lease' = lease
    BY <1>1 DEF Look, DatabaseVars, SocketVars
  <2>3. QED BY <2>1, <2>2, OneStart, StartStaysApart
<1>2. CASE Probe(p)
  <2>1. CASE RollBack(p)
    BY <2>1, RollBackApart
  <2>2. CASE /\ FALSE \in Answers(socket)
             /\ Becomes(p, "stale")
             /\ UNCHANGED <<lease, DatabaseVars, SocketVars>>
    <3>1. proc[p] \in Starting /\ proc[p] = "probing"
      BY <1>2 DEF Probe, Starting
    <3>2. /\ proc'[p] = "stale"
          /\ \A q \in Processes : q # p => proc'[q] = proc[q]
      BY <2>2, Advanced DEF Phases, Starting
    <3>3. /\ lease = [owner |-> p, live |-> TRUE]
          /\ \A q \in Processes : proc[q] \in Starting => q = p
      BY <3>1, OneStart
    <3>4. \A q \in Processes : proc[q] # "running"
      BY <2>2 DEF Answers, Accepting, Apart
    <3>5. \A q \in Processes : proc'[q] \notin {"bound", "running"}
      BY <3>2, <3>3, <3>4 DEF Starting
    <3>6. \A q \in Processes : proc'[q] \in Starting => q = p
      BY <3>2, <3>3
    <3>7. UNCHANGED <<lease, astray, socket, descriptor>>
      BY <2>2 DEF DatabaseVars, SocketVars
    <3>8. QED BY <3>3, <3>5, <3>6, <3>7 DEF Apart
  <2>3. QED BY <1>2, <2>1, <2>2 DEF Probe
<1>3. CASE Unlink(p)
  <2>1. CASE RollBack(p)
    BY <2>1, RollBackApart
  <2>2. CASE /\ Becomes(p, "cleared")
             /\ UNCHANGED <<lease, DatabaseVars, descriptor>>
    <3>1. proc[p] \in Starting /\ proc[p] = "stale"
      BY <1>3 DEF Unlink, Starting
    <3>2. /\ proc'[p] = "cleared"
          /\ \A q \in Processes : q # p => proc'[q] = proc[q]
      BY <2>2, Advanced DEF Phases, Starting
    <3>3. /\ lease = [owner |-> p, live |-> TRUE]
          /\ \A q \in Processes : proc[q] \in Starting => q = p
      BY <3>1, OneStart
    <3>4. \A q \in Processes : proc'[q] \notin {"bound", "running"}
      BY <3>1, <3>2 DEF Apart
    <3>5. \A q \in Processes : /\ proc'[q] \in Starting => q = p
                               /\ proc'[q] # "stale"
      BY <3>2, <3>3 DEF Starting
    <3>6. UNCHANGED <<lease, astray>>
      BY <2>2 DEF DatabaseVars
    <3>7. QED BY <3>3, <3>4, <3>5, <3>6 DEF Apart
  <2>3. QED BY <1>3, <2>1, <2>2 DEF Unlink
<1>4. CASE Listen(p)
  <2>1. CASE RollBack(p)
    BY <2>1, RollBackApart
  <2>2. CASE /\ socket = None
             /\ Becomes(p, "bound")
             /\ socket' = p
             /\ UNCHANGED <<lease, DatabaseVars, descriptor>>
    <3>1. proc[p] \in Starting
      BY <1>4 DEF Listen, Starting
    <3>2. /\ proc'[p] = "bound"
          /\ \A q \in Processes : q # p => proc'[q] = proc[q]
      BY <2>2, Advanced DEF Phases, Starting
    <3>3. /\ lease = [owner |-> p, live |-> TRUE]
          /\ \A q \in Processes : proc[q] \in Starting => q = p
      BY <3>1, OneStart
    <3>4. \A q \in Processes : proc[q] \notin {"bound", "running"}
      BY <2>2 DEF Apart
    <3>5. \A q \in Processes : /\ proc'[q] \in Starting => q = p
                               /\ proc'[q] \in {"bound", "running"} => q = p
                               /\ proc'[q] \notin {"running", "stale"}
      BY <3>2, <3>3, <3>4 DEF Starting
    <3>6. UNCHANGED <<lease, astray>>
      BY <2>2 DEF DatabaseVars
    <3>7. QED BY <2>2, <3>3, <3>5, <3>6 DEF Apart
  <2>3. QED BY <1>4, <2>1, <2>2 DEF Listen
<1>5. CASE Serve(p)
  <2>1. proc[p] = "bound" /\ proc[p] \in Starting /\ socket = p /\ p # None
    BY <1>5 DEF Serve, Starting, Apart
  <2>2. /\ Becomes(p, "running") /\ descriptor' = p
        /\ UNCHANGED <<lease, astray, socket>>
    BY <1>5, <2>1 DEF Serve, Proceeds
  <2>3. /\ proc'[p] = "running"
        /\ \A q \in Processes : q # p => proc'[q] = proc[q]
    BY <2>2, Advanced DEF Phases
  <2>4. \A q \in Processes : proc[q] \in Starting => q = p
    BY <2>1, OneStart
  <2>5. \A q \in Processes : proc[q] \in {"bound", "running"} => q = p
    BY <2>1 DEF Apart
  <2>6. \A q \in Processes : /\ proc'[q] \notin Starting
                             /\ proc'[q] \in {"bound", "running"} => q = p
    BY <2>3, <2>4, <2>5 DEF Starting
  <2>7. \A q \in Processes : proc'[q] # "stale"
    BY <2>6 DEF Starting
  <2>8. QED BY <2>1, <2>2, <2>6, <2>7 DEF Apart
<1>6. QED BY <1>1, <1>2, <1>3, <1>4, <1>5 DEF OpensSocket

(* A running controller is the only one: it renews and closes its own. *)
LEMMA RunningApart ==
  ASSUME HostTypeOK, Apart, NEW p \in Processes,
         Renew(p) \/ Stop(p) \/ FailRenewal(p)
  PROVE  Apart'
<1>1. proc[p] = "running"
  BY DEF Renew, Stop, FailRenewal, Close
<1>2. \A q \in Processes : proc[q] \in {"bound", "running"} => q = p
  BY <1>1 DEF Apart
<1>3. CASE Renew(p)
  <2>1. UNCHANGED <<proc, lease, astray, socket>> /\ descriptor' = p
    BY <1>3 DEF Renew, DatabaseVars
  <2>2. \A q \in Processes : proc[q] = "running" => q = p
    BY <1>2
  <2>3. QED BY <2>1, <2>2 DEF Apart
<1>4. CASE Stop(p) \/ FailRenewal(p)
  <2>1. PICK phase \in {"stopping", "failing"} : Becomes(p, phase)
    BY <1>4 DEF Stop, FailRenewal, Close
  <2>2. UNCHANGED <<lease, astray, descriptor>>
    BY <1>4 DEF Stop, FailRenewal, Close, DatabaseVars
  <2>3. /\ proc'[p] = phase
        /\ \A q \in Processes : q # p => proc'[q] = proc[q]
    BY <2>1, Advanced DEF Phases
  <2>4. \A q \in Processes : proc'[q] \notin {"bound", "running"}
    BY <1>2, <2>3
  <2>5. \A q \in Processes : proc'[q] \in Starting => proc[q] \in Starting
    BY <2>3 DEF Starting
  <2>6. QED BY <2>2, <2>4, <2>5 DEF Apart
<1>5. QED BY <1>3, <1>4

(* So does every end of a process. *)
LEMMA EndingApart ==
  ASSUME HostTypeOK, Apart, NEW p \in Processes,
         Spawn(p) \/ EndStop(p) \/ RemoveDescriptor(p) \/ Crash(p)
  PROVE  Apart'
<1> USE DEF DatabaseVars, SocketVars, Phases, Starting, Ends
<1>1. CASE Spawn(p)
  BY <1>1, OthersStayApart DEF Spawn
<1>2. CASE EndStop(p)
  <2>1. /\ \E phase \in {"removing", "gone"} : Becomes(p, phase)
        /\ astray' \subseteq astray
        /\ lease' = lease \/ lease.owner = p
        /\ socket' = socket /\ descriptor' = descriptor
    BY <1>2 DEF EndStop, Proceeds, Released
  <2>2. QED BY <2>1, OthersStayApart
<1>3. CASE RemoveDescriptor(p)
  BY <1>3, OthersStayApart DEF RemoveDescriptor
<1>4. CASE Crash(p)
  BY <1>4, OthersStayApart DEF Crash
<1>5. QED BY <1>1, <1>2, <1>3, <1>4

(* Every step keeps processes apart as long as none has gone on unfenced. *)
LEMMA ApartStep ==
  ASSUME HostInv, [HostNext]_hostVars, ~unfenced'
  PROVE  Apart'
<1>1. HostTypeOK /\ (~unfenced => Apart)
  BY DEF HostInv
<1>2. ASSUME NEW p \in Processes, OpensDatabase(p) PROVE Apart'
  <2>1. ~unfenced
    BY <1>2 DEF OpensDatabase, CheckMarker, Open, Verify, Acquire, Quarantine,
       Mark, MoveAside, DatabaseVars
  <2>2. QED BY <1>1, <1>2, <2>1, DatabaseApart
<1>3. ASSUME NEW p \in Processes,
             \/ Spawn(p) \/ OpensSocket(p) \/ Renew(p) \/ Stop(p)
             \/ FailRenewal(p) \/ EndStop(p) \/ RemoveDescriptor(p) \/ Crash(p)
      PROVE  Apart'
  <2>1. unfenced' = unfenced
    BY <1>1, <1>3, ServiceStep
  <2>2. QED BY <1>1, <1>3, <2>1, SocketApart, RunningApart, EndingApart
<1>4. CASE Lapse
  <2>1. /\ ~unfenced
        /\ \A p \in Processes : p = lease.owner => proc[p] \notin Starting
        /\ UNCHANGED <<proc, astray, socket, descriptor>>
    BY <1>4 DEF Lapse, SocketVars
  <2>2. \A p \in Processes : proc[p] \notin Starting
    <3>1. ASSUME NEW p \in Processes, proc[p] \in Starting PROVE FALSE
      <4>1. lease = [owner |-> p, live |-> TRUE]
        BY <1>1, <2>1, <3>1 DEF Apart
      <4>2. lease.owner = p
        BY <4>1
      <4>3. QED BY <2>1, <3>1, <4>2
    <3>2. QED BY <3>1
  <2>3. QED BY <1>1, <2>1, <2>2 DEF Apart
<1>5. CASE ChangeIntegrity
  BY <1>1, <1>5 DEF ChangeIntegrity, SocketVars, Apart
<1>6. CASE UNCHANGED hostVars
  BY <1>1, <1>6 DEF hostVars, Apart
<1>7. QED
  BY <1>2, <1>3, <1>4, <1>5, <1>6 DEF HostNext, ProcessNext, Starts

-----------------------------------------------------------------------------
(* Every step keeps the marker where a database is set aside. *)
LEMMA QuarantinedStep ==
  HostTypeOK /\ Quarantined /\ [HostNext]_hostVars => Quarantined'
<1> SUFFICES ASSUME HostTypeOK, Quarantined, [HostNext]_hostVars
             PROVE  Quarantined'
  OBVIOUS
<1> USE DEF DatabaseVars, Phases, Starting
<1>1. ASSUME NEW p \in Processes, NEW phase \in Phases \ {"marked"},
             Becomes(p, phase), marker' = marker,
             database' = database \/ database' \in {"absent", "kept"} \/ marker
      PROVE  Quarantined'
  <2>1. \A q \in Processes : proc'[q] = "marked" => proc[q] = "marked"
    BY <1>1, Advanced
  <2>2. QED BY <1>1, <2>1 DEF Quarantined, QuarantineHolds
<1>2. ASSUME NEW p \in Processes, OpensDatabase(p) PROVE Quarantined'
  <2>1. CASE CheckMarker(p) BY <1>1, <2>1 DEF CheckMarker
  <2>2. CASE Open(p)
    <3>1. Becomes(p, "opened") /\ marker' = marker
            /\ (database' \in {"absent", "kept"} \/ marker)
      BY <2>2 DEF Open, Quarantined, QuarantineHolds, HostTypeOK
    <3>2. QED BY <1>1, <3>1
  <2>3. CASE Verify(p) BY <1>1, <2>3 DEF Verify
  <2>4. CASE Acquire(p)
    BY <1>1, <2>4 DEF Acquire, Ends, Proceeds
  <2>5. CASE Quarantine(p) BY <1>1, <2>5 DEF Quarantine
  <2>6. CASE Mark(p) BY <2>6 DEF Mark, Quarantined, QuarantineHolds
  <2>7. CASE MoveAside(p)
    <3>1. Becomes(p, "gone") /\ marker' = marker /\ marker
      BY <2>7 DEF MoveAside, Quarantined
    <3>2. QED BY <1>1, <3>1
  <2>8. QED BY <1>2, <2>1, <2>2, <2>3, <2>4, <2>5, <2>6, <2>7
            DEF OpensDatabase
<1>3. ASSUME NEW p \in Processes,
             \/ Spawn(p) \/ OpensSocket(p) \/ Renew(p) \/ Stop(p)
             \/ FailRenewal(p) \/ EndStop(p) \/ RemoveDescriptor(p) \/ Crash(p)
      PROVE  Quarantined'
  <2>1. /\ proc' = proc \/ \E phase \in Phases \ {"marked"} : Becomes(p, phase)
        /\ database' = database /\ marker' = marker
    BY <1>3, ServiceStep
  <2>2. CASE proc' = proc
    BY <2>1, <2>2 DEF Quarantined, QuarantineHolds
  <2>3. QED BY <1>1, <2>1, <2>2
<1>4. CASE Lapse \/ ChangeIntegrity \/ UNCHANGED hostVars
  BY <1>4 DEF Lapse, ChangeIntegrity, hostVars, Quarantined, QuarantineHolds
<1>5. QED BY <1>2, <1>3, <1>4 DEF HostNext, ProcessNext, Starts

-----------------------------------------------------------------------------
(* Every step keeps the invariant. *)
LEMMA HostStep == HostInv /\ [HostNext]_hostVars => HostInv'
BY HostTypeStep, ApartStep, QuarantinedStep DEF HostInv

(* What the lease keeps apart is so that a running process is reachable. *)
LEMMA ApartReachable == HostInv => RunningIsReachable
BY DEF HostInv, Apart, RunningIsReachable

(* The invariant behind the theorems below holds of every directory and    *)
(* its processes: while no start has gone on without its lease, one start   *)
(* at a time is between the lease and the service, the socket leads to the *)
(* process that bound it, and nothing is served while a stale socket is    *)
(* unlinked.                                                               *)
THEOREM HostInvariance == HostSpec => []HostInv
<1>1. QED BY HostInitInv, HostStep, PTL DEF HostSpec

(* As long as no start has gone on without its lease, a controller that    *)
(* runs is the one that the socket leads to, and no other runs, although   *)
(* probe and unlink, check and removal are steps of their own.             *)
THEOREM HostReachable == HostSpec => []RunningIsReachable
<1>1. QED BY ApartReachable, HostInvariance, PTL

(* Where a database was set aside, or a start that overlapped has created  *)
(* another one in its place, the marker is there.                          *)
THEOREM HostQuarantineHolds == HostSpec => []QuarantineHolds
<1>1. HostInv => QuarantineHolds
  BY DEF HostInv, Quarantined
<1>2. QED BY <1>1, HostInvariance, PTL
=============================================================================
