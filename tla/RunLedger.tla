------------------------------ MODULE RunLedger ------------------------------
(***************************************************************************)
(* What the controller repository promises about one run, with no clock,   *)
(* no expiry and no work in flight left: the run is a ledger of commands.  *)
(* Only the controller in authority appends, and no idempotency key enters *)
(* the ledger twice.  A command is computed from all that the run holds,   *)
(* or it is a tick that is written over what the same reign has appended   *)
(* since the tick looked.  Authority is given up, or it passes to a        *)
(* controller together with a fencing token never used before.             *)
(***************************************************************************)
EXTENDS Naturals, Sequences

CONSTANTS Owner,    \* owner ids of controller processes
          NoOwner,  \* the owner of a lease nobody holds
          Key,      \* idempotency keys
          TickKey,  \* those of the ticks of the orchestration loop
          Request   \* request contents, as far as their hash tells them apart

VARIABLES ledger,    \* the committed commands, oldest first
          authority  \* who may append, and under which fencing token

vars == <<ledger, authority>>

Keys(log) == {log[i].key : i \in 1 .. Len(log)}

\* The commands whose effect the run holds after the n-th commit.
Aggregate(log, n) == IF n = 0 THEN {} ELSE log[n].view \cup {log[n].key}

Init ==
  /\ ledger = <<>>
  /\ authority = [owner |-> NoOwner, token |-> 0]

Enter(k, r, base, view) ==
  /\ authority.owner # NoOwner
  /\ k \notin Keys(ledger)
  /\ ledger' = Append(ledger, [key |-> k, request |-> r, base |-> base,
                               view |-> view, owner |-> authority.owner,
                               token |-> authority.token])
  /\ UNCHANGED authority

Commit(k, r) == Enter(k, r, Len(ledger), Aggregate(ledger, Len(ledger)))

\* A tick that looked at commit n keeps what was there, and any part of what
\* its own reign has committed since.
Overwrite(k, r, n) ==
  /\ \A i \in n + 1 .. Len(ledger) : ledger[i].token = authority.token
  /\ \E kept \in SUBSET Aggregate(ledger, Len(ledger)) :
       Enter(k, r, n, Aggregate(ledger, n) \cup kept)

\* (The inequality spares TLC the rest on all the steps in between.)
Write ==
  /\ ledger' # ledger
  /\ \E r \in Request :
       \/ \E k \in Key : Commit(k, r)
       \/ \E k \in TickKey, n \in 1 .. Len(ledger) : Overwrite(k, r, n)

PassAuthority(o) ==
  /\ authority' = [owner |-> o, token |-> authority.token + 1]
  /\ UNCHANGED ledger

GiveUpAuthority ==
  /\ authority' = [authority EXCEPT !.owner = NoOwner]
  /\ UNCHANGED ledger

Next ==
  \/ Write
  \/ \E o \in Owner : PassAuthority(o)
  \/ GiveUpAuthority

Spec == Init /\ [][Next]_vars
=============================================================================
