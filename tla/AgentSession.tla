----------------------------- MODULE AgentSession -----------------------------
(***************************************************************************)
(* What pane restoration promises of an agent's Pi session: a process of   *)
(* the session runs nowhere but in the agent's home pane, and the home is  *)
(* given to another pane only once no process of the session is left.      *)
(***************************************************************************)

CONSTANTS Agents, Panes, None

VARIABLES home, live      \* per agent: its home pane, and where Pi processes run

vars == <<home, live>>

Init ==
  /\ home = [a \in Agents |-> None]
  /\ live = [a \in Agents |-> {}]

Settle(a) ==
  /\ home[a] = None
  /\ \E p \in Panes : home' = [home EXCEPT ![a] = p]
  /\ UNCHANGED live

Start(a) ==
  /\ home[a] # None
  /\ live' = [live EXCEPT ![a] = {home[a]}]
  /\ UNCHANGED home

Stop(a) ==
  /\ live' = [live EXCEPT ![a] = {}]
  /\ UNCHANGED home

Move(a) ==
  /\ home[a] # None
  /\ live[a] = {}
  /\ \E p \in Panes : home' = [home EXCEPT ![a] = p]
  /\ UNCHANGED live

Next == \E a \in Agents : Settle(a) \/ Start(a) \/ Stop(a) \/ Move(a)

Spec == Init /\ [][Next]_vars
=============================================================================
