\* Three faults anywhere: both panes lost and a crash during the restoration.
\* The panes run out of numbers in no state: two rows, two open panes and a
\* dying process at most.  What is left after the faults may be stuck for good.
SPECIFICATION Spec

CONSTANTS
  Agents <- MCAgents
  Finishing = {2}
  MaxPanes = 5
  MaxFaults = 3
  None = None

INVARIANTS
  TypeOK
  SlotsUnique
  RestoredInPlace

PROPERTIES
  ImplementsAgentSession
  RestorationFinishes

CHECK_DEADLOCK FALSE
