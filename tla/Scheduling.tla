------------------------------ MODULE Scheduling ------------------------------
(***************************************************************************)
(* What one orchestration tick decides, as pure functions of the aggregate *)
(* it loaded: the coarse status of a story, dependency-aware scheduling    *)
(* under the story-concurrency cap, the plan in its deterministic order    *)
(* and the reservation of run-level agent slots for launch actions.        *)
(*                                                                         *)
(* An action is a record of its type and its story; the stories of a run   *)
(* are a sequence without repetition.  The snapshot lists them by their    *)
(* ids, so a story may come before one that it depends on.                 *)
(***************************************************************************)
EXTENDS Naturals, Sequences, FiniteSets

CONSTANTS StoryOrder,    \* the stories of the run, in snapshot order
          Dependencies,  \* the stories each story waits for
          MaxAgents      \* maximumAgents of the run's complexity mode

Elements(q) == {q[i] : i \in 1 .. Len(q)}

Story        == Elements(StoryOrder)
PrimaryStory == StoryOrder[1]

\* In production 4, 8 or 16; the story cap below presumes at least one.
ASSUME MaxAgentsAssumption  == MaxAgents \in Nat \ {0}
ASSUME StoryAssumption      ==
  /\ StoryOrder \in Seq(Story) /\ Len(StoryOrder) > 0
  /\ \A i, j \in 1 .. Len(StoryOrder) : StoryOrder[i] = StoryOrder[j] => i = j
ASSUME DependencyAssumption == Dependencies \in [Story -> SUBSET Story]

TeamAction   == {"assign-project-manager", "assign-advisor"}
LaunchAction == TeamAction \cup {"assign-story", "assign-reviewer"}
ActionType   == LaunchAction \cup {"request-merge", "request-cleanup",
                                   "complete-run"}

Action == [type : ActionType, story : Story]

\* The elements of q that are in S, in their order: up to each place of q,
\* and all of them.
SelectedUpTo(q, S) ==
  LET f[n \in 0 .. Len(q)] ==
        IF n = 0 THEN <<>>
        ELSE IF q[n] \in S THEN Append(f[n - 1], q[n]) ELSE f[n - 1]
  IN  f

Selected(q, S) == SelectedUpTo(q, S)[Len(q)]

Smaller(m, n)   == IF m < n THEN m ELSE n
Remaining(m, n) == IF m > n THEN m - n ELSE 0
Take(q, n)      == SubSeq(q, 1, Smaller(Len(q), n))

SchedulingStatus(status) ==
  CASE status = "merged"                        -> "done"
    [] status \in {"failed", "blocked"}         -> "failed"
    [] status \in {"ready", "changes-requested"} -> "pending"
    [] OTHER                                    -> "running"

\* Room is kept for the Project Manager and one reviewer.
StoryConcurrencyCap == IF MaxAgents > 3 THEN MaxAgents - 2 ELSE 1

\* Mutant: a dependency only has to be under way, not done.
ReadyUnfinishedDependency(status, s) ==
  /\ SchedulingStatus(status[s]) = "pending"
  /\ \A d \in Dependencies[s] : SchedulingStatus(status[d]) # "pending"

Ready(status, s) ==
  /\ SchedulingStatus(status[s]) = "pending"
  /\ \A d \in Dependencies[s] : SchedulingStatus(status[d]) = "done"

\* scheduleStories: the ready stories in order, as many as the cap has room.
Startable(status) ==
  LET running == {s \in Story : SchedulingStatus(status[s]) = "running"}
      ready   == Selected(StoryOrder, {s \in Story : Ready(status, s)})
  IN  Take(ready, Remaining(StoryConcurrencyCap, Cardinality(running)))

Actions(type, stories) ==
  [i \in 1 .. Len(stories) |-> [type |-> type, story |-> stories[i]]]

\* reserveAgentLaunchCapacity: launches are admitted in order while slots
\* remain, anything else always is.
ReserveAgentLaunchCapacity(actions, occupied) ==
  LET launches == Selected(actions, [type : LaunchAction, story : Story])
      admitted == Elements(Take(launches, Remaining(MaxAgents, occupied)))
  IN  Selected(actions,
               {x \in Action : x.type \in LaunchAction => x \in admitted})

\* planOrchestration over projections of the stories (projectStory), with
\* nothing counted as occupied: the loop reserves slots once more itself.
PlanOrchestration(projection) ==
  LET Where(stories) == Selected(StoryOrder, stories)
      Seen(s) == projection[s]
      status  == [s \in Story |-> Seen(s).status]
      plan ==
        Actions("request-cleanup",
                Where({s \in Story : Seen(s).status = "merged"
                                       /\ ~Seen(s).workspaceCleaned}))
        \o Actions("request-merge",
                   Where({s \in Story : Seen(s).status = "approved"
                                          /\ Seen(s).reviewerClosed}))
        \o Actions("assign-reviewer",
                   Where({s \in Story : Seen(s).status = "awaiting-review"
                                          /\ ~Seen(s).reviewerAssigned}))
        \o Actions("assign-story", Startable(status))
        \o Actions("complete-run",
                   IF \A s \in Story : status[s] = "merged"
                     THEN <<PrimaryStory>> ELSE <<>>)
  IN  ReserveAgentLaunchCapacity(plan, 0)
=============================================================================
