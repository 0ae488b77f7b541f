--------------------------- MODULE MC_Orchestration ---------------------------
(* The instances of the orchestration runs: one or two stories, dependent   *)
(* or not, and the team the run asks for.                                   *)
EXTENDS Orchestration

CONSTANTS s1, s2

OneStory == <<s1>>
TwoStories == <<s1, s2>>

NoDependency  == [s \in Story |-> {}]
OneAfterOther == [s \in Story |-> IF s = s2 THEN {s1} ELSE {}]

NoTeam      == <<>>
AdvisorOnly == <<"assign-advisor">>
WholeTeam   == <<"assign-project-manager", "assign-advisor">>
=============================================================================
