----------------------------- MODULE Integration -----------------------------
(***************************************************************************)
(* What delivery promises about the integration branch, whatever happens   *)
(* between the review of a candidate and its merge: a candidate is         *)
(* approved against the head the branch has at that moment, and the branch *)
(* only ever grows, one reviewed candidate at a time, each merged onto     *)
(* exactly the head it was reviewed against and each story at most once.   *)
(***************************************************************************)
EXTENDS Naturals, Sequences

CONSTANT Story   \* the stories of the run

VARIABLES
  approvals,   \* reviews that approved: story, candidate and reviewed head
  mainline     \* the merges on the integration branch, oldest first

Review == [story : Story, candidate : Nat, base : Nat]

IntegrationHead == Len(mainline)

Init == approvals = {} /\ mainline = <<>>

Approve(r) ==
  /\ r \in Review /\ r.candidate > 0 /\ r.base = IntegrationHead
  /\ approvals' = approvals \cup {r}
  /\ UNCHANGED mainline

Merge(r) ==
  /\ r \in approvals
  /\ r.base = IntegrationHead
  /\ \A i \in 1 .. IntegrationHead : mainline[i].story # r.story
  /\ mainline' = Append(mainline, r)
  /\ UNCHANGED approvals

Next ==
  \/ \E r \in approvals' : Approve(r)
  \/ \E r \in approvals : Merge(r)

Spec == Init /\ [][Next]_<<approvals, mainline>>
=============================================================================
