----------------------- MODULE MC_ControllerRepository -----------------------
(* Two controller processes, in turn or at once, whose lease lasts two      *)
(* clock units: the initialization, one command with two request bodies and *)
(* one tick.                                                                *)
EXTENDS ControllerRepository, TLC

CONSTANTS o1, o2, init, k1, t1, r1, r2

MCOwner    == {o1, o2}
MCTickKey  == {t1}
MCKey      == {init, k1, t1}
MCRequest  == {r1, r2}

\* Owners are interchangeable; the run checks no liveness, so the reduction is
\* sound.
MCOwnersAlike == Permutations(MCOwner)
=============================================================================
