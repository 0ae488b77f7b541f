---------------------------- MODULE MC_ParentSession ----------------------------
(* The instance of ParentSession for TLC. *)
EXTENDS ParentSession, TLC

\* One Pi session launches the run, the other one asks for its status and
\* controls it.
MCAsks == (1 :> {"launch"}) @@ (2 :> {"status","pause","resume"})
=============================================================================
