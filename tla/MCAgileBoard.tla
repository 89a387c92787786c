---------------------------- MODULE MCAgileBoard ----------------------------
(* The instance TLC checks: one window of the board. *)
EXTENDS AgileBoard

MCTitles == {<<"login", 1>>, <<"login", 2>>}
MCRoleOf == [m \in Members |-> "backend"]
=============================================================================
