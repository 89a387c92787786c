-------------------------- MODULE MCTeamMembership --------------------------
(* The instance TLC checks: two users, two teams, one invite, and two      *)
(* requests in flight, of one user or of both.                             *)
EXTENDS TeamMembership

MCUsers == 1 .. 2
MCRoles == {"pm", "engineer"}
=============================================================================
