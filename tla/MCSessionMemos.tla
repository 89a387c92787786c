--------------------------- MODULE MCSessionMemos ---------------------------
(* The instance TLC checks.  Sessions and texts are interchangeable. *)
EXTENDS SessionMemos, TLC

Symmetry == Permutations(Sessions) \cup Permutations(Texts)
=============================================================================
