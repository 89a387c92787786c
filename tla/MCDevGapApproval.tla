-------------------------- MODULE MCDevGapApproval --------------------------
(***************************************************************************)
(* Small instances of DevGapApproval: one head, and two pull requests of   *)
(* the same number in two repositories.                                    *)
(***************************************************************************)
EXTENDS DevGapRefinement, TLC

FirstHead  == [repo |-> "navigator", pr |-> 1, head |-> "h1"]
OtherRepo  == [repo |-> "landing", pr |-> 1, head |-> "h2"]

OneHead   == {FirstHead}
TwoRepos  == {FirstHead, OtherRepo}
=============================================================================
