------------------------- MODULE MCAnalysisPipeline -------------------------
(* The instance TLC checks: two requirements of two contents. *)
EXTENDS AnalysisPipeline
=============================================================================
