-------------------------- MODULE MCAnalysisResults --------------------------
(***************************************************************************)
(* AnalysisResults with three analyses and room for two: a third store     *)
(* drops one, and which one depends on the order the tasks finish in.  One *)
(* request waits for the graph meanwhile; an attempt is retried once.      *)
(***************************************************************************)
EXTENDS AnalysisResults
==============================================================================
