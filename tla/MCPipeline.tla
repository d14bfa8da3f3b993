----------------------------- MODULE MCPipeline -----------------------------
(***************************************************************************)
(* Instances of Pipeline for TLC. Jobs and downloads share nothing but the  *)
(* batches of the lambda, which OutputHandler's own runs fill; a behaviour  *)
(* of this module is about one of them, so that the states are the sum of   *)
(* those of a transcription, an LLM job and a failed download.              *)
(***************************************************************************)
EXTENDS Pipeline

Begun ==
    {j \in Jobs : qstate[j] # "unsent"} \cup
    {d \in Downloads : queue[DownloadFailure(d)] # "unsent"}

OneAtMost == Cardinality(Begun) <= 1

OneByOneNext == PipelineNext /\ OneAtMost'

OneByOneSpec == PipelineInit /\ [][OneByOneNext]_pipelineVars

=============================================================================
