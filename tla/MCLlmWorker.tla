---------------------------- MODULE MCLlmWorker ----------------------------
(* Instances of LlmWorker for TLC.                                           *)
EXTENDS LlmWorker, TLC

=============================================================================
