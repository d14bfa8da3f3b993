----------------------------- MODULE MCServices -----------------------------
(***************************************************************************)
(* Instances of five services outside the worker's loop for TLC:           *)
(* MediaDownload, WebpageSnapshot, Submission, CapacityManager and         *)
(* OutputHandler. They share no state, so a behaviour of this module is a  *)
(* behaviour of one of them, with the variables of the others as they      *)
(* begin: the states are the sum of theirs and not the product.            *)
(***************************************************************************)
EXTENDS MediaDownload, WebpageSnapshot, Submission, CapacityManager, OutputHandler

Out(j, n, k) == [job |-> j, att |-> n, kind |-> k]

\* For the output handler, a record that does not parse beside two that do.
WithInvalid ==
    {Out("a", 1, "SUCCESS"), Out("b", 3, "TRANSCRIPTION_FAILURE"), Out("c", 1, "invalid")}

VARIABLE service

servicesVars ==
    <<service, mediaVars, snapshotVars, submissionVars, capacityVars, vars>>

ServicesInit ==
    /\ service \in {"media", "snapshot", "submission", "capacity", "output"}
    /\ MediaInit /\ SnapshotInit /\ SubmissionInit /\ CapacityInit /\ Init

ServicesNext ==
    \/ /\ service = "media" /\ MediaNext
       /\ UNCHANGED <<service, snapshotVars, submissionVars, capacityVars, vars>>
    \/ /\ service = "snapshot" /\ SnapshotNext
       /\ UNCHANGED <<service, mediaVars, submissionVars, capacityVars, vars>>
    \/ /\ service = "submission" /\ SubmissionNext
       /\ UNCHANGED <<service, mediaVars, snapshotVars, capacityVars, vars>>
    \/ /\ service = "capacity" /\ CapacityNext
       /\ UNCHANGED <<service, mediaVars, snapshotVars, submissionVars, vars>>
    \/ /\ service = "output" /\ Next
       /\ UNCHANGED <<service, mediaVars, snapshotVars, submissionVars, capacityVars>>

\* The fairness of each module, in the behaviours of that service.
ServicesFairness ==
    /\ \A n \in Submits : WF_submissionVars(service = "submission" /\ HandlerStep(n))
    /\ WF_capacityVars(service = "capacity" /\ GroupScales)
    /\ \A j \in Work : WF_capacityVars(service = "capacity" /\ Progress(j))
    /\ \A r \in CapacityRuns : WF_capacityVars(service = "capacity" /\ ManagerStep(r))
    /\ \A i \in Invocations : WF_vars(service = "output" /\ (Step(i) \/ Crash(i)))
    /\ \A o \in Messages :
          /\ WF_vars(service = "output" /\ VisibilityExpires(o))
          /\ SF_vars(/\ service = "output" /\ queue[o] = "visible"
                     /\ \E i \in Invocations, S \in SUBSET Messages : o \in S /\ Deliver(i, S))

ServicesSpec == ServicesInit /\ [][ServicesNext]_servicesVars /\ ServicesFairness

\* The types of all five.
ServicesTypeOK ==
    /\ MediaTypeOK /\ SnapshotTypeOK /\ SubmissionTypeOK
    /\ CapacityTypeOK /\ TypeOK

=============================================================================
