--------------------------- MODULE MCWorkerFleet ---------------------------
(* Instances of WorkerFleet for TLC.                                         *)
EXTENDS WorkerFleet, TLC

\* Workers are interchangeable in every action and every safety property.
WorkerSymmetry == Permutations(Workers)

\* A behaviour with one worker is about one of the jobs, so that the states are the
\* sum of those of a transcription and of an LLM job; FairSpec lets a job wait for
\* ever to be sent.
NothingSent == \A j \in Jobs : qstate[j] = "unsent"

OneByOneNext ==
    \/ \E j \in Jobs : Send(j) /\ NothingSent
    \/ \E j \in Jobs : VisibilityExpires(j) \/ Redrive(j)
    \/ \E w \in Workers : WorkerStep(w)

OneByOneSpec == Init /\ [][OneByOneNext]_vars /\ Fairness /\ LeftAlone

=============================================================================
