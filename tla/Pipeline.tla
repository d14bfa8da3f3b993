------------------------------ MODULE Pipeline ------------------------------
(***************************************************************************)
(* A job from the task queue to its user's mailbox: the worker fleet and    *)
(* the output handler, joined by the output queue of transcription-         *)
(* service.ts. What a worker publishes is, in the same await, a message the *)
(* lambda may be given; nothing flows back. The jobs are those whose        *)
(* transcriptDestinationService is this service; Giant has a queue of its   *)
(* own.                                                                     *)
(***************************************************************************)
EXTENDS WorkerFleet

CONSTANTS
    Downloads,     \* ids of transcripts whose media download fails
    Invocations,   \* concurrent executions of the output handler
    NoMessage,     \* stands for "no message"
    BatchSize,     \* records of one invocation, at most
    MaxDeliveries, \* how often an output message is delivered within its retention
    HandlerFaults  \* the kinds of faults around the output handler

VARIABLES
    queue,      \* [Messages -> where the output message is]
    deliveries, \* [Messages -> how often it was delivered]
    lambda,     \* [Invocations -> the await the invocation is at]
    batch,      \* [Invocations -> its records]
    left,       \* [Invocations -> the records it has not begun]
    at,         \* [Invocations -> the record it is handling]
    item,       \* [ids -> what the table has]
    emails,     \* [Messages -> emails sent for it]
    metrics     \* failures that were counted, with the message being handled

handlerVars == <<queue, deliveries, lambda, batch, left, at, item, emails, metrics>>
pipelineVars == <<vars, handlerVars>>

\* The status a worker gives the output it publishes. Without audio, with bad
\* media and after the last failure the user of a transcription is told the same;
\* an LLM job has none of the first two.
StatusOf(o) ==
    IF o.job \in LlmJobs
      THEN IF o.kind = "success" THEN "LLM_SUCCESS" ELSE "LLM_FAILURE"
      ELSE IF o.kind = "success" THEN "SUCCESS" ELSE "TRANSCRIPTION_FAILURE"

\* The message on the output queue. Its body does not name the receive; SQS tells
\* apart two messages that read the same.
MessageOf(o) == [job |-> o.job, att |-> o.att, kind |-> StatusOf(o)]

\* What the media download service says of a transcript whose download failed.
DownloadFailure(d) == [job |-> d, att |-> 1, kind |-> "MEDIA_DOWNLOAD_FAILURE"]

Messages == {MessageOf(o) : o \in Outputs} \cup {DownloadFailure(d) : d \in Downloads}

Handler == INSTANCE OutputHandler WITH
    Jobs <- Jobs \cup Downloads, Faults <- HandlerFaults, pc <- lambda

ASSUME PipelineAssumption ==
    /\ NoMessage \notin Messages
    /\ IsFiniteSet(Invocations)
    /\ BatchSize \in Nat \ {0} /\ MaxDeliveries \in Nat
    /\ HandlerFaults \subseteq Handler!FaultKinds

PipelineInit == Init /\ Handler!Init

\* A step of SQS, of the group or of a worker, and the message it publishes.
FleetStep ==
    /\ Next
    /\ LET published == {MessageOf(o) : o \in outputs' \ outputs}
       IN  queue' = [m \in Messages |-> IF m \in published THEN "visible" ELSE queue[m]]
    /\ UNCHANGED <<deliveries, lambda, batch, left, at, item, emails, metrics>>

\* A step of the output queue, of the handler or of a media download.
HandlerStep ==
    /\ \/ \E d \in Downloads : Handler!Send(DownloadFailure(d))
       \/ \E m \in Messages : Handler!VisibilityExpires(m)
       \/ \E l \in Invocations :
             \/ Handler!Step(l) \/ Handler!Crash(l)
             \/ \E S \in SUBSET {m \in Messages : queue[m] # "unsent"} : Handler!Deliver(l, S)
    /\ UNCHANGED vars

PipelineNext == FleetStep \/ HandlerStep

PipelineSpec == PipelineInit /\ [][PipelineNext]_pipelineVars

----------------------------------------------------------------------------
(* Properties.                                                              *)

\* What became of an output message: it still waits for the lambda, its user was
\* told by email or by the item the prompt page reads, or a failure was counted.
Arrives(m) ==
    \/ queue[m] \in {"visible", "inflight"}
    \/ Handler!Told(m) \/ Handler!Counted(m)

\* From the API's message to the user's mailbox no job vanishes: whatever was said of
\* it is on its way, told or counted, and once it is off the task queue and in no
\* worker's hands something was said. It can only be silenced by SQS, where sending
\* the output fails or the visibility of the last receive runs out. (Without lost
\* worker processes, and whatever happens to the lambda's.)
EveryEndIsHeard ==
    /\ \A o \in outputs : Arrives(MessageOf(o))
    /\ SilenceIsExplained

\* What users are told happened: a success email, or an LLM item with an output,
\* only for a result that a worker uploaded, and a failure only when no worker
\* will be given the job again or its media cannot be transcribed.
UsersAreToldTheTruth ==
    /\ \A o \in Outputs :
          LET m == MessageOf(o)
              r == [job |-> o.job, att |-> o.att]
          IN  /\ m.kind = "SUCCESS" /\ emails[m] > 0 =>
                    r \in uploaded /\ item[o.job] = "transcript"
              /\ m.kind = "TRANSCRIPTION_FAILURE" /\ emails[m] > 0 =>
                    \/ o.att = MaxReceive \/ r \in parked
                    \/ [job |-> o.job, att |-> o.att, kind |-> "noAudio"] \in outputs
    /\ \A j \in LlmJobs :
          /\ item[j] = "llmSuccess" => \E r \in uploaded : r.job = j
          /\ item[j] = "llmFailure" => recv[j] = MaxReceive

\* A user gets a second email about one job, the same or a contradicting one, only
\* if the job's visibility ran out under a worker or SQS delivered an output message
\* twice: neither retries of the worker nor failures beside the record repeat one.
SecondEmailsNeedARepeat ==
    LET emailed == {o \in Outputs : emails[MessageOf(o)] > 0}
    IN  \A o, p \in emailed :
            /\ emails[MessageOf(o)] > 1 => deliveries[MessageOf(o)] > 1
            /\ o.job = p.job /\ o.att < p.att => [job |-> o.job, att |-> o.att] \in expired

=============================================================================
