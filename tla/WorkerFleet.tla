---------------------------- MODULE WorkerFleet ----------------------------
(***************************************************************************)
(* The GPU workers of packages/worker, the SQS FIFO task queue they poll    *)
(* and the auto scaling group that starts, protects and removes them.       *)
(* One action is one stretch of code between two awaits: what the stretch   *)
(* does to the queues, to the group and to the process' own state happens   *)
(* at once, and anything may happen before the next one.                    *)
(***************************************************************************)
EXTENDS Integers, FiniteSets

CONSTANTS
    Workers,     \* instances of the auto scaling group
    Jobs,        \* messages of the task queue
    LlmJobs,     \* the jobs of type 'llm' or 'llm-translation'
    BadJobs,     \* the messages that are not a valid WorkerJob
    NoJob,       \* stands for "no message"
    MaxReceive,  \* MAX_RECEIVE_COUNT, also the redrive policy's maxReceiveCount
    Faults       \* the kinds of faults the environment may produce

FaultKinds ==
    { "crash",      \* an exception nobody catches ends the process
      "work",       \* a download, ffmpeg, whisperx, LLM call or upload fails
      "send",       \* an SQS SendMessage fails
      "delete",     \* an SQS DeleteMessage fails
      "visibility", \* an SQS ChangeMessageVisibility fails
      "receive",    \* the answer to an SQS ReceiveMessage is lost
      "overrun",    \* a message's visibility runs out while it is worked on
      "scaleIn",    \* the group picks an instance to scale in
      "artifact",   \* a new worker artifact is deployed
      "spot" }      \* EC2 takes a spot instance back

ASSUME ConstantsAssumption ==
    /\ NoJob \notin Jobs
    /\ LlmJobs \subseteq Jobs
    /\ BadJobs \subseteq Jobs
    /\ MaxReceive \in Nat \ {0}
    /\ Faults \subseteq FaultKinds

VARIABLES
    qstate,       \* [Jobs -> where the message is]
    recv,         \* [Jobs -> its ApproximateReceiveCount]
    vis,          \* [Jobs -> who set the visibility timeout that is running]
    parked,       \* receipts whose message was copied to the dead letter queue
    outputs,      \* what was put on the destination queues
    muted,        \* receipts whose output message could not be sent
    uploaded,     \* receipts whose result was put at combinedOutputUrl
    expired,      \* receipts whose visibility ran out (history only)
    pc,           \* [Workers -> the await the process is at]
    task,         \* [Workers -> the receipt being worked on]
    handle,       \* [Workers -> CURRENT_MESSAGE_RECEIPT_HANDLE]
    interruption, \* [Workers -> whether INTERRUPTION_TIME is set]
    captured,     \* [Workers -> the interruptionTime argument of the job]
    protected,    \* [Workers -> ProtectedFromScaleIn]
    lifecycle,    \* [Workers -> LifecycleState]
    spot          \* [Workers -> how near the spot termination is]

queueVars == <<qstate, recv, vis, parked, expired>>
resultVars == <<outputs, muted, uploaded>>
processVars == <<pc, task, handle, interruption, captured>>
groupVars == <<protected, lifecycle, spot>>
vars == <<queueVars, resultVars, processVars, groupVars>>

(***************************************************************************)
(* A receipt handle names a message and the receive that returned it.       *)
(***************************************************************************)
Receipts == [job : Jobs, att : 1..MaxReceive]
NoTask == [job |-> NoJob, att |-> 0]

OutputKinds == {"success", "noAudio", "badMedia", "failure"}
Outputs == [job : Jobs, att : 1..MaxReceive, kind : OutputKinds]

\* Mutant of Current: a handle that names the message and not the receive.
CurrentMessage(r) == r.job \in Jobs /\ qstate[r.job] = "inflight"

\* The receipt handle is the one SQS accepts: the message is in flight and has
\* not been received again since.
Current(r) ==
    /\ r.job \in Jobs
    /\ qstate[r.job] = "inflight"
    /\ recv[r.job] = r.att

\* The awaits with a message in hand, up to the end of the try block.
Working == {"read", "download", "ffmpeg", "park", "parkDelete", "badMedia",
            "noAudio", "noAudioDelete", "extend", "transcribe", "llm",
            "upload", "publish", "delete", "backoff", "failure"}
Releasing == {"release", "releaseThrow"}
Polling == {"loop", "lifecycle", "protect", "receive"}
Running == Polling \cup Working \cup Releasing \cup {"returned"}
Stopped == {"off", "down", "exited"}

----------------------------------------------------------------------------
Init ==
    /\ qstate = [j \in Jobs |-> "unsent"]
    /\ recv = [j \in Jobs |-> 0]
    /\ vis = [j \in Jobs |-> "default"]
    /\ parked = {} /\ outputs = {} /\ muted = {} /\ uploaded = {} /\ expired = {}
    /\ pc = [w \in Workers |-> "off"]
    /\ task = [w \in Workers |-> NoTask]
    /\ handle = [w \in Workers |-> NoTask]
    /\ interruption = [w \in Workers |-> FALSE]
    /\ captured = [w \in Workers |-> FALSE]
    /\ protected = [w \in Workers |-> FALSE]
    /\ lifecycle = [w \in Workers |-> "gone"]
    /\ spot = [w \in Workers |-> "none"]

----------------------------------------------------------------------------
(* The task queue (SQS FIFO, redrive policy of transcription-service.ts).   *)

\* The API, or Giant, sends the job.
Send(j) ==
    /\ qstate[j] = "unsent"
    /\ qstate' = [qstate EXCEPT ![j] = "visible"]
    /\ UNCHANGED <<recv, vis, parked, expired, resultVars, processVars, groupVars>>

\* A receipt somebody still works on; its visibility should outlast the work.
InUse(r) == \E w \in Workers : task[w] = r /\ pc[w] \in Working

VisibilityExpires(j) ==
    /\ qstate[j] = "inflight"
    /\ InUse([job |-> j, att |-> recv[j]]) => "overrun" \in Faults
    /\ qstate' = [qstate EXCEPT ![j] = "visible"]
    /\ vis' = [vis EXCEPT ![j] = "default"]
    /\ expired' = expired \cup {[job |-> j, att |-> recv[j]]}
    /\ UNCHANGED <<recv, parked, resultVars, processVars, groupVars>>

\* A message received maxReceiveCount times goes to the dead letter queue
\* instead of being received once more.
Redrive(j) ==
    /\ qstate[j] = "visible"
    /\ recv[j] = MaxReceive
    /\ qstate' = [qstate EXCEPT ![j] = "dead"]
    /\ UNCHANGED <<recv, vis, parked, expired, resultVars, processVars, groupVars>>

\* Mutant of Receivable: no redrive policy on the queue.
ReceivableForEver(j) == qstate[j] = "visible"

Receivable(j) == qstate[j] = "visible" /\ recv[j] < MaxReceive

\* What SQS does to a message it hands out (VisibilityTimeout: 300).
HandOut(j) ==
    /\ Receivable(j)
    /\ qstate' = [qstate EXCEPT ![j] = "inflight"]
    /\ recv' = [recv EXCEPT ![j] = @ + 1]
    /\ vis' = [vis EXCEPT ![j] = "default"]

----------------------------------------------------------------------------
(* The instance: auto scaling group, EC2 and systemd.                       *)

Boot(w) ==
    /\ task' = [task EXCEPT ![w] = NoTask]
    /\ handle' = [handle EXCEPT ![w] = NoTask]
    /\ interruption' = [interruption EXCEPT ![w] = FALSE]
    /\ captured' = [captured EXCEPT ![w] = FALSE]

Launch(w) ==
    /\ lifecycle[w] = "gone"
    /\ lifecycle' = [lifecycle EXCEPT ![w] = "pending"]
    /\ UNCHANGED <<queueVars, resultVars, processVars, protected, spot>>

EnterService(w) ==
    /\ lifecycle[w] = "pending"
    /\ lifecycle' = [lifecycle EXCEPT ![w] = "inService"]
    /\ UNCHANGED <<queueVars, resultVars, processVars, protected, spot>>

\* The service starts at boot, and again after a failure
\* (Restart=on-failure); index.ts' module variables start undefined.
Start(w) ==
    /\ pc[w] \in {"off", "down"}
    /\ lifecycle[w] # "gone"
    /\ pc' = [pc EXCEPT ![w] = "loop"]
    /\ Boot(w)
    /\ UNCHANGED <<queueVars, resultVars, groupVars>>

\* Scale-in takes any unprotected instance in service.
ScaleIn(w) ==
    /\ "scaleIn" \in Faults
    /\ lifecycle[w] = "inService" /\ ~protected[w]
    /\ lifecycle' = [lifecycle EXCEPT ![w] = "terminating"]
    /\ UNCHANGED <<queueVars, resultVars, processVars, protected, spot>>

\* EC2 announces that it takes the instance back in two minutes ...
SpotScheduled(w) ==
    /\ "spot" \in Faults
    /\ lifecycle[w] \in {"pending", "inService"} /\ spot[w] = "none"
    /\ spot' = [spot EXCEPT ![w] = "scheduled"]
    /\ UNCHANGED <<queueVars, resultVars, processVars, protected, lifecycle>>

\* ... and less than twenty seconds are left.
SpotImminent(w) ==
    /\ spot[w] = "scheduled"
    /\ spot' = [spot EXCEPT ![w] = "imminent"]
    /\ UNCHANGED <<queueVars, resultVars, processVars, protected, lifecycle>>

\* The instance goes away under whatever the process is doing.
Terminate(w) ==
    /\ lifecycle[w] = "terminating" \/ (lifecycle[w] # "gone" /\ spot[w] = "imminent")
    /\ lifecycle' = [lifecycle EXCEPT ![w] = "gone"]
    /\ spot' = [spot EXCEPT ![w] = "none"]
    /\ protected' = [protected EXCEPT ![w] = FALSE]
    /\ pc' = [pc EXCEPT ![w] = "off"]
    /\ Boot(w)
    /\ UNCHANGED <<queueVars, resultVars>>

\* An exception outside any try block: the IMDS token of checkSpotInterrupt,
\* a metric of pollTranscriptionQueue, an auto scaling call, JSON.parse of the
\* body. checkSpotInterrupt runs beside the poll loop, so it can happen at
\* every await.
Crash(w) ==
    /\ "crash" \in Faults
    /\ pc[w] \in Running
    /\ pc[w] = "returned" => ~interruption[w]
    /\ pc' = [pc EXCEPT ![w] = "down"]
    /\ Boot(w)
    /\ UNCHANGED <<queueVars, resultVars, groupVars>>

\* checkSpotInterrupt finds the notice: it sets INTERRUPTION_TIME, asks for the
\* visibility of the module's current receipt to end with the instance (errors
\* are swallowed) and stops checking.
NoticeInterruption(w) ==
    /\ pc[w] \in Running /\ ~interruption[w] /\ spot[w] # "none"
    /\ interruption' = [interruption EXCEPT ![w] = TRUE]
    /\ \/ /\ Current(handle[w])
          /\ vis' = [vis EXCEPT ![handle[w].job] = "notice"]
       \/ /\ ~Current(handle[w]) \/ "visibility" \in Faults
          /\ UNCHANGED vis
    /\ UNCHANGED <<qstate, recv, parked, expired, resultVars, pc, task, handle,
                   captured, groupVars>>

----------------------------------------------------------------------------
(* main's polling loop.                                                     *)

Goto(w, from, to) ==
    /\ pc[w] = from
    /\ pc' = [pc EXCEPT ![w] = to]

keepJob == <<task, handle, interruption, captured>>

\* while (!INTERRUPTION_TIME) ends; nothing keeps the event loop alive, so the
\* process exits with status 0 and systemd leaves it alone.
LeaveLoop(w) ==
    /\ interruption[w]
    /\ Goto(w, "loop", "exited")
    /\ UNCHANGED <<queueVars, resultVars, keepJob, groupVars>>

\* No newer artifact, or its date could not be read.
KeepArtifact(w) ==
    /\ ~interruption[w]
    /\ Goto(w, "loop", "lifecycle")
    /\ UNCHANGED <<queueVars, resultVars, keepJob, groupVars>>

\* A newer artifact: terminateInstance, then main returns. The timer of
\* checkSpotInterrupt keeps the process running.
ReplaceInstance(w) ==
    /\ "artifact" \in Faults
    /\ ~interruption[w]
    /\ Goto(w, "loop", "returned")
    /\ lifecycle' = [lifecycle EXCEPT ![w] = "terminating"]
    /\ UNCHANGED <<queueVars, resultVars, keepJob, protected, spot>>

SeeLifecycle(w) ==
    /\ Goto(w, "lifecycle", IF lifecycle[w] = "inService" THEN "protect" ELSE "loop")
    /\ UNCHANGED <<queueVars, resultVars, keepJob, groupVars>>

\* Mutant of Protect: the error of updateScaleInProtection is not rethrown.
ProtectOrNot(w) ==
    /\ Goto(w, "protect", "receive")
    /\ protected' = [protected EXCEPT ![w] = (lifecycle[w] = "inService")]
    /\ UNCHANGED <<queueVars, resultVars, keepJob, lifecycle, spot>>

\* updateScaleInProtection(true); the group only takes it for an instance in
\* service, and the error of a refusal ends the process.
Protect(w) ==
    /\ lifecycle[w] = "inService"
    /\ Goto(w, "protect", "receive")
    /\ protected' = [protected EXCEPT ![w] = TRUE]
    /\ UNCHANGED <<queueVars, resultVars, keepJob, lifecycle, spot>>

ProtectRefused(w) ==
    /\ lifecycle[w] # "inService"
    /\ Goto(w, "protect", "down")
    /\ Boot(w)
    /\ UNCHANGED <<queueVars, resultVars, groupVars>>

Receive(w, j) ==
    /\ Goto(w, "receive", "read")
    /\ HandOut(j)
    /\ task' = [task EXCEPT ![w] = [job |-> j, att |-> recv[j] + 1]]
    /\ UNCHANGED <<parked, expired, resultVars, handle, interruption, captured,
                   groupVars>>

\* Mutant of ReceiveNothing: the early return forgets the protection.
ReceiveNothingStayProtected(w) ==
    /\ Goto(w, "receive", "loop")
    /\ UNCHANGED <<queueVars, resultVars, keepJob, groupVars>>

\* No message, or ReceiveMessage failed.
ReceiveNothing(w) ==
    /\ Goto(w, "receive", "release")
    /\ UNCHANGED <<queueVars, resultVars, keepJob, groupVars>>

\* ReceiveMessage took a message but its answer never came.
ReceiveLost(w, j) ==
    /\ "receive" \in Faults
    /\ Goto(w, "receive", "release")
    /\ HandOut(j)
    /\ UNCHANGED <<parked, expired, resultVars, keepJob, groupVars>>

\* After the metrics: remember the receipt handle and parse the body. A message
\* that is no WorkerJob is left in flight and the instance released.
Read(w) ==
    /\ Goto(w, "read", IF task[w].job \in BadJobs THEN "release" ELSE "download")
    /\ handle' = [handle EXCEPT ![w] = task[w]]
    /\ UNCHANGED <<queueVars, resultVars, task, interruption, captured, groupVars>>

\* The finally block and the early returns: updateScaleInProtection(false). A
\* protected instance stays in service, so the group does not refuse it.
Release(w) ==
    /\ Goto(w, "release", "loop")
    /\ protected' = [protected EXCEPT ![w] = FALSE]
    /\ task' = [task EXCEPT ![w] = NoTask]
    /\ captured' = [captured EXCEPT ![w] = FALSE]
    /\ UNCHANGED <<queueVars, resultVars, handle, interruption, lifecycle, spot>>

\* Mutant of ReleaseAndThrow: the failed worker exits with status 0.
ReleaseAndExit(w) ==
    /\ Goto(w, "releaseThrow", "exited")
    /\ protected' = [protected EXCEPT ![w] = FALSE]
    /\ Boot(w)
    /\ UNCHANGED <<queueVars, resultVars, lifecycle, spot>>

\* The same when the catch block threw: the error leaves main.
ReleaseAndThrow(w) ==
    /\ Goto(w, "releaseThrow", "down")
    /\ protected' = [protected EXCEPT ![w] = FALSE]
    /\ Boot(w)
    /\ UNCHANGED <<queueVars, resultVars, lifecycle, spot>>

----------------------------------------------------------------------------
(* The try block of pollTranscriptionQueue and processTranscriptionJob.     *)

\* The step of the job throws into the catch block.
Fails(w, from) ==
    /\ "work" \in Faults
    /\ Goto(w, from, "backoff")
    /\ UNCHANGED <<queueVars, resultVars, keepJob, groupVars>>

\* INTERRUPTION_TIME is passed to processTranscriptionJob by value.
Download(w) ==
    /\ Goto(w, "download", IF task[w].job \in LlmJobs THEN "extend" ELSE "ffmpeg")
    /\ captured' = [captured EXCEPT ![w] =
                        interruption[w] /\ task[w].job \notin LlmJobs]
    /\ UNCHANGED <<queueVars, resultVars, task, handle, interruption, groupVars>>

\* runFfmpeg never throws: converted with a duration, converted without one (no
\* visibility call), no audio stream, or failed.
Ffmpeg(w) ==
    /\ \/ Goto(w, "ffmpeg", "extend")
       \/ Goto(w, "ffmpeg", "transcribe")
       \/ "work" \in Faults /\ Goto(w, "ffmpeg", "noAudio")
       \/ "work" \in Faults /\ Goto(w, "ffmpeg", "park")
    /\ UNCHANGED <<queueVars, resultVars, keepJob, groupVars>>

\* Mutant of Park: the message is deleted whether or not the copy was sent.
ParkUnchecked(w) ==
    /\ Goto(w, "park", "parkDelete")
    /\ \/ parked' = parked \cup {task[w]}
       \/ "send" \in Faults /\ UNCHANGED parked
    /\ UNCHANGED <<qstate, recv, vis, expired, resultVars, keepJob, groupVars>>

\* moveMessageToDeadLetterQueue: send a copy, throw if that failed ...
Park(w) ==
    /\ \/ /\ Goto(w, "park", "parkDelete")
          /\ parked' = parked \cup {task[w]}
       \/ /\ "send" \in Faults
          /\ Goto(w, "park", "backoff")
          /\ parked' \in {parked, parked \cup {task[w]}}
    /\ UNCHANGED <<qstate, recv, vis, expired, resultVars, keepJob, groupVars>>

\* deleteMessage: errors are logged and the result is ignored.
TryDelete(w) ==
    \/ /\ Current(task[w])
       /\ qstate' = [qstate EXCEPT ![task[w].job] = "deleted"]
    \/ /\ ~Current(task[w]) \/ "delete" \in Faults
       /\ UNCHANGED qstate

\* ... then delete the original.
ParkDelete(w) ==
    /\ Goto(w, "parkDelete", "badMedia")
    /\ TryDelete(w)
    /\ UNCHANGED <<recv, vis, parked, expired, resultVars, keepJob, groupVars>>

\* publishTranscriptionOutput: sendMessage's failure is not looked at.
Notify(w, kind) ==
    \/ /\ outputs' = outputs \cup
             {[job |-> task[w].job, att |-> task[w].att, kind |-> kind]}
       /\ UNCHANGED muted
    \/ /\ "send" \in Faults
       /\ muted' = muted \cup {task[w]}
       /\ UNCHANGED outputs

NotifyBadMedia(w) ==
    /\ Goto(w, "badMedia", "delete")
    /\ Notify(w, "badMedia")
    /\ UNCHANGED <<queueVars, uploaded, keepJob, groupVars>>

NotifyNoAudio(w) ==
    /\ Goto(w, "noAudio", "noAudioDelete")
    /\ Notify(w, "noAudio")
    /\ UNCHANGED <<queueVars, uploaded, keepJob, groupVars>>

NoAudioDelete(w) ==
    /\ Goto(w, "noAudioDelete", "delete")
    /\ TryDelete(w)
    /\ UNCHANGED <<recv, vis, parked, expired, resultVars, keepJob, groupVars>>

\* setMessageVisibility to what the job needs; SQS refuses an old receipt and
\* the error reaches the catch block.
ExtendVisibility(w) ==
    /\ \/ /\ Current(task[w])
          /\ vis' = [vis EXCEPT ![task[w].job] = "job"]
          /\ Goto(w, "extend", IF task[w].job \in LlmJobs THEN "llm" ELSE "transcribe")
       \/ /\ ~Current(task[w]) \/ "visibility" \in Faults
          /\ Goto(w, "extend", "backoff")
          /\ UNCHANGED vis
    /\ UNCHANGED <<qstate, recv, parked, expired, resultVars, keepJob, groupVars>>

\* whisperx is done. If the interruption this job knows of is less than twenty
\* seconds away the process exits with status 0.
Transcribe(w) ==
    /\ IF captured[w] /\ spot[w] = "imminent"
         THEN Goto(w, "transcribe", "exited") /\ Boot(w)
         ELSE Goto(w, "transcribe", "upload") /\ UNCHANGED keepJob
    /\ UNCHANGED <<queueVars, resultVars, groupVars>>

\* A translation job runs one prompt per field, each extending the visibility.
NextField(w) ==
    /\ Goto(w, "llm", "extend")
    /\ UNCHANGED <<queueVars, resultVars, keepJob, groupVars>>

RunPrompt(w) ==
    /\ Goto(w, "llm", "upload")
    /\ UNCHANGED <<queueVars, resultVars, keepJob, groupVars>>

Upload(w) ==
    /\ \/ /\ Goto(w, "upload", "publish")
          /\ uploaded' = uploaded \cup {task[w]}
       \/ /\ "work" \in Faults
          /\ Goto(w, "upload", "backoff")
          /\ UNCHANGED uploaded
    /\ UNCHANGED <<queueVars, outputs, muted, keepJob, groupVars>>

Publish(w) ==
    /\ Goto(w, "publish", "delete")
    /\ Notify(w, "success")
    /\ UNCHANGED <<queueVars, uploaded, keepJob, groupVars>>

\* Mutant of Delete: deleteMessage rethrows, into the catch block.
DeleteOrThrow(w) ==
    /\ \/ TryDelete(w) /\ qstate' # qstate /\ Goto(w, "delete", "release")
       \/ /\ ~Current(task[w]) \/ "delete" \in Faults
          /\ Goto(w, "delete", "backoff")
          /\ UNCHANGED qstate
    /\ UNCHANGED <<recv, vis, parked, expired, resultVars, keepJob, groupVars>>

Delete(w) ==
    /\ Goto(w, "delete", "release")
    /\ TryDelete(w)
    /\ UNCHANGED <<recv, vis, parked, expired, resultVars, keepJob, groupVars>>

----------------------------------------------------------------------------
(* The catch block of pollTranscriptionQueue.                               *)

\* The catch block when it publishes the failure from attempt n on.
BackoffFrom(w, n) ==
    /\ \/ /\ Current(task[w])
          /\ qstate' = [qstate EXCEPT ![task[w].job] = "visible"]
          /\ vis' = [vis EXCEPT ![task[w].job] = "default"]
          /\ Goto(w, "backoff", IF task[w].att >= n THEN "failure" ELSE "release")
       \/ /\ ~Current(task[w]) \/ "visibility" \in Faults
          /\ Goto(w, "backoff", "releaseThrow")
          /\ UNCHANGED <<qstate, vis>>
    /\ UNCHANGED <<recv, parked, expired, resultVars, keepJob, groupVars>>

\* Mutants of Backoff: every failure is published; > instead of >=.
BackoffAlwaysPublishing(w) == BackoffFrom(w, 1)
BackoffPastTheLast(w) == BackoffFrom(w, MaxReceive + 1)

\* setMessageVisibility(0); a refusal throws past the failure message.
Backoff(w) == BackoffFrom(w, MaxReceive)

NotifyFailure(w) ==
    /\ Goto(w, "failure", "release")
    /\ Notify(w, "failure")
    /\ UNCHANGED <<queueVars, uploaded, keepJob, groupVars>>

----------------------------------------------------------------------------
JobStep(w) ==
    \/ Read(w) \/ Download(w) \/ Ffmpeg(w)
    \/ Park(w) \/ ParkDelete(w) \/ NotifyBadMedia(w)
    \/ NotifyNoAudio(w) \/ NoAudioDelete(w)
    \/ ExtendVisibility(w) \/ Transcribe(w) \/ RunPrompt(w)
    \/ Upload(w) \/ Publish(w) \/ Delete(w)
    \/ Backoff(w) \/ NotifyFailure(w)

JobFails(w) ==
    \E from \in {"download", "extend", "transcribe", "llm"} : Fails(w, from)

ReleaseStep(w) == Release(w) \/ ReleaseAndThrow(w)

PollStep(w) ==
    \/ LeaveLoop(w) \/ KeepArtifact(w) \/ ReplaceInstance(w)
    \/ SeeLifecycle(w) \/ Protect(w) \/ ProtectRefused(w)
    \/ ReceiveNothing(w)
    \/ \E j \in Jobs : Receive(w, j) \/ ReceiveLost(w, j)

GroupStep(w) ==
    \/ Launch(w) \/ EnterService(w) \/ Start(w) \/ ScaleIn(w)
    \/ SpotScheduled(w) \/ SpotImminent(w) \/ Terminate(w)

QueueStep(j) == Send(j) \/ VisibilityExpires(j) \/ Redrive(j)

\* What happens to one instance and its process.
WorkerStep(w) ==
    \/ GroupStep(w) \/ Crash(w) \/ NoticeInterruption(w)
    \/ PollStep(w) \/ JobStep(w) \/ JobFails(w) \/ NextField(w)
    \/ ReleaseStep(w)

Next == (\E j \in Jobs : QueueStep(j)) \/ (\E w \in Workers : WorkerStep(w))

Spec == Init /\ [][Next]_vars

----------------------------------------------------------------------------
(* What the liveness properties rest on: every started stretch of code is   *)
(* followed by the next, in-flight messages come back, the group replaces   *)
(* what is gone, SQS hands a waiting message to one of those who keep       *)
(* asking, a translation has finitely many fields.                          *)
Fairness ==
    /\ \A j \in Jobs :
          /\ WF_vars(VisibilityExpires(j)) /\ WF_vars(Redrive(j))
          /\ SF_vars(\E w \in Workers : Receive(w, j))
    /\ \A w \in Workers :
          /\ WF_vars(Launch(w)) /\ WF_vars(EnterService(w)) /\ WF_vars(Start(w))
          /\ WF_vars(SpotImminent(w)) /\ WF_vars(Terminate(w))
          /\ WF_vars(PollStep(w)) /\ WF_vars(ReleaseStep(w))
          /\ WF_vars(JobStep(w) \/ JobFails(w)) /\ SF_vars(RunPrompt(w))

\* Something other than a job's own failure interrupts the polling of w.
Disturbed(w) ==
    \/ ReplaceInstance(w) \/ ScaleIn(w) \/ SpotScheduled(w)
    \/ Crash(w) /\ pc[w] \notin Working

\* The polling loop is not disturbed for ever: instances are taken finitely
\* often, and its auto scaling, metrics and IMDS calls fail finitely often.
LeftAlone == <>[][\A w \in Workers : ~Disturbed(w)]_vars

FairSpec == Spec /\ Fairness /\ LeftAlone

----------------------------------------------------------------------------
(* Properties.                                                              *)

\* Every variable has its type; a process that has no job in hand carries no
\* receipt.
TypeOK ==
    /\ qstate \in [Jobs -> {"unsent", "visible", "inflight", "deleted", "dead"}]
    /\ recv \in [Jobs -> 0..MaxReceive]
    /\ \A j \in Jobs : qstate[j] = "inflight" => recv[j] > 0
    /\ vis \in [Jobs -> {"default", "job", "notice"}]
    /\ parked \subseteq Receipts /\ muted \subseteq Receipts
    /\ uploaded \subseteq Receipts /\ expired \subseteq Receipts
    /\ outputs \subseteq Outputs
    /\ pc \in [Workers -> Running \cup Stopped]
    /\ task \in [Workers -> Receipts \cup {NoTask}]
    /\ \A w \in Workers :
          /\ pc[w] \in Working \cup {"releaseThrow"} => task[w] \in Receipts
          /\ pc[w] \in Polling \cup Stopped \cup {"returned"} => task[w] = NoTask
    /\ handle \in [Workers -> Receipts \cup {NoTask}]
    /\ interruption \in [Workers -> BOOLEAN]
    /\ captured \in [Workers -> BOOLEAN]
    /\ protected \in [Workers -> BOOLEAN]
    /\ lifecycle \in [Workers -> {"gone", "pending", "inService", "terminating"}]
    /\ spot \in [Workers -> {"none", "scheduled", "imminent"}]

\* The group never scales in, and the worker never replaces, an instance whose
\* process has a message: protection is on before the message is received and
\* off only after the worker is finished with it, and the lifecycle check, the
\* protection call and a concurrent scale-in cannot interleave badly.
ScaleInSparesJobs ==
    \A w \in Workers :
        task[w] # NoTask => protected[w] /\ lifecycle[w] = "inService"

\* One receive of a message produces at most one output message: no path sends a
\* success and then, through the catch block, a failure.
SpeaksOnce ==
    /\ \A o, p \in outputs : o.job = p.job /\ o.att = p.att => o = p
    /\ \A o \in outputs : [job |-> o.job, att |-> o.att] \notin muted

\* The user hears of a failure of the worker only when SQS will not hand the
\* message to another one (the receiveCount test in the catch block), and of a
\* success only when the result is in S3.
OutputsAreJustified ==
    \A o \in outputs :
        /\ o.kind = "failure" => o.att = MaxReceive
        /\ o.kind = "success" => [job |-> o.job, att |-> o.att] \in uploaded
        /\ o.kind = "badMedia" => [job |-> o.job, att |-> o.att] \in parked

\* Two output messages for one job need a message whose visibility ran out: a
\* worker that stays within its visibility timeout and deletes its message is
\* never contradicted or repeated by another.
RepeatsNeedAnExpiry ==
    \A o, p \in outputs :
        o.job = p.job /\ o.att < p.att => [job |-> o.job, att |-> o.att] \in expired

Spoken(r) ==
    \/ r \in muted \cup parked
    \/ \E k \in OutputKinds : [job |-> r.job, att |-> r.att, kind |-> k] \in outputs

\* A message is deleted from the task queue only by a receive that sent (or at
\* least tried to send) its output, or that left a copy in the dead letter queue.
DeletedWithATrace ==
    \A j \in Jobs :
        qstate[j] = "deleted" =>
            \E t \in 1..MaxReceive : Spoken([job |-> j, att |-> t])

Reported(j) == \E o \in outputs : o.job = j
Settled(j) == qstate[j] \in {"deleted", "dead"}
Abandoned(j) == Settled(j) /\ \A w \in Workers : task[w].job # j

\* Once a job is off the task queue and no worker has it, its user has been told
\* how it ended, whatever failed in the work and whichever instances the group
\* took: the code's own control flow loses no job. (Checked without crashes and
\* without failing SQS calls, which do lose jobs.)
NoJobEndsInSilence == \A j \in Jobs \ BadJobs : Abandoned(j) => Reported(j)

\* When SQS calls do fail and receipts do expire under their workers, a job that is
\* over, in nobody's hands and never reported was silenced by SQS and not by the
\* code: sending its output failed, or the visibility of its last receive ran out.
\* No interleaving of the workers that had its receipts, no failed delete and no
\* refused visibility call loses it in another way. (Checked without lost processes:
\* one can end between the visibility call and the message of the catch block.)
SilenceIsExplained ==
    \A j \in Jobs : Abandoned(j) =>
        \/ Reported(j)
        \/ \E r \in muted : r.job = j
        \/ [job |-> j, att |-> MaxReceive] \in expired

\* The interruption notice of one instance never touches the visibility of a
\* message that another worker is working on, though the module keeps the
\* receipt handle of its last message for ever.
NoticeLeavesOthersAlone ==
    [][\A w \in Workers, j \in Jobs :
          NoticeInterruption(w) /\ vis'[j] # vis[j] =>
              \A v \in Workers \ {w} : ~(task[v].job = j /\ Current(task[v]))]_vars

\* What the sender of a job sees of the message.
PhaseOf(q) ==
    CASE q = "unsent" -> "new"
      [] q \in {"visible", "inflight"} -> "pending"
      [] OTHER -> "settled"

Delivery ==
    INSTANCE JobDelivery WITH
        MaxTries <- MaxReceive,
        phase <- [j \in Jobs |-> PhaseOf(qstate[j])],
        tries <- recv,
        traces <- muted \cup parked

\* The fleet implements what JobDelivery promises of the queue: bounded tries, one
\* output per try, failures only from the last, no job settled without a trace.
ImplementsDelivery == Delivery!Spec

\* ... and, left alone in the end, it tries or settles every pending job, so that
\* each leaves the queue: it is deleted, or dead after MAX_RECEIVE_COUNT receives.
ImplementsFairDelivery == Delivery!FairSpec

\* Transcription that is known to be interrupted within twenty seconds is
\* abandoned before its result is uploaded (comment at transcribe.ts:432).
ImminentInterruptionAbandons ==
    [][\A w \in Workers :
          pc[w] = "transcribe" /\ interruption[w] /\ spot[w] = "imminent" =>
              pc'[w] # "upload"]_vars

\* Protection is always given back: no instance stays exempt from scale-in for
\* ever, not even one whose process crashed between the two calls.
ProtectionIsReleased == \A w \in Workers : protected[w] ~> ~protected[w]

=============================================================================
