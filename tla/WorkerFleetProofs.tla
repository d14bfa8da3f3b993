------------------------- MODULE WorkerFleetProofs -------------------------
(***************************************************************************)
(* Proofs about WorkerFleet, for every number of workers, jobs and receives *)
(* and every set of faults.                                                 *)
(***************************************************************************)
EXTENDS WorkerFleet, TLAPS

\* From the receive until the release the instance is protected and in service.
Custody ==
    \A w \in Workers :
        pc[w] \in Working \cup Releasing \cup {"receive"} =>
            protected[w] /\ lifecycle[w] = "inService"

Speaks(o, r) == o.job = r.job /\ o.att = r.att

\* Everything recorded about a receipt is about one that was handed out.
HandedOut ==
    /\ \A w \in Workers : task[w] # NoTask => task[w].att <= recv[task[w].job]
    /\ \A r \in parked \cup muted \cup uploaded \cup expired : r.att <= recv[r.job]
    /\ \A o \in outputs : o.att <= recv[o.job]
    /\ \A j \in Jobs : qstate[j] = "unsent" => recv[j] = 0

\* Receipts are handed out to one worker only.
Exclusive ==
    \A v, w \in Workers : v # w /\ task[w] # NoTask => task[v] # task[w]

\* The handle a process remembers was handed out, and to no other process.
Remembered ==
    \A w \in Workers :
        handle[w] # NoTask =>
            /\ handle[w].att <= recv[handle[w].job]
            /\ \A v \in Workers \ {w} : task[v] # handle[w]

\* The awaits before the job's output is sent.
Silent == Working \ {"noAudioDelete", "delete"}

\* What the place a worker has reached says about its receipt.
ProgressOf(w) ==
    /\ pc[w] \in Silent =>
          task[w] \notin muted /\ \A o \in outputs : ~Speaks(o, task[w])
    /\ pc[w] \in {"parkDelete", "badMedia"} => task[w] \in parked
    /\ pc[w] = "publish" => task[w] \in uploaded
    /\ pc[w] = "failure" => task[w].att = MaxReceive
    /\ pc[w] \in {"noAudioDelete", "delete"} => Spoken(task[w])
Progress == \A w \in Workers : ProgressOf(w)

\* The message went on without this receipt.
Past(r) ==
    \/ r.att < recv[r.job]
    \/ r.att = recv[r.job] /\ qstate[r.job] = "visible"
\* A receipt that is past, did not expire and was not the last one was given up by
\* the catch block: nothing was or will be said under it.
GivenUp ==
    \A r \in Receipts :
        Past(r) /\ r \notin expired /\ r.att < MaxReceive
        => /\ \A o \in outputs : ~Speaks(o, r)
           /\ \A w \in Workers : task[w] = r => pc[w] \in Releasing

\* A message in the dead letter queue had all its receives.
DeadIsSpent == \A j \in Jobs : qstate[j] = "dead" => recv[j] = MaxReceive

IInv ==
    /\ TypeOK /\ Custody /\ HandedOut /\ Exclusive /\ Remembered
    /\ Progress /\ GivenUp /\ DeadIsSpent
    /\ SpeaksOnce /\ OutputsAreJustified /\ DeletedWithATrace

\* The initial states are well typed.
LEMMA InitTypeOK == Init => TypeOK
  BY ConstantsAssumption DEF Init, TypeOK, Running, Stopped, Polling, Working, Releasing

\* SQS and the sender of a job keep the types.
LEMMA QueueTypeOK ==
    ASSUME TypeOK, NEW j \in Jobs, QueueStep(j)
    PROVE  TypeOK'
<1> USE DEF resultVars, queueVars, processVars, groupVars, keepJob, Running, Stopped,
    Polling, Working, Releasing, Goto
<1>1. CASE Send(j)
  BY <1>1 DEF Send, TypeOK
<1>2. CASE VisibilityExpires(j)
  BY <1>2 DEF VisibilityExpires, TypeOK, Receipts
<1>3. CASE Redrive(j)
  BY <1>3 DEF Redrive, TypeOK
<1>4. QED BY <1>1, <1>2, <1>3 DEF QueueStep

\* Launching, starting, scaling in and terminating instances keeps the types.
LEMMA GroupTypeOK ==
    ASSUME TypeOK, NEW w \in Workers, GroupStep(w)
    PROVE  TypeOK'
<1> USE DEF resultVars, queueVars, processVars, groupVars, keepJob, Running, Stopped,
    Polling, Working, Releasing, Goto
<1>1. CASE Launch(w)
  BY <1>1 DEF Launch, TypeOK
<1>2. CASE EnterService(w)
  BY <1>2 DEF EnterService, TypeOK
<1>3. CASE Start(w)
  BY <1>3 DEF Start, TypeOK, Boot
<1>4. CASE ScaleIn(w)
  BY <1>4 DEF ScaleIn, TypeOK
<1>5. CASE SpotScheduled(w)
  BY <1>5 DEF SpotScheduled, TypeOK
<1>6. CASE SpotImminent(w)
  BY <1>6 DEF SpotImminent, TypeOK
<1>7. CASE Terminate(w)
  BY <1>7 DEF Terminate, TypeOK, Boot
<1>8. QED BY <1>1, <1>2, <1>3, <1>4, <1>5, <1>6, <1>7 DEF GroupStep

\* The polling loop keeps the types; a receive hands out a well-formed receipt.
LEMMA PollTypeOK ==
    ASSUME TypeOK, NEW w \in Workers, PollStep(w)
    PROVE  TypeOK'
<1> USE DEF resultVars, queueVars, processVars, groupVars, keepJob, Running, Stopped,
    Polling, Working, Releasing, Goto
<1>1. CASE LeaveLoop(w)
  BY <1>1 DEF LeaveLoop, TypeOK
<1>2. CASE KeepArtifact(w)
  BY <1>2 DEF KeepArtifact, TypeOK
<1>3. CASE ReplaceInstance(w)
  BY <1>3 DEF ReplaceInstance, TypeOK
<1>4. CASE SeeLifecycle(w)
  BY <1>4 DEF SeeLifecycle, TypeOK
<1>5. CASE Protect(w)
  BY <1>5 DEF Protect, TypeOK
<1>6. CASE ProtectRefused(w)
  BY <1>6 DEF ProtectRefused, TypeOK, Boot
<1>7. CASE ReceiveNothing(w)
  BY <1>7 DEF ReceiveNothing, TypeOK
<1>8. ASSUME NEW j \in Jobs, Receive(w, j) PROVE TypeOK'
  BY <1>8, ConstantsAssumption DEF Receive, HandOut, Receivable, TypeOK, Receipts
<1>9. ASSUME NEW j \in Jobs, ReceiveLost(w, j) PROVE TypeOK'
  BY <1>9, ConstantsAssumption DEF ReceiveLost, HandOut, Receivable, TypeOK
<1>10. QED BY <1>1, <1>2, <1>3, <1>4, <1>5, <1>6, <1>7, <1>8, <1>9 DEF PollStep

\* The steps of a job keep the types.
LEMMA JobTypeOK ==
    ASSUME TypeOK, NEW w \in Workers, JobStep(w)
    PROVE  TypeOK'
<1> USE DEF resultVars, queueVars, processVars, groupVars, keepJob, Running, Stopped,
    Polling, Working, Releasing, Goto
<1>1. CASE Read(w)
  BY <1>1 DEF Read, TypeOK
<1>2. CASE Download(w)
  BY <1>2 DEF Download, TypeOK
<1>3. CASE Ffmpeg(w)
  BY <1>3 DEF Ffmpeg, TypeOK
<1>4. CASE Park(w)
  BY <1>4 DEF Park, TypeOK, Receipts
<1>5. CASE ParkDelete(w)
  BY <1>5 DEF ParkDelete, TypeOK, TryDelete, Current
<1>6. CASE NotifyBadMedia(w)
  BY <1>6 DEF NotifyBadMedia, TypeOK, Notify, Receipts, Outputs, OutputKinds
<1>7. CASE NotifyNoAudio(w)
  BY <1>7 DEF NotifyNoAudio, TypeOK, Notify, Receipts, Outputs, OutputKinds
<1>8. CASE NoAudioDelete(w)
  BY <1>8 DEF NoAudioDelete, TypeOK, TryDelete, Current
<1>9. CASE ExtendVisibility(w)
  BY <1>9 DEF ExtendVisibility, TypeOK, Current
<1>10. CASE Transcribe(w)
  <2>1. CASE captured[w] /\ spot[w] = "imminent"
    <3>1. Goto(w, "transcribe", "exited") /\ Boot(w)
      BY <1>10, <2>1 DEF Transcribe
    <3>2. UNCHANGED <<queueVars, resultVars, groupVars>>
      BY <1>10 DEF Transcribe
    <3>3. QED BY <3>1, <3>2 DEF TypeOK, Boot
  <2>2. CASE ~(captured[w] /\ spot[w] = "imminent")
    BY <1>10, <2>2 DEF Transcribe, TypeOK
  <2>3. QED BY <2>1, <2>2
<1>11. CASE RunPrompt(w)
  BY <1>11 DEF RunPrompt, TypeOK
<1>12. CASE Upload(w)
  BY <1>12 DEF Upload, TypeOK, Receipts
<1>13. CASE Publish(w)
  BY <1>13 DEF Publish, TypeOK, Notify, Receipts, Outputs, OutputKinds
<1>14. CASE Delete(w)
  BY <1>14 DEF Delete, TypeOK, TryDelete, Current
<1>15. CASE Backoff(w)
  BY <1>15 DEF Backoff, TypeOK, BackoffFrom, Current
<1>16. CASE NotifyFailure(w)
  BY <1>16 DEF NotifyFailure, TypeOK, Notify, Receipts, Outputs, OutputKinds
<1>17. QED BY <1>1, <1>2, <1>3, <1>4, <1>5, <1>6, <1>7, <1>8, <1>9, <1>10, <1>11,
    <1>12, <1>13, <1>14, <1>15, <1>16 DEF JobStep

\* Releasing an instance leaves its process without a receipt.
LEMMA ReleaseTypeOK ==
    ASSUME TypeOK, NEW w \in Workers, ReleaseStep(w)
    PROVE  TypeOK'
<1> USE DEF resultVars, queueVars, processVars, groupVars, keepJob, Running, Stopped,
    Polling, Working, Releasing, Goto
<1>1. CASE Release(w)
  BY <1>1 DEF Release, TypeOK
<1>2. CASE ReleaseAndThrow(w)
  BY <1>2 DEF ReleaseAndThrow, TypeOK, Boot
<1>3. QED BY <1>1, <1>2 DEF ReleaseStep

\* Crashes, notices, failing work and further prompts keep the types.
LEMMA OtherTypeOK ==
    ASSUME TypeOK, NEW w \in Workers,
           Crash(w) \/ NoticeInterruption(w) \/ JobFails(w) \/ NextField(w)
    PROVE  TypeOK'
<1> USE DEF resultVars, queueVars, processVars, groupVars, keepJob, Running, Stopped,
    Polling, Working, Releasing, Goto
<1>1. CASE Crash(w)
  BY <1>1 DEF Crash, TypeOK, Boot
<1>2. CASE NoticeInterruption(w)
  BY <1>2 DEF NoticeInterruption, TypeOK, Current
<1>3. CASE JobFails(w)
  BY <1>3 DEF JobFails, Fails, TypeOK
<1>4. CASE NextField(w)
  BY <1>4 DEF NextField, TypeOK
<1>5. QED BY <1>1, <1>2, <1>3, <1>4

\* Every step keeps the types.
LEMMA TypeCorrectStep == TypeOK /\ [Next]_vars => TypeOK'
<1> SUFFICES ASSUME TypeOK, [Next]_vars PROVE TypeOK'
  OBVIOUS
<1>1. CASE Next
  BY <1>1, QueueTypeOK, GroupTypeOK, PollTypeOK, JobTypeOK, ReleaseTypeOK,
     OtherTypeOK DEF Next, WorkerStep
<1>2. CASE UNCHANGED vars
  BY <1>2 DEF vars, resultVars, queueVars, processVars, groupVars, keepJob, TypeOK
<1>3. QED BY <1>1, <1>2

\* Every reachable state is well typed.
THEOREM TypeCorrect == Spec => []TypeOK
  BY InitTypeOK, TypeCorrectStep, PTL DEF Spec

\* Scale-in protection is on from before the receive to after the release.
LEMMA CustodyStep ==
    ASSUME TypeOK, Custody, [Next]_vars
    PROVE  Custody'
<1> USE DEF vars, queueVars, resultVars, processVars, groupVars, keepJob, Running,
    Stopped, Polling, Working, Releasing, Goto, Custody
<1>1. ASSUME NEW j \in Jobs, QueueStep(j) PROVE Custody'
  BY <1>1 DEF QueueStep, Send, VisibilityExpires, Redrive
<1>2. ASSUME NEW w \in Workers, GroupStep(w) PROVE Custody'
  BY <1>2 DEF GroupStep, Launch, EnterService, Start, ScaleIn, SpotScheduled,
              SpotImminent, Terminate, Boot, TypeOK
<1>3. ASSUME NEW w \in Workers, PollStep(w) PROVE Custody'
  BY <1>3 DEF PollStep, LeaveLoop, KeepArtifact, ReplaceInstance, SeeLifecycle,
              Protect, ProtectRefused, ReceiveNothing, Receive, ReceiveLost, Boot,
                   TypeOK
<1>4. ASSUME NEW w \in Workers, JobStep(w) PROVE Custody'
  BY <1>4 DEF JobStep, Read, Download, Ffmpeg, Park, ParkDelete, NotifyBadMedia,
              NotifyNoAudio, NoAudioDelete, ExtendVisibility, Transcribe, RunPrompt,
              Upload, Publish, Delete, Backoff, BackoffFrom, NotifyFailure, Boot, TypeOK
<1>5. ASSUME NEW w \in Workers, ReleaseStep(w) PROVE Custody'
  BY <1>5 DEF ReleaseStep, Release, ReleaseAndThrow, Boot, TypeOK
<1>6. ASSUME NEW w \in Workers,
             Crash(w) \/ NoticeInterruption(w) \/ JobFails(w) \/ NextField(w)
      PROVE  Custody'
  BY <1>6 DEF Crash, NoticeInterruption, JobFails, Fails, NextField, Boot, TypeOK
<1>7. CASE UNCHANGED vars
  BY <1>7
<1>8. QED BY <1>1, <1>2, <1>3, <1>4, <1>5, <1>6, <1>7 DEF Next, WorkerStep

\* Only the redrive policy moves a message to the dead letter queue.
LEMMA DeadIsSpentStep ==
    ASSUME TypeOK, DeadIsSpent, [Next]_vars
    PROVE  DeadIsSpent'
<1> USE DEF vars, queueVars, resultVars, processVars, groupVars, keepJob, Running,
    Stopped, Polling, Working, Releasing, Goto, DeadIsSpent
<1>1. ASSUME NEW j \in Jobs, QueueStep(j) PROVE DeadIsSpent'
  BY <1>1 DEF TypeOK, QueueStep, Send, VisibilityExpires, Redrive
<1>2. ASSUME NEW w \in Workers, GroupStep(w) PROVE DeadIsSpent'
  BY <1>2 DEF GroupStep, Launch, EnterService, Start, ScaleIn, SpotScheduled,
              SpotImminent, Terminate, Boot, TypeOK
<1>3. ASSUME NEW w \in Workers, PollStep(w) PROVE DeadIsSpent'
  BY <1>3 DEF HandOut, Receivable, PollStep, LeaveLoop, KeepArtifact,
       ReplaceInstance, SeeLifecycle,
              Protect, ProtectRefused, ReceiveNothing, Receive, ReceiveLost, Boot,
                   TypeOK
<1>4. ASSUME NEW w \in Workers, JobStep(w) PROVE DeadIsSpent'
  BY <1>4 DEF TryDelete, Current, JobStep, Read, Download, Ffmpeg, Park, ParkDelete,
       NotifyBadMedia,
              NotifyNoAudio, NoAudioDelete, ExtendVisibility, Transcribe, RunPrompt,
              Upload, Publish, Delete, Backoff, BackoffFrom, NotifyFailure, Boot, TypeOK
<1>5. ASSUME NEW w \in Workers, ReleaseStep(w) PROVE DeadIsSpent'
  BY <1>5 DEF ReleaseStep, Release, ReleaseAndThrow, Boot, TypeOK
<1>6. ASSUME NEW w \in Workers,
             Crash(w) \/ NoticeInterruption(w) \/ JobFails(w) \/ NextField(w)
      PROVE  DeadIsSpent'
  BY <1>6 DEF Crash, NoticeInterruption, JobFails, Fails, NextField, Boot, TypeOK
<1>7. CASE UNCHANGED vars
  BY <1>7
<1>8. QED BY <1>1, <1>2, <1>3, <1>4, <1>5, <1>6, <1>7 DEF Next, WorkerStep

\* What is recorded under a receipt is recorded after it was handed out.
LEMMA HandedOutStep ==
    ASSUME TypeOK, HandedOut, [Next]_vars
    PROVE  HandedOut'
<1> USE DEF vars, queueVars, resultVars, processVars, groupVars, keepJob, Running,
    Stopped, Polling, Working, Releasing, Goto, HandedOut, Receipts, NoTask
<1>1. ASSUME NEW j \in Jobs, QueueStep(j) PROVE HandedOut'
  BY <1>1 DEF TypeOK, QueueStep, Send, VisibilityExpires, Redrive
<1>2. ASSUME NEW w \in Workers, GroupStep(w) PROVE HandedOut'
  BY <1>2 DEF GroupStep, Launch, EnterService, Start, ScaleIn, SpotScheduled,
              SpotImminent, Terminate, Boot, TypeOK, Notify, TryDelete, HandOut,
                   Receivable, Current
<1>3. ASSUME NEW w \in Workers, PollStep(w) PROVE HandedOut'
  <2>1. ASSUME NEW j \in Jobs, Receive(w, j) PROVE HandedOut'
    <3>1. \A i \in Jobs : recv[i] <= recv'[i] /\ recv[i] \in Int /\ recv'[i] \in Int
      BY <2>1 DEF Receive, HandOut, Receivable, TypeOK
    <3>2. QED
      BY <2>1, <3>1 DEF Receive, HandOut, Receivable, TypeOK, Outputs
  <2>2. ASSUME NEW j \in Jobs, ReceiveLost(w, j) PROVE HandedOut'
    <3>1. \A i \in Jobs : recv[i] <= recv'[i] /\ recv[i] \in Int /\ recv'[i] \in Int
      BY <2>2 DEF ReceiveLost, HandOut, Receivable, TypeOK
    <3>2. QED
      BY <2>2, <3>1 DEF ReceiveLost, HandOut, Receivable, TypeOK, Outputs
  <2>3. ASSUME \/ LeaveLoop(w) \/ KeepArtifact(w) \/ ReplaceInstance(w)
               \/ SeeLifecycle(w) \/ Protect(w) \/ ProtectRefused(w)
               \/ ReceiveNothing(w)
        PROVE  HandedOut'
    BY <2>3 DEF LeaveLoop, KeepArtifact, ReplaceInstance, SeeLifecycle, Protect,
                ProtectRefused, ReceiveNothing, Boot, TypeOK
  <2>4. QED BY <1>3, <2>1, <2>2, <2>3 DEF PollStep
<1>4. ASSUME NEW w \in Workers, JobStep(w) PROVE HandedOut'
  BY <1>4 DEF JobStep, Read, Download, Ffmpeg, Park, ParkDelete, NotifyBadMedia,
              NotifyNoAudio, NoAudioDelete, ExtendVisibility, Transcribe, RunPrompt,
              Upload, Publish, Delete, Backoff, BackoffFrom, NotifyFailure, Boot,
                   TypeOK, Notify, TryDelete, HandOut, Receivable, Current
<1>5. ASSUME NEW w \in Workers, ReleaseStep(w) PROVE HandedOut'
  BY <1>5 DEF ReleaseStep, Release, ReleaseAndThrow, Boot, TypeOK, Notify, TryDelete,
       HandOut, Receivable, Current
<1>6. ASSUME NEW w \in Workers,
             Crash(w) \/ NoticeInterruption(w) \/ JobFails(w) \/ NextField(w)
      PROVE  HandedOut'
  BY <1>6 DEF Crash, NoticeInterruption, JobFails, Fails, NextField, Boot, TypeOK,
       Notify, TryDelete, HandOut, Receivable, Current
<1>7. CASE UNCHANGED vars
  BY <1>7
<1>8. QED BY <1>1, <1>2, <1>3, <1>4, <1>5, <1>6, <1>7 DEF Next, WorkerStep

\* A receive gives a receipt nobody had before; nothing else hands one out.
LEMMA ExclusiveStep ==
    ASSUME TypeOK, HandedOut, Exclusive, [Next]_vars
    PROVE  Exclusive'
<1> USE DEF vars, queueVars, resultVars, processVars, groupVars, keepJob, Running,
    Stopped, Polling, Working, Releasing, Goto, Exclusive, Receipts, NoTask
<1>1. ASSUME NEW j \in Jobs, QueueStep(j) PROVE Exclusive'
  BY <1>1 DEF QueueStep, Send, VisibilityExpires, Redrive
<1>2. ASSUME NEW w \in Workers, GroupStep(w) PROVE Exclusive'
  BY <1>2 DEF GroupStep, Launch, EnterService, Start, ScaleIn, SpotScheduled,
              SpotImminent, Terminate, Boot, TypeOK
<1>3. ASSUME NEW w \in Workers, PollStep(w) PROVE Exclusive'
  BY <1>3 DEF HandedOut, HandOut, Receivable, PollStep, LeaveLoop, KeepArtifact,
       ReplaceInstance, SeeLifecycle,
              Protect, ProtectRefused, ReceiveNothing, Receive, ReceiveLost, Boot,
                   TypeOK
<1>4. ASSUME NEW w \in Workers, JobStep(w) PROVE Exclusive'
  BY <1>4 DEF JobStep, Read, Download, Ffmpeg, Park, ParkDelete, NotifyBadMedia,
              NotifyNoAudio, NoAudioDelete, ExtendVisibility, Transcribe, RunPrompt,
              Upload, Publish, Delete, Backoff, BackoffFrom, NotifyFailure, Boot, TypeOK
<1>5. ASSUME NEW w \in Workers, ReleaseStep(w) PROVE Exclusive'
  BY <1>5 DEF ReleaseStep, Release, ReleaseAndThrow, Boot, TypeOK
<1>6. ASSUME NEW w \in Workers,
             Crash(w) \/ NoticeInterruption(w) \/ JobFails(w) \/ NextField(w)
      PROVE  Exclusive'
  BY <1>6 DEF Crash, NoticeInterruption, JobFails, Fails, NextField, Boot, TypeOK
<1>7. CASE UNCHANGED vars
  BY <1>7
<1>8. QED BY <1>1, <1>2, <1>3, <1>4, <1>5, <1>6, <1>7 DEF Next, WorkerStep

\* A step of w as the other workers see it.
OnlyAbout(w) ==
    /\ \A v \in Workers \ {w} : pc'[v] = pc[v] /\ task'[v] = task[v]
    /\ outputs \subseteq outputs' /\ \A o \in outputs' \ outputs : Speaks(o, task[w])
    /\ muted \subseteq muted' /\ muted' \subseteq muted \cup {task[w]}
    /\ parked \subseteq parked' /\ parked' \subseteq parked \cup {task[w]}
    /\ uploaded \subseteq uploaded'

\* Nothing that was said or parked is taken back.
LEMMA SpokenStays ==
    ASSUME NEW r, Spoken(r), outputs \subseteq outputs', muted \subseteq muted',
           parked \subseteq parked'
    PROVE  Spoken(r)'
  BY DEF Spoken

\* A step that says something only about the receipt of w disturbs no other
\* worker's progress, because the others hold other receipts.
LEMMA OthersProgress ==
    ASSUME TypeOK, Exclusive, Progress, NEW w \in Workers, OnlyAbout(w),
           task[w] \in Receipts, NEW v \in Workers, v # w
    PROVE  ProgressOf(v)'
<1>1. pc'[v] = pc[v] /\ task'[v] = task[v] /\ ProgressOf(v)
  BY DEF OnlyAbout, Progress
<1>2. task[v] # task[w]
  BY DEF Exclusive, Receipts, NoTask
<1>3. CASE pc[v] \in Working
  <2>1. task[v] \in Receipts
    BY <1>3 DEF TypeOK
  <2>2. \A o : ~(Speaks(o, task[v]) /\ Speaks(o, task[w]))
    BY <1>2, <2>1 DEF Speaks, Receipts
  <2>3. pc[v] \in Silent => task[v] \notin muted' /\ \A o \in outputs' : ~Speaks(o, task[v])
    BY <1>1, <1>2, <2>2 DEF OnlyAbout, ProgressOf
  <2>4. pc[v] \in {"noAudioDelete", "delete"} => Spoken(task[v])'
    BY <1>1, SpokenStays DEF ProgressOf, OnlyAbout, Spoken
  <2>5. QED BY <1>1, <2>3, <2>4 DEF ProgressOf, OnlyAbout, Speaks
<1>4. CASE pc[v] \notin Working
  BY <1>1, <1>4 DEF ProgressOf, Silent, Working
<1>5. QED BY <1>3, <1>4

\* What a step of a job says, and from where.
LEMMA JobSays ==
    ASSUME TypeOK, NEW w \in Workers, JobStep(w)
    PROVE  /\ pc[w] \in Working /\ task[w] \in Receipts
           /\ \/ UNCHANGED <<outputs, muted>>
              \/ pc[w] = "badMedia" /\ Notify(w, "badMedia")
              \/ pc[w] = "noAudio" /\ Notify(w, "noAudio")
              \/ pc[w] = "publish" /\ Notify(w, "success")
              \/ pc[w] = "failure" /\ Notify(w, "failure")
<1>1. pc[w] \in Working
  BY DEF JobStep, Read, Download, Ffmpeg, Park, ParkDelete, NotifyBadMedia,
       NotifyNoAudio,
         NoAudioDelete, ExtendVisibility, Transcribe, RunPrompt, Upload, Publish,
              Delete,
         Backoff, BackoffFrom, NotifyFailure, Goto, Working
<1>2. task[w] \in Receipts
  BY <1>1 DEF TypeOK
<1>3. CASE NotifyBadMedia(w) \/ NotifyNoAudio(w) \/ Publish(w) \/ NotifyFailure(w)
  BY <1>1, <1>2, <1>3 DEF NotifyBadMedia, NotifyNoAudio, Publish, NotifyFailure, Goto
<1>4. CASE \/ Read(w) \/ Download(w) \/ Ffmpeg(w) \/ Park(w) \/ ParkDelete(w)
           \/ NoAudioDelete(w) \/ ExtendVisibility(w) \/ Transcribe(w) \/ RunPrompt(w)
           \/ Upload(w) \/ Delete(w) \/ Backoff(w)
  BY <1>1, <1>2, <1>4 DEF Read, Download, Ffmpeg, Park, ParkDelete, NoAudioDelete,
         ExtendVisibility, Transcribe, RunPrompt, Upload, Delete, Backoff, BackoffFrom,
         resultVars
<1>5. QED BY <1>3, <1>4 DEF JobStep

\* A step of a job concerns only its worker's receipt.
LEMMA JobOnlyAbout ==
    ASSUME TypeOK, NEW w \in Workers, JobStep(w)
    PROVE  OnlyAbout(w)
<1>1. /\ outputs \subseteq outputs' /\ \A o \in outputs' \ outputs : Speaks(o, task[w])
      /\ muted \subseteq muted' /\ muted' \subseteq muted \cup {task[w]}
  BY JobSays DEF Notify, Speaks
<1>2. /\ \A v \in Workers \ {w} : pc'[v] = pc[v] /\ task'[v] = task[v]
      /\ parked \subseteq parked' /\ parked' \subseteq parked \cup {task[w]}
      /\ uploaded \subseteq uploaded'
  BY DEF JobStep, Read, Download, Ffmpeg, Park, ParkDelete, NotifyBadMedia,
       NotifyNoAudio,
         NoAudioDelete, ExtendVisibility, Transcribe, RunPrompt, Upload, Publish,
              Delete,
         Backoff, BackoffFrom, NotifyFailure, Goto, Boot, TypeOK, queueVars, resultVars,
         keepJob
<1>3. QED BY <1>1, <1>2 DEF OnlyAbout

\* Each step of a job keeps what its place says about its receipt.
LEMMA JobProgress ==
    ASSUME TypeOK, Progress, NEW w \in Workers, JobStep(w)
    PROVE  ProgressOf(w)'
<1> USE DEF ProgressOf, Silent, Working, Goto, keepJob, queueVars, resultVars, TypeOK
<1>0. ProgressOf(w) /\ task[w] \in Receipts
  BY JobSays DEF Progress
<1>1. CASE Read(w)
  BY <1>0, <1>1 DEF Read
<1>2. CASE Download(w)
  BY <1>0, <1>2 DEF Download
<1>3. CASE Ffmpeg(w)
  BY <1>0, <1>3 DEF Ffmpeg
<1>4. CASE Park(w)
  BY <1>0, <1>4 DEF Park
<1>5. CASE ParkDelete(w)
  BY <1>0, <1>5 DEF ParkDelete
<1>6. CASE NotifyBadMedia(w)
  BY <1>0, <1>6 DEF NotifyBadMedia, Notify, Spoken, OutputKinds
<1>7. CASE NotifyNoAudio(w)
  BY <1>0, <1>7 DEF NotifyNoAudio, Notify, Spoken, OutputKinds
<1>8. CASE NoAudioDelete(w)
  BY <1>0, <1>8 DEF NoAudioDelete, Spoken
<1>9. CASE ExtendVisibility(w)
  BY <1>0, <1>9 DEF ExtendVisibility
<1>10. CASE Transcribe(w)
  BY <1>0, <1>10 DEF Transcribe, Boot
<1>11. CASE RunPrompt(w)
  BY <1>0, <1>11 DEF RunPrompt
<1>12. CASE Upload(w)
  BY <1>0, <1>12 DEF Upload
<1>13. CASE Publish(w)
  BY <1>0, <1>13 DEF Publish, Notify, Spoken, OutputKinds
<1>14. CASE Delete(w)
  BY <1>0, <1>14 DEF Delete
<1>15. CASE Backoff(w)
  <2>1. /\ pc[w] = "backoff" /\ pc'[w] \in {"failure", "release", "releaseThrow"}
        /\ pc'[w] = "failure" => task[w].att >= MaxReceive
    BY <1>15 DEF Backoff, BackoffFrom
  <2>2. UNCHANGED <<task, outputs, muted, parked, uploaded>>
    BY <1>15 DEF Backoff, BackoffFrom
  <2>3. task[w].att <= MaxReceive /\ task[w].att \in Int /\ MaxReceive \in Int
    BY <1>0, ConstantsAssumption DEF Receipts
  <2>4. QED BY <1>0, <2>1, <2>2, <2>3
<1>16. CASE NotifyFailure(w)
  BY <1>0, <1>16 DEF NotifyFailure, Notify, Spoken, OutputKinds
<1>17. QED BY <1>1, <1>2, <1>3, <1>4, <1>5, <1>6, <1>7, <1>8, <1>9, <1>10, <1>11,
    <1>12, <1>13, <1>14, <1>15, <1>16 DEF JobStep

\* A worker says nothing under its receipt before it sends the output, and says
\* only what the steps before have earned.
LEMMA ProgressStep ==
    ASSUME TypeOK, HandedOut, Exclusive, Progress, [Next]_vars
    PROVE  Progress'
<1> USE DEF vars, queueVars, resultVars, processVars, groupVars, keepJob
<1>1. ASSUME UNCHANGED <<pc, task, outputs, muted, parked, uploaded>> PROVE Progress'
  BY <1>1 DEF Progress, ProgressOf, Spoken
<1>2. ASSUME NEW j \in Jobs, QueueStep(j) PROVE Progress'
  BY <1>1, <1>2 DEF QueueStep, Send, VisibilityExpires, Redrive
<1>3. ASSUME NEW w \in Workers, JobStep(w) PROVE Progress'
  BY <1>3, JobProgress, JobOnlyAbout, JobSays, OthersProgress DEF Progress
<1>4. ASSUME NEW w \in Workers, UNCHANGED <<outputs, muted, parked, uploaded>>,
             \A v \in Workers \ {w} : pc'[v] = pc[v] /\ task'[v] = task[v],
             \/ pc'[w] \notin Working
             \/ pc[w] \in Silent /\ pc'[w] \in Silent \ {"parkDelete", "badMedia", "publish", "failure"}
                  /\ task'[w] = task[w]
      PROVE  Progress'
  BY <1>4 DEF Progress, ProgressOf, Spoken, Silent, Working
<1>5. ASSUME NEW w \in Workers, GroupStep(w) PROVE Progress'
  <2>1. CASE Start(w) \/ Terminate(w)
    BY <1>4, <2>1 DEF Start, Terminate, Boot, TypeOK, Working
  <2>2. CASE Launch(w) \/ EnterService(w) \/ ScaleIn(w) \/ SpotScheduled(w) \/ SpotImminent(w)
    BY <1>1, <2>2 DEF Launch, EnterService, ScaleIn, SpotScheduled, SpotImminent
  <2>3. QED BY <1>5, <2>1, <2>2 DEF GroupStep
<1>6. ASSUME NEW w \in Workers, PollStep(w) PROVE Progress'
  <2>1. ASSUME NEW j \in Jobs, Receive(w, j) PROVE Progress'
    <3>1. /\ pc'[w] = "read" /\ task'[w] = [job |-> j, att |-> recv[j] + 1]
          /\ UNCHANGED <<outputs, muted, parked, uploaded>>
          /\ \A v \in Workers \ {w} : pc'[v] = pc[v] /\ task'[v] = task[v]
      BY <2>1 DEF Receive, Goto, HandOut, TypeOK
    <3>2. task'[w] \notin muted
      BY <3>1 DEF HandedOut, TypeOK, Receipts
    <3>3. \A o \in outputs : ~Speaks(o, task'[w])
      BY <3>1 DEF HandedOut, TypeOK, Outputs, Speaks
    <3>4. ProgressOf(w)'
      BY <3>1, <3>2, <3>3 DEF ProgressOf, Speaks
    <3>5. ASSUME NEW v \in Workers \ {w} PROVE ProgressOf(v)'
      BY <3>1 DEF Progress, ProgressOf, Spoken
    <3>6. QED BY <3>4, <3>5 DEF Progress
  <2>2. ASSUME \/ LeaveLoop(w) \/ KeepArtifact(w) \/ ReplaceInstance(w)
               \/ SeeLifecycle(w) \/ Protect(w) \/ ProtectRefused(w)
               \/ ReceiveNothing(w) \/ \E j \in Jobs : ReceiveLost(w, j)
        PROVE  Progress'
    BY <1>4, <2>2 DEF LeaveLoop, KeepArtifact, ReplaceInstance, SeeLifecycle, Protect,
       ProtectRefused, ReceiveNothing, ReceiveLost, Goto, Boot, TypeOK, Working
  <2>3. QED BY <1>6, <2>1, <2>2 DEF PollStep
<1>7. ASSUME NEW w \in Workers, ReleaseStep(w) PROVE Progress'
  BY <1>4, <1>7 DEF ReleaseStep, Release, ReleaseAndThrow, Goto, Boot, TypeOK, Working
<1>8. ASSUME NEW w \in Workers,
             Crash(w) \/ NoticeInterruption(w) \/ JobFails(w) \/ NextField(w)
      PROVE  Progress'
  <2>1. CASE Crash(w)
    BY <1>4, <2>1 DEF Crash, Boot, TypeOK, Working
  <2>2. CASE NoticeInterruption(w)
    BY <1>1, <2>2 DEF NoticeInterruption
  <2>3. CASE JobFails(w) \/ NextField(w)
    BY <1>4, <2>3 DEF JobFails, Fails, NextField, Goto, TypeOK, Silent, Working
  <2>4. QED BY <1>8, <2>1, <2>2, <2>3
<1>9. CASE UNCHANGED vars
  BY <1>1, <1>9
<1>10. QED BY <1>2, <1>3, <1>5, <1>6, <1>7, <1>8, <1>9 DEF Next, WorkerStep

\* Only the steps of a job say, park or upload anything.
LEMMA OthersSayNothing ==
    ASSUME [Next]_vars
    PROVE  \/ \E w \in Workers : JobStep(w)
           \/ UNCHANGED <<outputs, muted, parked, uploaded>>
<1> USE DEF vars, queueVars, resultVars, processVars, groupVars, keepJob
<1>1. ASSUME NEW j \in Jobs, QueueStep(j) PROVE UNCHANGED <<outputs, muted, parked,
     uploaded>>
  BY <1>1 DEF QueueStep, Send, VisibilityExpires, Redrive
<1>2. ASSUME NEW w \in Workers,
             GroupStep(w) \/ Crash(w) \/ NoticeInterruption(w) \/ ReleaseStep(w)
      PROVE  UNCHANGED <<outputs, muted, parked, uploaded>>
  BY <1>2 DEF GroupStep, Launch, EnterService, Start, ScaleIn, SpotScheduled,
       SpotImminent,
     Terminate, Crash, NoticeInterruption, ReleaseStep, Release, ReleaseAndThrow
<1>3. ASSUME NEW w \in Workers, PollStep(w) \/ JobFails(w) \/ NextField(w)
      PROVE  UNCHANGED <<outputs, muted, parked, uploaded>>
  BY <1>3 DEF PollStep, LeaveLoop, KeepArtifact, ReplaceInstance, SeeLifecycle, Protect,
     ProtectRefused, Receive, ReceiveNothing, ReceiveLost, JobFails, Fails, NextField
<1>4. QED BY <1>1, <1>2, <1>3 DEF Next, WorkerStep

\* What a receipt said is never taken back, nor are copies and uploads.
LEMMA Monotone ==
    ASSUME TypeOK, [Next]_vars
    PROVE  /\ outputs \subseteq outputs' /\ muted \subseteq muted'
           /\ parked \subseteq parked' /\ uploaded \subseteq uploaded'
  BY OthersSayNothing, JobOnlyAbout DEF OnlyAbout

\* A receipt under which something was said is past every other publication.
LEMMA SpeaksOnceStep ==
    ASSUME TypeOK, Progress, SpeaksOnce, [Next]_vars
    PROVE  SpeaksOnce'
<1>1. CASE UNCHANGED <<outputs, muted>>
  BY <1>1 DEF SpeaksOnce
<1>2. ASSUME NEW w \in Workers, JobStep(w), NEW k, Notify(w, k), pc[w] \in Silent
      PROVE  SpeaksOnce'
  <2>1. /\ task[w] \in Receipts /\ task[w] \notin muted
        /\ \A o \in outputs : ~Speaks(o, task[w])
    BY <1>2, JobSays DEF Progress, ProgressOf
  <2>2. QED BY <1>2, <2>1 DEF Notify, SpeaksOnce, Speaks, Receipts
<1>3. QED BY <1>1, <1>2, OthersSayNothing, JobSays DEF Silent, Working

\* The place of each publication justifies what it says.
LEMMA OutputsAreJustifiedStep ==
    ASSUME TypeOK, Progress, OutputsAreJustified, [Next]_vars
    PROVE  OutputsAreJustified'
<1> SUFFICES ASSUME NEW o \in outputs'
             PROVE  /\ o.kind = "failure" => o.att = MaxReceive
                    /\ o.kind = "success" => [job |-> o.job, att |-> o.att] \in uploaded'
                    /\ o.kind = "badMedia" => [job |-> o.job, att |-> o.att] \in parked'
  BY DEF OutputsAreJustified
<1>1. CASE o \in outputs
  BY <1>1, Monotone DEF OutputsAreJustified
<1>2. CASE o \notin outputs
  <2>1. PICK w \in Workers : JobStep(w)
    BY <1>2, OthersSayNothing
  <2>2. task[w] \in Receipts
    BY <2>1, JobSays
  <2>3. task[w] = [job |-> task[w].job, att |-> task[w].att]
    BY <2>2 DEF Receipts
  <2>4. PICK k \in OutputKinds :
           /\ o = [job |-> task[w].job, att |-> task[w].att, kind |-> k]
           /\ k = "failure" => pc[w] = "failure"
           /\ k = "success" => pc[w] = "publish"
           /\ k = "badMedia" => pc[w] = "badMedia"
    BY <1>2, <2>1, JobSays DEF Notify, OutputKinds
  <2>5. QED BY <2>3, <2>4, Monotone DEF Progress, ProgressOf
<1>3. QED BY <1>1, <1>2

\* A message is deleted only by a worker that left a trace of its receipt.
LEMMA Deletes ==
    ASSUME TypeOK, Progress, [Next]_vars, NEW j \in Jobs,
           qstate[j] # "deleted", qstate'[j] = "deleted"
    PROVE  \E w \in Workers : task[w] \in Receipts /\ task[w].job = j /\ Spoken(task[w])
<1> USE DEF vars, queueVars, TypeOK
<1>1. ASSUME NEW i \in Jobs, QueueStep(i) PROVE FALSE
  BY <1>1 DEF QueueStep, Send, VisibilityExpires, Redrive
<1>2. ASSUME NEW w \in Workers,
             \/ GroupStep(w) \/ Crash(w) \/ NoticeInterruption(w) \/ ReleaseStep(w)
             \/ PollStep(w) \/ JobFails(w) \/ NextField(w)
      PROVE  FALSE
  BY <1>2 DEF GroupStep, Launch, EnterService, Start, ScaleIn, SpotScheduled,
       SpotImminent,
     Terminate, Crash, NoticeInterruption, ReleaseStep, Release, ReleaseAndThrow,
          PollStep,
     LeaveLoop, KeepArtifact, ReplaceInstance, SeeLifecycle, Protect, ProtectRefused,
     Receive, ReceiveNothing, ReceiveLost, HandOut, JobFails, Fails, NextField
<1>3. ASSUME NEW w \in Workers, JobStep(w)
      PROVE  pc[w] \in {"parkDelete", "noAudioDelete", "delete"} /\ task[w].job = j
  BY <1>3 DEF JobStep, Read, Download, Ffmpeg, Park, ParkDelete, NotifyBadMedia,
     NotifyNoAudio, NoAudioDelete, ExtendVisibility, Transcribe, RunPrompt, Upload,
          Publish,
     Delete, Backoff, BackoffFrom, NotifyFailure, TryDelete, Goto
<1>4. PICK w \in Workers : JobStep(w)
  BY <1>1, <1>2 DEF Next, WorkerStep
<1>5. QED BY <1>3, <1>4, JobSays DEF Progress, ProgressOf, Spoken

\* A message leaves the queue by deletion only if a trace of it remains.
LEMMA DeletedWithATraceStep ==
    ASSUME TypeOK, Progress, DeletedWithATrace, [Next]_vars
    PROVE  DeletedWithATrace'
<1> SUFFICES ASSUME NEW j \in Jobs, qstate'[j] = "deleted"
             PROVE  \E t \in 1..MaxReceive : Spoken([job |-> j, att |-> t])'
  BY DEF DeletedWithATrace
<1>1. \E t \in 1..MaxReceive : Spoken([job |-> j, att |-> t])
  <2>1. CASE qstate[j] = "deleted"
    BY <2>1 DEF DeletedWithATrace
  <2>2. CASE qstate[j] # "deleted"
    <3>1. PICK w \in Workers : task[w] \in Receipts /\ task[w].job = j /\ Spoken(task[w])
      BY <2>2, Deletes
    <3>2. task[w] = [job |-> j, att |-> task[w].att] /\ task[w].att \in 1..MaxReceive
      BY <3>1 DEF Receipts
    <3>3. QED BY <3>1, <3>2
  <2>3. QED BY <2>1, <2>2
<1>2. QED BY <1>1, SpokenStays, Monotone

\* What can happen to a message: it is received, or exposed again by SQS or by
\* the catch block of the worker that has its current receipt.
LEMMA MessageSteps ==
    ASSUME TypeOK, [Next]_vars, NEW j \in Jobs
    PROVE  /\ expired \subseteq expired'
           /\ recv'[j] # recv[j] =>
                 Receivable(j) /\ recv'[j] = recv[j] + 1 /\ qstate'[j] = "inflight"
           /\ qstate[j] # "visible" /\ qstate'[j] = "visible" =>
                 \/ qstate[j] = "unsent" /\ UNCHANGED recv
                 \/ VisibilityExpires(j)
                 \/ \E w \in Workers : Backoff(w) /\ Current(task[w]) /\ task[w].job = j
<1> DEFINE Goal ==
           /\ expired \subseteq expired'
           /\ recv'[j] # recv[j] =>
                 Receivable(j) /\ recv'[j] = recv[j] + 1 /\ qstate'[j] = "inflight"
           /\ qstate[j] # "visible" /\ qstate'[j] = "visible" =>
                 \/ qstate[j] = "unsent" /\ UNCHANGED recv
                 \/ VisibilityExpires(j)
                 \/ \E w \in Workers : Backoff(w) /\ Current(task[w]) /\ task[w].job = j
<1> USE DEF vars, queueVars, resultVars, TypeOK
<1>1. ASSUME UNCHANGED <<qstate, recv, expired>> PROVE Goal
  BY <1>1
<1>2. ASSUME NEW i \in Jobs, QueueStep(i) PROVE Goal
  <2>1. CASE Send(i)
    BY <2>1 DEF Send
  <2>2. CASE VisibilityExpires(i)
    <3>1. CASE i = j
      BY <2>2, <3>1 DEF VisibilityExpires
    <3>2. CASE i # j
      BY <2>2, <3>2 DEF VisibilityExpires
    <3>3. QED BY <3>1, <3>2
  <2>3. CASE Redrive(i)
    BY <2>3 DEF Redrive
  <2>4. QED BY <1>2, <2>1, <2>2, <2>3 DEF QueueStep
<1>3. ASSUME NEW w \in Workers,
             \/ GroupStep(w) \/ Crash(w) \/ NoticeInterruption(w) \/ ReleaseStep(w)
             \/ JobFails(w) \/ NextField(w)
      PROVE  Goal
  BY <1>1, <1>3 DEF GroupStep, Launch, EnterService, Start, ScaleIn, SpotScheduled,
     SpotImminent, Terminate, Crash, NoticeInterruption, ReleaseStep, Release,
     ReleaseAndThrow, JobFails, Fails, NextField
<1>4. ASSUME NEW w \in Workers, PollStep(w) PROVE Goal
  <2>1. ASSUME NEW i \in Jobs, HandOut(i), UNCHANGED expired PROVE Goal
    BY <2>1 DEF HandOut, Receivable
  <2>2. QED
    BY <1>1, <1>4, <2>1 DEF PollStep, LeaveLoop, KeepArtifact, ReplaceInstance,
       SeeLifecycle, Protect, ProtectRefused, Receive, ReceiveNothing, ReceiveLost
<1>5. ASSUME NEW w \in Workers, JobStep(w) PROVE Goal
  <2>1. CASE Backoff(w)
    BY <2>1 DEF Backoff, BackoffFrom
  <2>2. CASE ParkDelete(w) \/ NoAudioDelete(w) \/ Delete(w)
    BY <2>2 DEF ParkDelete, NoAudioDelete, Delete, TryDelete
  <2>3. CASE \/ Read(w) \/ Download(w) \/ Ffmpeg(w) \/ Park(w) \/ NotifyBadMedia(w)
             \/ NotifyNoAudio(w) \/ ExtendVisibility(w) \/ Transcribe(w) \/ RunPrompt(w)
             \/ Upload(w) \/ Publish(w) \/ NotifyFailure(w)
    BY <1>1, <2>3 DEF Read, Download, Ffmpeg, Park, NotifyBadMedia, NotifyNoAudio,
       ExtendVisibility, Transcribe, RunPrompt, Upload, Publish, NotifyFailure
  <2>4. QED BY <1>5, <2>1, <2>2, <2>3 DEF JobStep
<1>6. CASE UNCHANGED vars
  BY <1>1, <1>6
<1>7. QED BY <1>2, <1>3, <1>4, <1>5, <1>6 DEF Next, WorkerStep

\* How a worker comes by a receipt, and that it does nothing with it any more
\* once it is releasing its instance.
LEMMA TaskSteps ==
    ASSUME TypeOK, [Next]_vars, NEW w \in Workers, task'[w] # NoTask
    PROVE  \/ /\ task'[w] = task[w]
              /\ pc[w] \in Releasing => pc'[w] = pc[w]
           \/ \E j \in Jobs : task'[w] = [job |-> j, att |-> recv[j] + 1]
<1> DEFINE Goal(x) ==
           \/ /\ task'[x] = task[x]
              /\ pc[x] \in Releasing => pc'[x] = pc[x]
           \/ \E j \in Jobs : task'[x] = [job |-> j, att |-> recv[j] + 1]
           \/ task'[x] = NoTask
<1> USE DEF vars, processVars, keepJob, Goto, Releasing
<1>1. ASSUME UNCHANGED <<pc, task>> PROVE Goal(w)
  BY <1>1
<1>2. ASSUME NEW j \in Jobs, QueueStep(j) PROVE Goal(w)
  BY <1>1, <1>2 DEF QueueStep, Send, VisibilityExpires, Redrive
<1>3. ASSUME NEW x \in Workers,
             \/ GroupStep(x) \/ Crash(x) \/ NoticeInterruption(x) \/ ReleaseStep(x)
             \/ JobFails(x) \/ NextField(x)
      PROVE  Goal(w)
  BY <1>3 DEF GroupStep, Launch, EnterService, Start, ScaleIn, SpotScheduled,
     SpotImminent, Terminate, Boot, Crash, NoticeInterruption, ReleaseStep, Release,
     ReleaseAndThrow, JobFails, Fails, NextField, TypeOK
<1>4. ASSUME NEW x \in Workers, PollStep(x) PROVE Goal(w)
  BY <1>4 DEF PollStep, LeaveLoop, KeepArtifact, ReplaceInstance, SeeLifecycle, Protect,
     ProtectRefused, Receive, ReceiveNothing, ReceiveLost, Boot, TypeOK
<1>5. ASSUME NEW x \in Workers, JobStep(x) PROVE Goal(w)
  <2>1. CASE x # w
    BY <1>5, <2>1, JobOnlyAbout DEF OnlyAbout
  <2>2. CASE x = w
    BY <1>5, <2>2, JobSays DEF JobStep, Read, Download, Ffmpeg, Park, ParkDelete,
       NotifyBadMedia, NotifyNoAudio, NoAudioDelete, ExtendVisibility, Transcribe,
       RunPrompt, Upload, Publish, Delete, Backoff, BackoffFrom, NotifyFailure, Boot,
       TypeOK, Working
  <2>3. QED BY <2>1, <2>2
<1>6. CASE UNCHANGED vars
  BY <1>1, <1>6
<1>7. Goal(w)
  BY <1>2, <1>3, <1>4, <1>5, <1>6 DEF Next, WorkerStep
<1>8. QED BY <1>7

\* A receipt that was overtaken without expiring was given up in silence.
LEMMA GivenUpStep ==
    ASSUME TypeOK, HandedOut, Exclusive, Progress, GivenUp, [Next]_vars
    PROVE  GivenUp'
<1> SUFFICES ASSUME NEW r \in Receipts, Past(r)', r \notin expired', r.att < MaxReceive
             PROVE  /\ \A o \in outputs' : ~Speaks(o, r)
                    /\ \A w \in Workers : task'[w] = r => pc'[w] \in Releasing
  BY DEF GivenUp
<1>0. /\ r.job \in Jobs /\ r.att \in 1..MaxReceive /\ r.att \in Int
      /\ r = [job |-> r.job, att |-> r.att] /\ r # NoTask
      /\ recv[r.job] \in Int /\ recv'[r.job] \in Int
  <2>1. TypeOK'
    BY TypeCorrectStep
  <2>2. r.job \in Jobs /\ r.att \in 1..MaxReceive /\ r = [job |-> r.job, att |-> r.att]
    BY DEF Receipts
  <2>3. QED BY <2>1, <2>2, ConstantsAssumption DEF TypeOK, NoTask
<1>1. r \notin expired
  BY <1>0, MessageSteps
<1>2. CASE Past(r)
  <2>1. /\ \A o \in outputs : ~Speaks(o, r)
        /\ \A w \in Workers : task[w] = r => pc[w] \in Releasing
    BY <1>1, <1>2 DEF GivenUp
  <2>2. \A w \in Workers : JobStep(w) => task[w] # r
    BY <2>1, JobSays DEF Releasing, Working
  <2>3. \A o \in outputs' : ~Speaks(o, r)
    <3>1. ASSUME NEW o \in outputs' \ outputs, Speaks(o, r) PROVE FALSE
      <4>1. PICK w \in Workers : JobStep(w)
        BY <3>1, OthersSayNothing
      <4>2. task[w] \in Receipts /\ Speaks(o, task[w])
        BY <3>1, <4>1, JobSays, JobOnlyAbout DEF OnlyAbout
      <4>3. task[w] = r
        BY <1>0, <3>1, <4>2 DEF Speaks, Receipts
      <4>4. QED BY <2>2, <4>1, <4>3
    <3>2. QED BY <2>1, <3>1
  <2>4. ASSUME NEW w \in Workers, task'[w] = r PROVE pc'[w] \in Releasing
    <3>1. recv[r.job] + 1 # r.att
      BY <1>0, <1>2 DEF Past
    <3>2. task[w] = r /\ (pc[w] \in Releasing => pc'[w] = pc[w])
      <4>1. ASSUME NEW j \in Jobs, task'[w] = [job |-> j, att |-> recv[j] + 1]
            PROVE  FALSE
        <5>1. r.job = j /\ r.att = recv[j] + 1
          BY <2>4, <4>1
        <5>2. QED BY <3>1, <5>1
      <4>2. QED BY <1>0, <2>4, <4>1, TaskSteps
    <3>3. QED BY <2>1, <3>2
  <2>5. QED BY <2>3, <2>4
<1>3. CASE ~Past(r)
  <2>1. recv'[r.job] = recv[r.job]
    BY <1>0, <1>3, MessageSteps DEF Past, Receivable
  <2>2. r.att = recv[r.job] /\ qstate[r.job] # "visible" /\ qstate'[r.job] = "visible"
    BY <1>0, <1>3, <2>1 DEF Past
  <2>3. qstate[r.job] # "unsent"
    BY <1>0, <2>2 DEF HandedOut
  <2>4. ~VisibilityExpires(r.job)
    BY <1>0, <2>2 DEF VisibilityExpires
  <2>5. PICK w \in Workers : Backoff(w) /\ Current(task[w]) /\ task[w].job = r.job
    BY <1>0, <2>2, <2>3, <2>4, MessageSteps
  <2>6. JobStep(w) /\ pc[w] = "backoff" /\ task[w] \in Receipts
    BY <2>5, JobSays DEF JobStep, Backoff, BackoffFrom, Goto
  <2>7. task[w] = r
    BY <1>0, <2>2, <2>5, <2>6 DEF Current, Receipts
  <2>8. UNCHANGED <<outputs, task>> /\ pc'[w] \in Releasing
    BY <1>0, <2>5, <2>7, ConstantsAssumption DEF Backoff, BackoffFrom, Goto, TypeOK,
         resultVars, keepJob,
       Releasing
  <2>9. \A o \in outputs : ~Speaks(o, r)
    BY <2>6, <2>7 DEF Progress, ProgressOf, Silent, Working
  <2>10. \A v \in Workers : task[v] = r => v = w
    BY <1>0, <2>7 DEF Exclusive
  <2>11. QED BY <2>8, <2>9, <2>10
<1>4. QED BY <1>2, <1>3

\* The module's receipt handle is the last one this process was given.
LEMMA RememberedStep ==
    ASSUME TypeOK, HandedOut, Exclusive, Remembered, [Next]_vars
    PROVE  Remembered'
<1> USE DEF vars, processVars, keepJob, Goto, NoTask, Receipts
<1>1. \A j \in Jobs : recv[j] <= recv'[j] /\ recv[j] \in Int /\ recv'[j] \in Int
  BY MessageSteps, TypeCorrectStep DEF TypeOK
<1>2. ASSUME NEW w \in Workers
      PROVE  \/ handle'[w] = handle[w]
             \/ handle'[w] = NoTask
             \/ handle'[w] = task[w] /\ UNCHANGED task
  <2>1. ASSUME NEW j \in Jobs, QueueStep(j) PROVE UNCHANGED handle
    BY <2>1 DEF QueueStep, Send, VisibilityExpires, Redrive
  <2>2. ASSUME NEW x \in Workers,
               \/ GroupStep(x) \/ Crash(x) \/ NoticeInterruption(x) \/ ReleaseStep(x)
               \/ JobFails(x) \/ NextField(x) \/ PollStep(x)
        PROVE  handle'[w] = handle[w] \/ handle'[w] = NoTask
    BY <2>2 DEF GroupStep, Launch, EnterService, Start, ScaleIn, SpotScheduled,
       SpotImminent, Terminate, Boot, Crash, NoticeInterruption, ReleaseStep, Release,
       ReleaseAndThrow, JobFails, Fails, NextField, TypeOK, PollStep, LeaveLoop,
       KeepArtifact, ReplaceInstance, SeeLifecycle, Protect, ProtectRefused, Receive,
       ReceiveNothing, ReceiveLost
  <2>3. ASSUME NEW x \in Workers, JobStep(x)
        PROVE  \/ handle'[w] = handle[w]
               \/ handle'[w] = NoTask
               \/ handle'[w] = task[w] /\ UNCHANGED task
    BY <2>3 DEF JobStep, Read, Download, Ffmpeg, Park, ParkDelete, NotifyBadMedia,
       NotifyNoAudio, NoAudioDelete, ExtendVisibility, Transcribe, RunPrompt, Upload,
       Publish, Delete, Backoff, BackoffFrom, NotifyFailure, Boot, TypeOK
  <2>4. CASE UNCHANGED vars
    BY <2>4
  <2>5. QED BY <2>1, <2>2, <2>3, <2>4 DEF Next, WorkerStep
<1>3. SUFFICES ASSUME NEW w \in Workers, handle'[w] # NoTask
               PROVE  /\ handle'[w].att <= recv'[handle'[w].job]
                      /\ \A v \in Workers \ {w} : task'[v] # handle'[w]
  BY DEF Remembered
<1>4. CASE handle'[w] = task[w] /\ UNCHANGED task
  BY <1>1, <1>3, <1>4 DEF HandedOut, Exclusive, TypeOK
<1>5. CASE handle'[w] = handle[w]
  <2>1. /\ handle[w].job \in Jobs /\ handle[w].att \in Int
        /\ handle[w].att <= recv[handle[w].job]
        /\ \A v \in Workers \ {w} : task[v] # handle[w]
    BY <1>3, <1>5 DEF TypeOK, Remembered
  <2>2. ASSUME NEW v \in Workers \ {w}, task'[v] = handle[w] PROVE FALSE
    <3>1. PICK j \in Jobs : task'[v] = [job |-> j, att |-> recv[j] + 1]
      BY <1>3, <1>5, <2>1, <2>2, TaskSteps
    <3>2. handle[w].job = j /\ handle[w].att = recv[j] + 1
      BY <2>2, <3>1
    <3>3. QED BY <1>1, <2>1, <3>2
  <2>3. QED BY <1>1, <1>5, <2>1, <2>2
<1>6. QED BY <1>2, <1>3, <1>4, <1>5

\* The inductive invariant holds in every reachable state.
THEOREM Invariance == Spec => []IInv
<1>1. Init => IInv
  BY InitTypeOK DEF Init, IInv, Custody, HandedOut, Exclusive, Remembered, Progress,
     ProgressOf, GivenUp, Past, DeadIsSpent, SpeaksOnce, OutputsAreJustified,
     DeletedWithATrace, Working, Releasing, Silent, Receipts
<1>2. IInv /\ [Next]_vars => IInv'
  BY TypeCorrectStep, CustodyStep, HandedOutStep, ExclusiveStep, RememberedStep,
     ProgressStep, GivenUpStep, DeadIsSpentStep, SpeaksOnceStep,
          OutputsAreJustifiedStep,
     DeletedWithATraceStep DEF IInv
<1>3. QED BY <1>1, <1>2, PTL DEF Spec

\* The group never takes an instance whose process has a message.
THEOREM ScaleInSafety == Spec => []ScaleInSparesJobs
<1>1. IInv => ScaleInSparesJobs
  BY DEF IInv, Custody, TypeOK, ScaleInSparesJobs, Running, Stopped, Polling, Working,
     Releasing
<1>2. QED BY <1>1, Invariance, PTL

\* One receive of a message says at most one thing.
THEOREM OneOutputPerReceive == Spec => []SpeaksOnce
<1>1. IInv => SpeaksOnce
  BY DEF IInv
<1>2. QED BY <1>1, Invariance, PTL

\* Failures come from the last receive, successes have their result in S3.
THEOREM OutputsJustified == Spec => []OutputsAreJustified
<1>1. IInv => OutputsAreJustified
  BY DEF IInv
<1>2. QED BY <1>1, Invariance, PTL

\* Every deleted message left a trace.
THEOREM DeletionsTraced == Spec => []DeletedWithATrace
<1>1. IInv => DeletedWithATrace
  BY DEF IInv
<1>2. QED BY <1>1, Invariance, PTL

\* A job is reported twice only if a visibility timeout ran out.
THEOREM RepeatsExplained == Spec => []RepeatsNeedAnExpiry
<1>1. IInv => RepeatsNeedAnExpiry
  <2> SUFFICES ASSUME IInv, NEW o \in outputs, NEW p \in outputs,
                      o.job = p.job, o.att < p.att
               PROVE  [job |-> o.job, att |-> o.att] \in expired
    BY DEF RepeatsNeedAnExpiry
  <2> DEFINE r == [job |-> o.job, att |-> o.att]
  <2>1. /\ r \in Receipts /\ r.att \in Int /\ p.att \in 1..MaxReceive
        /\ recv[r.job] \in Int /\ p.att <= recv[r.job]
    BY DEF IInv, TypeOK, Outputs, Receipts, HandedOut
  <2>2. Past(r) /\ r.att < MaxReceive
    BY <2>1, ConstantsAssumption DEF Past
  <2>3. Speaks(o, r)
    BY DEF Speaks
  <2>4. QED BY <2>1, <2>2, <2>3 DEF IInv, GivenUp
<1>2. QED BY <1>1, Invariance, PTL

----------------------------------------------------------------------------
(* No job ends in silence, while no call fails but in the work and the      *)
(* deletes, no process is lost, and no visibility runs out under a worker.  *)

Calm == Faults \cap {"crash", "send", "visibility", "receive", "overrun", "spot"} = {}

\* The awaits at which the message in hand is still in flight for this worker.
Holding == Working \ {"badMedia", "delete", "failure"}

\* No instance is noticed, and a worker has the message it works on.
Held ==
    /\ \A w \in Workers : spot[w] = "none"
    /\ \A w \in Workers : pc[w] \in Holding => Current(task[w])

\* Where only the delete is left the output was sent, not merely tried.
Heard ==
    \A w \in Workers : pc[w] \in {"noAudioDelete", "delete"} => Reported(task[w].job)

\* A worker is about to say how the job ended.
Answerable(j, at) == \E w \in Workers : task[w].job = j /\ pc[w] \in at

\* What is over, or cannot be tried once more, is reported or in somebody's hands.
Ends ==
    \A j \in Jobs \ BadJobs :
        /\ qstate[j] = "deleted" => Reported(j) \/ Answerable(j, {"badMedia"})
        /\ recv[j] = MaxReceive =>
              \/ Reported(j)
              \/ \E w \in Workers : task[w] = [job |-> j, att |-> MaxReceive] /\ pc[w] \in Working

QuietInv == Held /\ Heard /\ Ends

\* What is in a worker's hands stays there, and stays its own, while it holds it.
LEMMA HeldStep ==
    ASSUME Calm, IInv, Held, [Next]_vars
    PROVE  Held'
<1> USE DEF vars, queueVars, resultVars, processVars, groupVars, keepJob, Running,
    Stopped, Polling, Working, Releasing, Goto, Held, Holding, Current, Calm
<1>0. TypeOK /\ Exclusive
  BY DEF IInv
<1>1. ASSUME NEW j \in Jobs, QueueStep(j) PROVE Held'
  <2>1. CASE VisibilityExpires(j)
    <3>1. ~InUse([job |-> j, att |-> recv[j]])
      BY <2>1 DEF VisibilityExpires
    <3>2. ASSUME NEW w \in Workers, pc[w] \in Holding PROVE task[w].job # j
      BY <3>1, <3>2, <1>0 DEF InUse, TypeOK, Receipts
    <3>3. QED BY <2>1, <3>2, <1>0 DEF VisibilityExpires, TypeOK
  <2>2. CASE Send(j) \/ Redrive(j)
    BY <2>2, <1>0 DEF Send, Redrive, TypeOK
  <2>3. QED BY <1>1, <2>1, <2>2 DEF QueueStep
<1>2. ASSUME NEW w \in Workers, GroupStep(w) PROVE Held'
  BY <1>2, <1>0 DEF GroupStep, Launch, EnterService, Start, ScaleIn, SpotScheduled,
              SpotImminent, Terminate, Boot, TypeOK
<1>3. ASSUME NEW w \in Workers, PollStep(w) PROVE Held'
  <2>1. ASSUME NEW j \in Jobs, Receive(w, j) PROVE Held'
    BY <2>1, <1>0 DEF Receive, HandOut, Receivable, TypeOK, Receipts
  <2>2. ASSUME NEW j \in Jobs, ReceiveLost(w, j) PROVE Held'
    BY <2>2 DEF ReceiveLost
  <2>3. ASSUME \/ LeaveLoop(w) \/ KeepArtifact(w) \/ ReplaceInstance(w)
               \/ SeeLifecycle(w) \/ Protect(w) \/ ProtectRefused(w)
               \/ ReceiveNothing(w)
        PROVE  Held'
    BY <2>3, <1>0 DEF LeaveLoop, KeepArtifact, ReplaceInstance, SeeLifecycle, Protect,
                ProtectRefused, ReceiveNothing, Boot, TypeOK
  <2>4. QED BY <1>3, <2>1, <2>2, <2>3 DEF PollStep
<1>4. ASSUME NEW w \in Workers, JobStep(w) PROVE Held'
  <2>1. CASE ParkDelete(w) \/ NoAudioDelete(w) \/ Delete(w) \/ Backoff(w)
    <3>1. \A v \in Workers \ {w} : pc[v] \in Holding /\ Current(task[w]) => task[v].job # task[w].job
      BY <1>0 DEF Exclusive, TypeOK, Receipts, NoTask
    <3>2. \A v \in Workers \ {w} : pc'[v] = pc[v] /\ task'[v] = task[v]
      BY <2>1, <1>0 DEF ParkDelete, NoAudioDelete, Delete, Backoff, BackoffFrom, TypeOK
    <3>3. pc'[w] \notin Holding
      BY <2>1, <1>0 DEF ParkDelete, NoAudioDelete, Delete, Backoff, BackoffFrom, TypeOK
    <3>4. /\ recv' = recv /\ spot' = spot
          /\ \A i \in Jobs : qstate'[i] # qstate[i] => Current(task[w]) /\ i = task[w].job
      BY <2>1, <1>0 DEF ParkDelete, NoAudioDelete, Delete, Backoff, BackoffFrom, TryDelete, TypeOK
    <3>5. QED BY <3>1, <3>2, <3>3, <3>4, <1>0 DEF TypeOK, Receipts
  <2>2. CASE \/ Read(w) \/ Download(w) \/ Ffmpeg(w) \/ Park(w) \/ NotifyBadMedia(w)
             \/ NotifyNoAudio(w) \/ ExtendVisibility(w) \/ Transcribe(w) \/ RunPrompt(w)
             \/ Upload(w) \/ Publish(w) \/ NotifyFailure(w)
    BY <2>2, <1>0 DEF Read, Download, Ffmpeg, Park, NotifyBadMedia,
              NotifyNoAudio, ExtendVisibility, Transcribe, RunPrompt,
              Upload, Publish, NotifyFailure, Boot, TypeOK
  <2>3. QED BY <1>4, <2>1, <2>2 DEF JobStep
<1>5. ASSUME NEW w \in Workers, ReleaseStep(w) PROVE Held'
  BY <1>5, <1>0 DEF ReleaseStep, Release, ReleaseAndThrow, Boot, TypeOK
<1>6. ASSUME NEW w \in Workers,
             Crash(w) \/ NoticeInterruption(w) \/ JobFails(w) \/ NextField(w)
      PROVE  Held'
  BY <1>6, <1>0 DEF Crash, NoticeInterruption, JobFails, Fails, NextField, Boot, TypeOK
<1>7. CASE UNCHANGED vars
  BY <1>7
<1>8. QED BY <1>1, <1>2, <1>3, <1>4, <1>5, <1>6, <1>7 DEF Next, WorkerStep

\* Outputs are never taken back.
LEMMA ReportsStay ==
    ASSUME [Next]_vars
    PROVE  \A j \in Jobs : Reported(j) => Reported(j)'
<1> USE DEF vars, queueVars, resultVars, processVars, groupVars, keepJob, Reported
<1>1. outputs \subseteq outputs'
  BY DEF Next, WorkerStep, QueueStep, Send, VisibilityExpires, Redrive,
         GroupStep, Launch, EnterService, Start, ScaleIn, SpotScheduled, SpotImminent, Terminate,
         Crash, NoticeInterruption, PollStep, LeaveLoop, KeepArtifact, ReplaceInstance,
         SeeLifecycle, Protect, ProtectRefused, ReceiveNothing, Receive, ReceiveLost,
         JobStep, Read, Download, Ffmpeg, Park, ParkDelete, NotifyBadMedia,
         NotifyNoAudio, NoAudioDelete, ExtendVisibility, Transcribe, RunPrompt,
         Upload, Publish, Delete, Backoff, BackoffFrom, NotifyFailure, Notify,
         JobFails, Fails, NextField, ReleaseStep, Release, ReleaseAndThrow
<1>2. QED BY <1>1

\* A send that cannot fail leaves its output.
LEMMA NotifyReports ==
    ASSUME Calm, TypeOK, NEW w \in Workers, NEW k \in OutputKinds, pc[w] \in Working, Notify(w, k), task' = task
    PROVE  Reported(task[w].job)'
<1>1. [job |-> task[w].job, att |-> task[w].att, kind |-> k] \in outputs'
  BY DEF Calm, Notify
<1>2. QED BY <1>1 DEF Reported

\* Before a delete without a copy in the dead letter queue the output was sent.
LEMMA HeardStep ==
    ASSUME Calm, IInv, Held, Heard, [Next]_vars
    PROVE  Heard'
<1> USE DEF vars, queueVars, resultVars, processVars, groupVars, keepJob, Running,
    Stopped, Polling, Working, Releasing, Goto, Heard
<1>0. TypeOK
  BY DEF IInv
<1>a. \A v \in Workers : pc[v] \in Working => task[v].job \in Jobs
  BY <1>0 DEF TypeOK, Receipts
<1>b. \A j \in Jobs : Reported(j) => Reported(j)'
  BY ReportsStay
<1> SUFFICES ASSUME NEW v \in Workers, pc'[v] \in {"noAudioDelete", "delete"}
             PROVE  Reported(task[v].job)'
  OBVIOUS
<1>1. CASE pc'[v] = pc[v] /\ task'[v] = task[v]
  BY <1>1, <1>a, <1>b
<1>2. CASE NotifyBadMedia(v) \/ NotifyNoAudio(v) \/ Publish(v)
  BY <1>2, <1>0, <1>a, NotifyReports DEF NotifyBadMedia, NotifyNoAudio, Publish, OutputKinds
<1>3. CASE NoAudioDelete(v)
  BY <1>3, <1>a, <1>b DEF NoAudioDelete
<1>4. QED
  <2>1. ASSUME NEW j \in Jobs, QueueStep(j) PROVE pc'[v] = pc[v] /\ task'[v] = task[v]
    BY <2>1 DEF QueueStep, Send, VisibilityExpires, Redrive
  <2>2. ASSUME NEW w \in Workers, GroupStep(w) PROVE pc'[v] = pc[v] /\ task'[v] = task[v]
    BY <2>2, <1>0 DEF GroupStep, Launch, EnterService, Start, ScaleIn, SpotScheduled,
              SpotImminent, Terminate, Boot, TypeOK
  <2>3. ASSUME NEW w \in Workers, PollStep(w) PROVE pc'[v] = pc[v] /\ task'[v] = task[v]
    BY <2>3, <1>0 DEF PollStep, LeaveLoop, KeepArtifact, ReplaceInstance, SeeLifecycle,
              Protect, ProtectRefused, ReceiveNothing, Receive, ReceiveLost, Boot, TypeOK
  <2>4. ASSUME NEW w \in Workers, JobStep(w), w # v PROVE pc'[v] = pc[v] /\ task'[v] = task[v]
    BY <2>4, <1>0 DEF JobStep, Read, Download, Ffmpeg, Park, ParkDelete, NotifyBadMedia,
              NotifyNoAudio, NoAudioDelete, ExtendVisibility, Transcribe, RunPrompt,
              Upload, Publish, Delete, Backoff, BackoffFrom, NotifyFailure, Boot, TypeOK
  <2>5. ASSUME JobStep(v)
        PROVE  NotifyBadMedia(v) \/ NotifyNoAudio(v) \/ Publish(v) \/ NoAudioDelete(v)
    BY <2>5, <1>0 DEF JobStep, Read, Download, Ffmpeg, Park, ParkDelete, NotifyFailure,
              ExtendVisibility, Transcribe, RunPrompt,
              Upload, Delete, Backoff, BackoffFrom, Boot, TypeOK
  <2>6. ASSUME NEW w \in Workers, ReleaseStep(w) PROVE pc'[v] = pc[v] /\ task'[v] = task[v]
    BY <2>6, <1>0 DEF ReleaseStep, Release, ReleaseAndThrow, Boot, TypeOK
  <2>7. ASSUME NEW w \in Workers,
               Crash(w) \/ NoticeInterruption(w) \/ JobFails(w) \/ NextField(w)
        PROVE  pc'[v] = pc[v] /\ task'[v] = task[v]
    BY <2>7, <1>0 DEF Crash, NoticeInterruption, JobFails, Fails, NextField, Boot, TypeOK
  <2>8. CASE UNCHANGED vars
    BY <2>8, <1>1
  <2>9. QED BY <1>1, <1>2, <1>3, <2>1, <2>2, <2>3, <2>4, <2>5, <2>6, <2>7, <2>8 DEF Next, WorkerStep

\* A worker goes from the receive to the release of a job only past its report.
LEMMA EndsStep ==
    ASSUME Calm, IInv, Held, Heard, Ends, [Next]_vars
    PROVE  Ends'
<1> USE DEF vars, queueVars, resultVars, processVars, groupVars, keepJob, Running,
    Stopped, Polling, Working, Releasing, Goto
<1>0. TypeOK /\ ConstantsAssumption
  BY ConstantsAssumption DEF IInv
<1>a. \A v \in Workers : pc[v] \in Working => task[v] \in Receipts /\ task[v].job \in Jobs
  BY <1>0 DEF TypeOK, Receipts
<1>b. \A j \in Jobs : Reported(j) => Reported(j)'
  BY ReportsStay
<1> SUFFICES ASSUME NEW j \in Jobs \ BadJobs
             PROVE  /\ qstate'[j] = "deleted" => Reported(j)' \/ Answerable(j, {"badMedia"})'
                    /\ recv'[j] = MaxReceive =>
                          \/ Reported(j)'
                          \/ \E w \in Workers : /\ task'[w] = [job |-> j, att |-> MaxReceive]
                                                /\ pc'[w] \in Working
  BY DEF Ends
<1>c. /\ qstate[j] = "deleted" => Reported(j) \/ Answerable(j, {"badMedia"})
      /\ recv[j] = MaxReceive =>
            \/ Reported(j)
            \/ \E w \in Workers : task[w] = [job |-> j, att |-> MaxReceive] /\ pc[w] \in Working
  BY DEF Ends
\* A step that keeps workers at their work and deletes nothing.
<1>d. ASSUME /\ qstate'[j] = "deleted" => qstate[j] = "deleted"
             /\ recv'[j] = recv[j]
             /\ \A v \in Workers : pc[v] \in Working => pc'[v] = pc[v] /\ task'[v] = task[v]
      PROVE  /\ qstate'[j] = "deleted" => Reported(j)' \/ Answerable(j, {"badMedia"})'
             /\ recv'[j] = MaxReceive =>
                   \/ Reported(j)'
                   \/ \E w \in Workers : /\ task'[w] = [job |-> j, att |-> MaxReceive]
                                         /\ pc'[w] \in Working
  BY <1>b, <1>c, <1>d DEF Answerable
\* A step of one worker at its work, which it goes on with or has reported.
<1>e. ASSUME NEW w \in Workers, pc[w] \in Working,
             \/ pc'[w] \in Working /\ pc[w] # "badMedia"
             \/ task[w].job \in BadJobs
             \/ Reported(task[w].job)'
             \/ task[w].att # MaxReceive /\ pc[w] # "badMedia",
             qstate'[j] = "deleted" =>
                qstate[j] = "deleted" \/ Reported(j)' \/ Answerable(j, {"badMedia"})',
             recv'[j] = recv[j], task' = task,
             \A v \in Workers \ {w} : pc'[v] = pc[v]
      PROVE  /\ qstate'[j] = "deleted" => Reported(j)' \/ Answerable(j, {"badMedia"})'
             /\ recv'[j] = MaxReceive =>
                   \/ Reported(j)'
                   \/ \E v \in Workers : /\ task'[v] = [job |-> j, att |-> MaxReceive]
                                         /\ pc'[v] \in Working
  <2>1. ASSUME qstate[j] = "deleted", ~Reported(j)', ~Answerable(j, {"badMedia"})' PROVE FALSE
    <3>1. PICK v \in Workers : task[v].job = j /\ pc[v] = "badMedia"
      BY <2>1, <1>b, <1>c DEF Answerable
    <3>2. pc'[v] # "badMedia" /\ v = w
      BY <2>1, <3>1, <1>e DEF Answerable
    <3>3. task'[w].job = j
      BY <3>1, <3>2, <1>e
    <3>4. ~Reported(task[w].job)'
      BY <2>1, <3>3
    <3>5. QED BY <3>1, <3>2, <3>4, <1>e
  <2>2. ASSUME recv[j] = MaxReceive, ~Reported(j)'
        PROVE  \E v \in Workers : /\ task'[v] = [job |-> j, att |-> MaxReceive]
                                  /\ pc'[v] \in Working
    <3>1. PICK v \in Workers : task[v] = [job |-> j, att |-> MaxReceive] /\ pc[v] \in Working
      BY <2>2, <1>b, <1>c
    <3>2. CASE v # w
      BY <3>1, <3>2, <1>e
    <3>3. CASE v = w
      <4>1. task[w].job = j /\ task[w].att = MaxReceive /\ task'[w].job = j
        BY <3>1, <3>3, <1>e
      <4>2. ~Reported(task[w].job)'
        BY <2>2, <4>1
      <4>3. pc'[w] \in Working
        BY <4>1, <4>2, <1>e
      <4>4. QED BY <3>1, <3>3, <4>3, <1>e
    <3>4. QED BY <3>2, <3>3
  <2>3. QED BY <2>1, <2>2, <1>e
<1>1. ASSUME NEW i \in Jobs, QueueStep(i)
      PROVE  /\ qstate'[j] = "deleted" => qstate[j] = "deleted"
             /\ recv'[j] = recv[j]
             /\ \A v \in Workers : pc[v] \in Working => pc'[v] = pc[v] /\ task'[v] = task[v]
  BY <1>1, <1>0 DEF QueueStep, Send, VisibilityExpires, Redrive, TypeOK
<1>2. ASSUME NEW w \in Workers, GroupStep(w)
      PROVE  /\ qstate'[j] = "deleted" => qstate[j] = "deleted"
             /\ recv'[j] = recv[j]
             /\ \A v \in Workers : pc[v] \in Working => pc'[v] = pc[v] /\ task'[v] = task[v]
  <2>1. pc[w] \in Working => lifecycle[w] = "inService" /\ spot[w] = "none"
    BY DEF IInv, Custody, Held
  <2>2. QED
    BY <1>2, <2>1, <1>0 DEF GroupStep, Launch, EnterService, Start, ScaleIn, SpotScheduled,
              SpotImminent, Terminate, Boot, TypeOK
<1>3. ASSUME NEW w \in Workers, PollStep(w)
      PROVE  /\ qstate'[j] = "deleted" => Reported(j)' \/ Answerable(j, {"badMedia"})'
             /\ recv'[j] = MaxReceive =>
                   \/ Reported(j)'
                   \/ \E v \in Workers : /\ task'[v] = [job |-> j, att |-> MaxReceive]
                                         /\ pc'[v] \in Working
  <2>1. ASSUME NEW i \in Jobs, Receive(w, i)
        PROVE  /\ qstate'[j] = "deleted" => Reported(j)' \/ Answerable(j, {"badMedia"})'
               /\ recv'[j] = MaxReceive =>
                     \/ Reported(j)'
                     \/ \E v \in Workers : /\ task'[v] = [job |-> j, att |-> MaxReceive]
                                           /\ pc'[v] \in Working
    <3>1. \A v \in Workers : pc[v] \in Working => pc'[v] = pc[v] /\ task'[v] = task[v]
      BY <2>1, <1>0 DEF Receive, TypeOK
    <3>2. CASE i # j
      <4>1. qstate'[j] = qstate[j] /\ recv'[j] = recv[j]
        BY <2>1, <3>2, <1>0 DEF Receive, HandOut, TypeOK
      <4>2. QED BY <3>1, <4>1, <1>d
    <3>3. CASE i = j
      <4>1. /\ qstate'[j] = "inflight" /\ recv'[j] = recv[j] + 1
            /\ task'[w] = [job |-> j, att |-> recv[j] + 1] /\ pc'[w] = "read"
        BY <2>1, <3>3, <1>0 DEF Receive, HandOut, TypeOK
      <4>2. QED BY <4>1
    <3>4. QED BY <3>2, <3>3
  <2>2. ASSUME NEW i \in Jobs, ReceiveLost(w, i) PROVE FALSE
    BY <2>2 DEF ReceiveLost, Calm
  <2>3. ASSUME \/ LeaveLoop(w) \/ KeepArtifact(w) \/ ReplaceInstance(w)
               \/ SeeLifecycle(w) \/ Protect(w) \/ ProtectRefused(w)
               \/ ReceiveNothing(w)
        PROVE  /\ qstate'[j] = "deleted" => qstate[j] = "deleted"
               /\ recv'[j] = recv[j]
               /\ \A v \in Workers : pc[v] \in Working => pc'[v] = pc[v] /\ task'[v] = task[v]
    BY <2>3, <1>0 DEF LeaveLoop, KeepArtifact, ReplaceInstance, SeeLifecycle, Protect,
                ProtectRefused, ReceiveNothing, Boot, TypeOK
  <2>4. CASE \E i \in Jobs : Receive(w, i)
    BY <2>1, <2>4
  <2>5. CASE \/ LeaveLoop(w) \/ KeepArtifact(w) \/ ReplaceInstance(w)
             \/ SeeLifecycle(w) \/ Protect(w) \/ ProtectRefused(w)
             \/ ReceiveNothing(w)
    BY <2>3, <2>5, <1>d
  <2>6. QED BY <1>3, <2>2, <2>4, <2>5 DEF PollStep
<1>4. ASSUME NEW w \in Workers, JobStep(w)
      PROVE  /\ qstate'[j] = "deleted" => Reported(j)' \/ Answerable(j, {"badMedia"})'
             /\ recv'[j] = MaxReceive =>
                   \/ Reported(j)'
                   \/ \E v \in Workers : /\ task'[v] = [job |-> j, att |-> MaxReceive]
                                         /\ pc'[v] \in Working
  <2>1. /\ pc[w] \in Working
        /\ recv' = recv
        /\ \A v \in Workers \ {w} : pc'[v] = pc[v] /\ task'[v] = task[v]
    BY <1>4, <1>0 DEF JobStep, Read, Download, Ffmpeg, Park, ParkDelete, NotifyBadMedia,
              NotifyNoAudio, NoAudioDelete, ExtendVisibility, Transcribe, RunPrompt,
              Upload, Publish, Delete, Backoff, BackoffFrom, NotifyFailure, Boot, TypeOK
  <2>2. CASE Read(w)
    <3>1. /\ pc'[w] \in Working \/ task[w].job \in BadJobs
          /\ qstate' = qstate /\ task' = task /\ pc[w] = "read"
      BY <2>2, <1>0 DEF Read, TypeOK
    <3>2. QED BY <2>1, <3>1, <1>e
  <2>3. CASE \/ Download(w) \/ Ffmpeg(w) \/ Park(w) \/ NotifyNoAudio(w)
             \/ ExtendVisibility(w) \/ RunPrompt(w) \/ Upload(w) \/ Publish(w)
    <3>1. /\ pc'[w] \in Working /\ pc[w] # "badMedia"
          /\ qstate' = qstate /\ task' = task
      BY <2>3, <1>0 DEF Download, Ffmpeg, Park, NotifyNoAudio,
              ExtendVisibility, RunPrompt, Upload, Publish, TypeOK
    <3>2. QED BY <2>1, <3>1, <1>e
  <2>4. CASE Transcribe(w)
    <3>1. /\ pc'[w] \in Working /\ pc[w] # "badMedia"
          /\ qstate' = qstate /\ task' = task
      BY <2>4, <1>0 DEF Transcribe, TypeOK, Held
    <3>2. QED BY <2>1, <3>1, <1>e
  <2>5. CASE ParkDelete(w)
    <3>1. /\ pc'[w] = "badMedia" /\ pc[w] = "parkDelete" /\ task' = task
          /\ qstate'[j] # qstate[j] => task[w].job = j
      BY <2>5, <1>0 DEF ParkDelete, TryDelete, TypeOK
    <3>2. qstate'[j] # qstate[j] => Answerable(j, {"badMedia"})'
      BY <3>1 DEF Answerable
    <3>3. QED BY <2>1, <3>1, <3>2, <1>e
  <2>6. CASE NoAudioDelete(w) \/ Delete(w)
    <3>1. /\ pc[w] \in {"noAudioDelete", "delete"} /\ task' = task
          /\ qstate'[j] # qstate[j] => task[w].job = j
      BY <2>6, <1>0 DEF NoAudioDelete, Delete, TryDelete, TypeOK
    <3>2. Reported(task[w].job)'
      BY <3>1, <1>a, <1>b DEF Heard
    <3>3. qstate'[j] # qstate[j] => Reported(j)'
      BY <3>1, <3>2
    <3>4. QED BY <2>1, <3>1, <3>2, <3>3, <1>e
  <2>7. CASE NotifyBadMedia(w) \/ NotifyFailure(w)
    <3>1. qstate' = qstate /\ task' = task
      BY <2>7 DEF NotifyBadMedia, NotifyFailure
    <3>2. Reported(task[w].job)'
      BY <2>1, <2>7, <3>1, <1>0, NotifyReports DEF NotifyBadMedia, NotifyFailure, OutputKinds
    <3>3. QED BY <2>1, <3>1, <3>2, <1>e
  <2>8. CASE Backoff(w)
    <3>1. Current(task[w]) /\ "visibility" \notin Faults
      BY <2>8 DEF Backoff, BackoffFrom, Held, Holding, Calm
    <3>2. task[w].att \in 1..MaxReceive
      BY <2>1, <1>a DEF Receipts
    <3>3. /\ pc'[w] \in Working \/ task[w].att # MaxReceive
          /\ pc[w] = "backoff" /\ task' = task
          /\ qstate'[j] = "deleted" => qstate[j] = "deleted"
      BY <2>8, <3>1, <3>2, <1>0 DEF Backoff, BackoffFrom, TypeOK
    <3>4. QED BY <2>1, <3>3, <1>e
  <2>9. QED BY <1>4, <2>2, <2>3, <2>4, <2>5, <2>6, <2>7, <2>8 DEF JobStep
<1>5. ASSUME NEW w \in Workers, ReleaseStep(w)
      PROVE  /\ qstate'[j] = "deleted" => qstate[j] = "deleted"
             /\ recv'[j] = recv[j]
             /\ \A v \in Workers : pc[v] \in Working => pc'[v] = pc[v] /\ task'[v] = task[v]
  BY <1>5, <1>0 DEF ReleaseStep, Release, ReleaseAndThrow, Boot, TypeOK
<1>6. ASSUME NEW w \in Workers, Crash(w) \/ NoticeInterruption(w)
      PROVE  /\ qstate'[j] = "deleted" => qstate[j] = "deleted"
             /\ recv'[j] = recv[j]
             /\ \A v \in Workers : pc[v] \in Working => pc'[v] = pc[v] /\ task'[v] = task[v]
  BY <1>6, <1>0 DEF Crash, Calm, NoticeInterruption
<1>7. ASSUME NEW w \in Workers, JobFails(w) \/ NextField(w)
      PROVE  /\ qstate'[j] = "deleted" => Reported(j)' \/ Answerable(j, {"badMedia"})'
             /\ recv'[j] = MaxReceive =>
                   \/ Reported(j)'
                   \/ \E v \in Workers : /\ task'[v] = [job |-> j, att |-> MaxReceive]
                                         /\ pc'[v] \in Working
  <2>1. /\ pc[w] \in Working /\ pc[w] # "badMedia" /\ pc'[w] \in Working
        /\ recv' = recv /\ qstate' = qstate /\ task' = task
        /\ \A v \in Workers \ {w} : pc'[v] = pc[v]
    BY <1>7, <1>0 DEF JobFails, Fails, NextField, TypeOK
  <2>2. QED BY <2>1, <1>e
<1>8. CASE UNCHANGED vars
  BY <1>8, <1>d
<1>9. QED BY <1>d, <1>1, <1>2, <1>3, <1>4, <1>5, <1>6, <1>7, <1>8 DEF Next, WorkerStep

\* A worker that says nothing of its job, or that fails it before its last receive,
\* leaves it on the queue; the catch block of the last receive always reports, since
\* SQS refuses it neither the visibility nor the send. So a job that is over, and in
\* nobody's hands, was reported, with any number of workers and receives, whatever
\* fails in the work, whichever instances the group takes and whichever deletes fail.
THEOREM NoJobIsLostInSilence ==
    ASSUME Calm
    PROVE  Spec => []NoJobEndsInSilence
<1>1. Init => QuietInv
  BY ConstantsAssumption DEF Init, QuietInv, Held, Heard, Ends, Holding, Working
<1>2. IInv /\ QuietInv /\ [Next]_vars => QuietInv'
  BY HeldStep, HeardStep, EndsStep DEF QuietInv
<1>3. IInv /\ QuietInv => NoJobEndsInSilence
  <2> SUFFICES ASSUME IInv, QuietInv, NEW j \in Jobs \ BadJobs, Abandoned(j)
               PROVE  Reported(j)
    BY DEF NoJobEndsInSilence
  <2>1. \A w \in Workers : task[w].job # j
    BY DEF Abandoned
  <2>2. CASE qstate[j] = "deleted"
    BY <2>1, <2>2 DEF QuietInv, Ends, Answerable
  <2>3. CASE qstate[j] = "dead"
    <3>1. recv[j] = MaxReceive
      BY <2>3 DEF IInv, DeadIsSpent
    <3>2. \A w \in Workers : task[w] # [job |-> j, att |-> MaxReceive]
      BY <2>1
    <3>3. QED BY <3>1, <3>2 DEF QuietInv, Ends
  <2>4. QED BY <2>2, <2>3 DEF Abandoned, Settled
<1>4. QED BY <1>1, <1>2, <1>3, Invariance, PTL DEF Spec

----------------------------------------------------------------------------
(* Only SQS silences a job, while no process is lost: any send, delete,     *)
(* visibility call or receive may fail, and any receipt expire under its    *)
(* worker.                                                                  *)

NoneLost == Faults \cap {"crash", "spot"} = {}

\* Some try put, or tried in vain to put, its output on a destination queue.
Attempted(j) == Reported(j) \/ \E r \in muted : r.job = j

\* Behind these awaits the message is out of the worker's hands, or given back.
Final == {"badMedia", "failure"}
Sent == {"noAudioDelete", "delete"}

\* A message that left the queue, or waits there without a receive left, was spoken
\* for, expired under its last receipt, or is about to be spoken for.
NothingUnsaid ==
    /\ \A w \in Workers : spot[w] = "none"
    /\ \A w \in Workers : pc[w] \in Sent => Attempted(task[w].job)
    /\ \A j \in Jobs :
          /\ qstate[j] = "deleted" => Attempted(j) \/ Answerable(j, {"badMedia"})
          /\ recv[j] = MaxReceive /\ qstate[j] \in {"visible", "dead"} =>
                \/ Attempted(j)
                \/ [job |-> j, att |-> MaxReceive] \in expired
                \/ Answerable(j, {"failure"})

\* What was sent, refused or expired stays so.
LEMMA AttemptsStay ==
    ASSUME [Next]_vars
    PROVE  expired \subseteq expired' /\ \A j \in Jobs : Attempted(j) => Attempted(j)'
<1> USE DEF vars, queueVars, resultVars, processVars, groupVars, keepJob
<1>1. ASSUME NEW w \in Workers, JobStep(w)
      PROVE  muted \subseteq muted' /\ expired' = expired
  <2>1. CASE NotifyBadMedia(w) \/ NotifyNoAudio(w) \/ Publish(w) \/ NotifyFailure(w)
    BY <2>1 DEF NotifyBadMedia, NotifyNoAudio, Publish, NotifyFailure, Notify
  <2>2. CASE \/ Read(w) \/ Download(w) \/ Ffmpeg(w) \/ Park(w) \/ ParkDelete(w)
             \/ NoAudioDelete(w) \/ ExtendVisibility(w) \/ Transcribe(w) \/ RunPrompt(w)
             \/ Upload(w) \/ Delete(w) \/ Backoff(w)
    BY <2>2 DEF Read, Download, Ffmpeg, Park, ParkDelete, NoAudioDelete, ExtendVisibility,
              Transcribe, RunPrompt, Upload, Delete, Backoff, BackoffFrom
  <2>3. QED BY <1>1, <2>1, <2>2 DEF JobStep
<1>2. ASSUME NEW j \in Jobs, QueueStep(j)
      PROVE  muted \subseteq muted' /\ expired \subseteq expired'
  BY <1>2 DEF QueueStep, Send, VisibilityExpires, Redrive
<1>3. ASSUME NEW w \in Workers,
             \/ GroupStep(w) \/ Crash(w) \/ NoticeInterruption(w) \/ PollStep(w)
             \/ JobFails(w) \/ NextField(w) \/ ReleaseStep(w)
      PROVE  muted' = muted /\ expired' = expired
  BY <1>3 DEF GroupStep, Launch, EnterService, Start, ScaleIn, SpotScheduled, SpotImminent,
         Terminate, Crash, NoticeInterruption, PollStep, LeaveLoop, KeepArtifact,
         ReplaceInstance, SeeLifecycle, Protect, ProtectRefused, ReceiveNothing, Receive,
         ReceiveLost, JobFails, Fails, NextField, ReleaseStep, Release, ReleaseAndThrow
<1>4. muted \subseteq muted' /\ expired \subseteq expired'
  BY <1>1, <1>2, <1>3 DEF Next, WorkerStep
<1>5. QED BY <1>4, ReportsStay DEF Attempted

\* An output that is sent or refused was attempted.
LEMMA NotifyAttempts ==
    ASSUME NEW w \in Workers, NEW k \in OutputKinds, Notify(w, k),
           NEW j \in Jobs, task[w].job = j
    PROVE  Attempted(j)'
<1>1. CASE task[w] \in muted'
  BY <1>1 DEF Attempted
<1>2. CASE [job |-> j, att |-> task[w].att, kind |-> k] \in outputs'
  BY <1>2 DEF Attempted, Reported
<1>3. QED BY <1>1, <1>2 DEF Notify

\* What a step has to leave alone for nothing to go unsaid.
LEMMA UnsaidFrame ==
    ASSUME IInv, NothingUnsaid, [Next]_vars,
           spot' = spot,
           \A v \in Workers :
              \/ pc'[v] = pc[v] /\ task'[v] = task[v]
              \/ pc[v] \notin Final /\ pc'[v] \notin Sent
              \/ /\ pc[v] \in Working /\ task'[v] = task[v]
                 /\ \E j \in Jobs : j = task[v].job /\ Attempted(j)',
           \A j \in Jobs :
              \/ qstate'[j] = qstate[j] /\ recv'[j] = recv[j]
              \/ qstate'[j] = "inflight"
              \/ /\ qstate'[j] \in {"visible", "dead"}
                 /\ recv'[j] = MaxReceive =>
                       \/ [job |-> j, att |-> MaxReceive] \in expired'
                       \/ Answerable(j, {"failure"})'
                       \/ qstate[j] = "visible" /\ recv[j] = MaxReceive
              \/ /\ qstate'[j] = "deleted"
                 /\ Attempted(j)' \/ Answerable(j, {"badMedia"})'
    PROVE  NothingUnsaid'
<1>1. \A v \in Workers : pc[v] \in Working => task[v].job \in Jobs
  BY DEF IInv, TypeOK, Receipts
<1>2. expired \subseteq expired' /\ \A j \in Jobs : Attempted(j) => Attempted(j)'
  BY AttemptsStay
<1>3. \A w \in Workers : spot'[w] = "none"
  BY DEF NothingUnsaid
<1>4. ASSUME NEW v \in Workers, pc'[v] \in Sent PROVE Attempted(task[v].job)'
  <2>1. CASE pc'[v] = pc[v] /\ task'[v] = task[v]
    BY <1>1, <1>2, <1>4, <2>1 DEF NothingUnsaid, Sent, Working
  <2>2. ASSUME NEW j \in Jobs, j = task[v].job, Attempted(j)', task'[v] = task[v]
        PROVE  Attempted(task[v].job)'
    BY <2>2
  <2>3. QED BY <1>4, <2>1, <2>2
<1>5. ASSUME NEW j \in Jobs, NEW s \in Final, Answerable(j, {s})
      PROVE  Answerable(j, {s})' \/ Attempted(j)'
  <2>1. PICK v \in Workers : task[v].job = j /\ pc[v] = s
    BY <1>5 DEF Answerable
  <2>2. CASE pc'[v] = pc[v] /\ task'[v] = task[v]
    BY <2>1, <2>2 DEF Answerable
  <2>3. QED BY <1>5, <2>1, <2>2
<1>6. ASSUME NEW j \in Jobs, qstate'[j] = "deleted"
      PROVE  Attempted(j)' \/ Answerable(j, {"badMedia"})'
  <2>1. CASE qstate'[j] = qstate[j] /\ recv'[j] = recv[j]
    BY <1>2, <1>5, <1>6, <2>1 DEF NothingUnsaid, Final
  <2>2. QED BY <1>6, <2>1
<1>7. ASSUME NEW j \in Jobs, recv'[j] = MaxReceive, qstate'[j] \in {"visible", "dead"}
      PROVE  \/ Attempted(j)'
             \/ [job |-> j, att |-> MaxReceive] \in expired'
             \/ Answerable(j, {"failure"})'
  <2>1. CASE recv[j] = MaxReceive /\ qstate[j] \in {"visible", "dead"}
    BY <1>2, <1>5, <2>1 DEF NothingUnsaid, Final
  <2>2. QED BY <1>7, <2>1
<1>8. QED BY <1>3, <1>4, <1>6, <1>7 DEF NothingUnsaid

\* No step of SQS, of the group, of the polling loop or of a job leaves a message
\* unsaid. The message that a Backoff makes visible after its last receive is the
\* one whose failure this worker sends next.
LEMMA UnsaidStep ==
    ASSUME NoneLost, IInv, NothingUnsaid, [Next]_vars
    PROVE  NothingUnsaid'
<1> USE DEF vars, queueVars, resultVars, processVars, groupVars, keepJob, Running,
    Stopped, Polling, Working, Releasing, Goto, Final, Sent
<1>0. TypeOK /\ ConstantsAssumption
  BY ConstantsAssumption DEF IInv
<1>a. \A v \in Workers : pc[v] \in Working => task[v] \in Receipts /\ task[v].job \in Jobs
  BY <1>0 DEF TypeOK, Receipts
<1>b. \A v \in Workers : spot[v] = "none"
  BY DEF NothingUnsaid
<1>1. ASSUME NEW i \in Jobs, QueueStep(i) PROVE NothingUnsaid'
  <2>1. CASE Send(i)
    <3>1. recv[i] # MaxReceive
      BY <2>1, <1>0 DEF Send, IInv, HandedOut
    <3>2. QED BY <2>1, <3>1, <1>0, UnsaidFrame DEF Send, TypeOK
  <2>2. CASE VisibilityExpires(i)
    BY <2>2, <1>0, UnsaidFrame DEF VisibilityExpires, TypeOK
  <2>3. CASE Redrive(i)
    BY <2>3, <1>0, UnsaidFrame DEF Redrive, TypeOK
  <2>4. QED BY <1>1, <2>1, <2>2, <2>3 DEF QueueStep
<1>2. ASSUME NEW w \in Workers, GroupStep(w) \/ Crash(w) \/ NoticeInterruption(w)
      PROVE  NothingUnsaid'
  <2>1. pc[w] \in Working => lifecycle[w] = "inService"
    BY DEF IInv, Custody
  <2>2. /\ spot' = spot /\ qstate' = qstate /\ recv' = recv
        /\ \A v \in Workers : \/ pc'[v] = pc[v] /\ task'[v] = task[v]
                              \/ pc[v] \notin Working /\ pc'[v] \notin Working
    BY <1>2, <2>1, <1>b, <1>0 DEF NoneLost, GroupStep, Launch, EnterService, Start, ScaleIn,
              SpotScheduled, SpotImminent, Terminate, Boot, Crash, NoticeInterruption, TypeOK
  <2>3. QED BY <2>2, UnsaidFrame
<1>3. ASSUME NEW w \in Workers, PollStep(w) \/ ReleaseStep(w) PROVE NothingUnsaid'
  <2>1. /\ spot' = spot
        /\ \A v \in Workers : \/ pc'[v] = pc[v] /\ task'[v] = task[v]
                              \/ pc[v] \notin Final /\ pc'[v] \notin Sent
    BY <1>3, <1>0 DEF PollStep, LeaveLoop, KeepArtifact, ReplaceInstance, SeeLifecycle,
              Protect, ProtectRefused, ReceiveNothing, Receive, ReceiveLost,
              ReleaseStep, Release, ReleaseAndThrow, Boot, TypeOK
  <2>2. \A j \in Jobs : \/ qstate'[j] = qstate[j] /\ recv'[j] = recv[j]
                       \/ qstate'[j] = "inflight"
    BY <1>3, <1>0 DEF PollStep, LeaveLoop, KeepArtifact, ReplaceInstance, SeeLifecycle,
              Protect, ProtectRefused, ReceiveNothing, Receive, ReceiveLost, HandOut,
              ReleaseStep, Release, ReleaseAndThrow, TypeOK
  <2>3. QED BY <2>1, <2>2, UnsaidFrame
<1>4. ASSUME NEW w \in Workers, JobStep(w) PROVE NothingUnsaid'
  <2>1. /\ pc[w] \in Working /\ recv' = recv /\ spot' = spot
        /\ \A v \in Workers \ {w} : pc'[v] = pc[v] /\ task'[v] = task[v]
    BY <1>4, <1>0 DEF JobStep, Read, Download, Ffmpeg, Park, ParkDelete, NotifyBadMedia,
              NotifyNoAudio, NoAudioDelete, ExtendVisibility, Transcribe, RunPrompt,
              Upload, Publish, Delete, Backoff, BackoffFrom, NotifyFailure, Boot, TypeOK
  <2>2. CASE \/ Read(w) \/ Download(w) \/ Ffmpeg(w) \/ Park(w) \/ ExtendVisibility(w)
             \/ Transcribe(w) \/ RunPrompt(w) \/ Upload(w)
    <3>1. /\ pc[w] \notin Final /\ pc'[w] \notin Sent /\ qstate' = qstate
      BY <2>2, <1>0 DEF Read, Download, Ffmpeg, Park, ExtendVisibility, Transcribe,
              RunPrompt, Upload, TypeOK
    <3>2. QED BY <2>1, <3>1, UnsaidFrame
  <2>3. CASE NotifyBadMedia(w) \/ NotifyNoAudio(w) \/ Publish(w) \/ NotifyFailure(w)
    <3>1. task' = task /\ qstate' = qstate
      BY <2>3 DEF NotifyBadMedia, NotifyNoAudio, Publish, NotifyFailure
    <3>2. PICK k \in OutputKinds : Notify(w, k)
      BY <2>3 DEF NotifyBadMedia, NotifyNoAudio, Publish, NotifyFailure, OutputKinds
    <3>3. \E j \in Jobs : j = task[w].job /\ Attempted(j)'
      BY <2>1, <3>2, <1>a, NotifyAttempts
    <3>4. QED BY <2>1, <3>1, <3>3, UnsaidFrame
  <2>4. CASE ParkDelete(w)
    <3>1. /\ pc[w] = "parkDelete" /\ pc'[w] = "badMedia" /\ task' = task
          /\ \A j \in Jobs : \/ qstate'[j] = qstate[j]
                             \/ qstate'[j] = "deleted" /\ task[w].job = j
      BY <2>4, <1>0 DEF ParkDelete, TryDelete, TypeOK
    <3>2. \A j \in Jobs : qstate'[j] = qstate[j] \/ Answerable(j, {"badMedia"})'
      BY <3>1 DEF Answerable
    <3>3. QED BY <2>1, <3>1, <3>2, UnsaidFrame
  <2>5. CASE NoAudioDelete(w) \/ Delete(w)
    <3>1. /\ pc[w] \in Sent /\ pc[w] \notin Final /\ task' = task
          /\ \A j \in Jobs : \/ qstate'[j] = qstate[j]
                             \/ qstate'[j] = "deleted" /\ task[w].job = j
      BY <2>5, <1>0 DEF NoAudioDelete, Delete, TryDelete, TypeOK
    <3>2. Attempted(task[w].job)
      BY <3>1 DEF NothingUnsaid
    <3>3. \A j \in Jobs : j = task[w].job => Attempted(j)'
      BY <3>2, AttemptsStay
    <3>4. \E j \in Jobs : j = task[w].job /\ Attempted(j)'
      BY <2>1, <1>a, <3>3
    <3>5. ASSUME NEW j \in Jobs, qstate'[j] # qstate[j]
          PROVE  qstate'[j] = "deleted" /\ Attempted(j)'
      <4>1. qstate'[j] = "deleted" /\ j = task[w].job
        BY <3>1, <3>5
      <4>2. QED BY <3>3, <4>1
    <3>6. QED BY <2>1, <3>1, <3>4, <3>5, UnsaidFrame
  <2>6. CASE Backoff(w)
    <3>1. pc[w] = "backoff" /\ pc'[w] \notin Sent /\ task' = task
      BY <2>6, <1>0 DEF Backoff, BackoffFrom, TypeOK
    <3>2. \A j \in Jobs :
             \/ qstate'[j] = qstate[j]
             \/ /\ qstate'[j] = "visible" /\ task[w].job = j /\ recv[j] = task[w].att
                /\ recv[j] = MaxReceive => pc'[w] = "failure"
      BY <2>6, <1>0 DEF Backoff, BackoffFrom, Current, TypeOK
    <3>3. \A j \in Jobs :
             \/ qstate'[j] = qstate[j]
             \/ qstate'[j] = "visible" /\ (recv[j] = MaxReceive => Answerable(j, {"failure"})')
      BY <3>1, <3>2 DEF Answerable
    <3>4. QED BY <2>1, <3>1, <3>3, UnsaidFrame
  <2>7. QED BY <1>4, <2>2, <2>3, <2>4, <2>5, <2>6 DEF JobStep
<1>5. ASSUME NEW w \in Workers, JobFails(w) \/ NextField(w) PROVE NothingUnsaid'
  <2>1. /\ qstate' = qstate /\ recv' = recv /\ spot' = spot
        /\ \A v \in Workers : \/ pc'[v] = pc[v] /\ task'[v] = task[v]
                              \/ pc[v] \notin Final /\ pc'[v] \notin Sent
    BY <1>5, <1>0 DEF JobFails, Fails, NextField, TypeOK
  <2>2. QED BY <2>1, UnsaidFrame
<1>6. CASE UNCHANGED vars
  BY <1>6, UnsaidFrame
<1>7. QED BY <1>1, <1>2, <1>3, <1>4, <1>5, <1>6 DEF Next, WorkerStep

\* A job that is over, in nobody's hands and unreported had its output refused or its
\* last receive expired, with any number of workers and receives: neither two workers
\* with receipts of one message, nor a refused delete or visibility call, nor an
\* instance that the group scales in or that replaces itself silences it.
THEOREM OnlySqsSilences ==
    ASSUME NoneLost
    PROVE  Spec => []SilenceIsExplained
<1>1. Init => NothingUnsaid
  BY DEF Init, NothingUnsaid, Sent
<1>2. IInv /\ NothingUnsaid /\ [Next]_vars => NothingUnsaid'
  BY UnsaidStep
<1>3. IInv /\ NothingUnsaid => SilenceIsExplained
  <2> SUFFICES ASSUME IInv, NothingUnsaid, NEW j \in Jobs, Abandoned(j)
               PROVE  Attempted(j) \/ [job |-> j, att |-> MaxReceive] \in expired
    BY DEF SilenceIsExplained, Attempted
  <2>1. \A w \in Workers : task[w].job # j
    BY DEF Abandoned
  <2>2. CASE qstate[j] = "deleted"
    BY <2>1, <2>2 DEF NothingUnsaid, Answerable
  <2>3. CASE qstate[j] = "dead"
    BY <2>1, <2>3 DEF NothingUnsaid, Answerable, IInv, DeadIsSpent
  <2>4. QED BY <2>2, <2>3 DEF Abandoned, Settled
<1>4. QED BY <1>1, <1>2, <1>3, Invariance, PTL DEF Spec

----------------------------------------------------------------------------
(* LLM jobs and transcriptions take different ways.                         *)

AudioSteps == {"ffmpeg", "transcribe", "park", "parkDelete", "badMedia", "noAudio",
               "noAudioDelete"}

\* An LLM job comes to no step about audio, and what is said of audio is not of it.
LlmJobsHaveNoAudio ==
    /\ \A w \in Workers : pc[w] \in AudioSteps => task[w].job \notin LlmJobs
    /\ \A o \in outputs : o.kind \in {"noAudio", "badMedia"} => o.job \notin LlmJobs

LEMMA NoAudioStep ==
    ASSUME TypeOK, LlmJobsHaveNoAudio, [Next]_vars
    PROVE  LlmJobsHaveNoAudio'
<1> USE DEF vars, queueVars, resultVars, processVars, groupVars, keepJob, Running,
    Stopped, Polling, Working, Releasing, Goto, LlmJobsHaveNoAudio, AudioSteps
<1>1. ASSUME NEW j \in Jobs, QueueStep(j) PROVE LlmJobsHaveNoAudio'
  BY <1>1 DEF QueueStep, Send, VisibilityExpires, Redrive
<1>2. ASSUME NEW w \in Workers,
             \/ GroupStep(w) \/ Crash(w) \/ NoticeInterruption(w) \/ PollStep(w)
             \/ JobFails(w) \/ NextField(w) \/ ReleaseStep(w)
      PROVE  LlmJobsHaveNoAudio'
  <2>1. /\ outputs' = outputs
        /\ \A v \in Workers : \/ pc'[v] = pc[v] /\ task'[v] = task[v]
                              \/ pc'[v] \notin AudioSteps
    BY <1>2 DEF GroupStep, Launch, EnterService, Start, ScaleIn, SpotScheduled, SpotImminent,
         Terminate, Boot, Crash, NoticeInterruption, PollStep, LeaveLoop, KeepArtifact,
         ReplaceInstance, SeeLifecycle, Protect, ProtectRefused, ReceiveNothing, Receive,
         ReceiveLost, JobFails, Fails, NextField, ReleaseStep, Release, ReleaseAndThrow, TypeOK
  <2>2. QED BY <2>1
<1>3. ASSUME NEW w \in Workers, JobStep(w) PROVE LlmJobsHaveNoAudio'
  <2>1. CASE NotifyBadMedia(w) \/ NotifyNoAudio(w)
    BY <1>3, <2>1 DEF NotifyBadMedia, NotifyNoAudio, Notify, TypeOK
  <2>2. CASE Publish(w) \/ NotifyFailure(w)
    BY <1>3, <2>2 DEF Publish, NotifyFailure, Notify, TypeOK
  <2>3. CASE \/ Read(w) \/ Download(w) \/ Ffmpeg(w) \/ Park(w) \/ ParkDelete(w)
             \/ NoAudioDelete(w) \/ ExtendVisibility(w) \/ Transcribe(w) \/ RunPrompt(w)
             \/ Upload(w) \/ Delete(w) \/ Backoff(w)
    <3>1. /\ outputs' = outputs
          /\ \A v \in Workers :
                \/ pc'[v] \notin AudioSteps
                \/ pc'[v] = pc[v] /\ task'[v] = task[v]
                \/ pc[v] \in AudioSteps /\ task'[v] = task[v]
                \/ task'[v] = task[v] /\ task[v].job \notin LlmJobs
      BY <2>3 DEF Read, Download, Ffmpeg, Park, ParkDelete, NoAudioDelete, ExtendVisibility,
              Transcribe, RunPrompt, Upload, Delete, Backoff, BackoffFrom, Boot, TypeOK
    <3>2. QED BY <3>1
  <2>4. QED BY <1>3, <2>1, <2>2, <2>3 DEF JobStep
<1>4. CASE UNCHANGED vars
  BY <1>4
<1>5. QED BY <1>1, <1>2, <1>3, <1>4 DEF Next, WorkerStep

\* No LLM job is reported to be without audio or to have bad media.
THEOREM AudioIsOfTranscriptions == Spec => []LlmJobsHaveNoAudio
<1>1. Init => LlmJobsHaveNoAudio
  BY DEF Init, LlmJobsHaveNoAudio, AudioSteps
<1>2. IInv /\ LlmJobsHaveNoAudio /\ [Next]_vars => LlmJobsHaveNoAudio'
  BY NoAudioStep DEF IInv
<1>3. QED BY <1>1, <1>2, Invariance, PTL DEF Spec

=============================================================================
