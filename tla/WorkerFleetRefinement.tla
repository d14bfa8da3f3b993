----------------------- MODULE WorkerFleetRefinement -----------------------
(***************************************************************************)
(* The fleet implements JobDelivery, and what its steps never do to a       *)
(* message another worker holds.                                            *)
(***************************************************************************)
EXTENDS WorkerFleetProofs

phase == [j \in Jobs |-> PhaseOf(qstate[j])]

\* The whole abstract state, as a stuttering step leaves it.
SameDelivery ==
    /\ phase' = phase /\ recv' = recv /\ outputs' = outputs
    /\ muted' = muted /\ parked' = parked

\* A step that changes nothing the sender sees is a stuttering step.
LEMMA Stutter ==
    ASSUME SameDelivery
    PROVE  [Delivery!Next]_(Delivery!vars)
  BY DEF SameDelivery, phase, Delivery!vars

\* Steps that leave the messages, the outputs and the copies alone.
LEMMA StutterOutside ==
    ASSUME UNCHANGED <<qstate, recv, outputs, muted, parked>>
    PROVE  [Delivery!Next]_(Delivery!vars)
  BY Stutter DEF SameDelivery, phase

\* The queue's own steps submit a job, settle one that had its tries, or show
\* the sender nothing.
LEMMA QueueRefines ==
    ASSUME IInv, NEW j \in Jobs, QueueStep(j)
    PROVE  [Delivery!Next]_(Delivery!vars)
<1> USE DEF IInv, TypeOK, resultVars, Delivery!vars
<1>1. CASE Send(j)
  <2>1. Delivery!Submit(j)
    BY <1>1 DEF Send, Delivery!Submit, PhaseOf
  <2>2. QED BY <2>1 DEF Delivery!Next
<1>2. CASE VisibilityExpires(j)
  BY <1>2, Stutter DEF VisibilityExpires, SameDelivery, phase, PhaseOf
<1>3. CASE Redrive(j)
  <2>1. Delivery!Settle(j)
    BY <1>3 DEF Redrive, Delivery!Settle, PhaseOf
  <2>2. QED BY <2>1 DEF Delivery!Next
<1>4. QED BY <1>1, <1>2, <1>3 DEF QueueStep

\* Handing a message out is a try, whether or not the worker gets it.
LEMMA HandOutRefines ==
    ASSUME IInv, NEW j \in Jobs, HandOut(j), UNCHANGED <<outputs, muted, parked>>
    PROVE  [Delivery!Next]_(Delivery!vars)
<1>1. Delivery!Try(j)
  BY DEF HandOut, Receivable, IInv, TypeOK, Delivery!Try, PhaseOf
<1>2. QED BY <1>1 DEF Delivery!Next

\* A worker that sends its output speaks for its try; one whose message could not
\* be sent leaves a trace.
LEMMA NotifyRefines ==
    ASSUME IInv, NEW w \in Workers, NEW k \in OutputKinds, Notify(w, k),
           pc[w] \in Silent, k = "failure" => pc[w] = "failure",
           UNCHANGED <<qstate, recv, parked>>
    PROVE  [Delivery!Next]_(Delivery!vars)
<1> DEFINE r == task[w]
<1>1. r \in Delivery!Tries /\ r \in Receipts
  BY DEF IInv, TypeOK, Silent, Working, Receipts, Delivery!Tries
<1>2. r.att <= recv[r.job]
  BY <1>1 DEF IInv, HandedOut, Receipts, NoTask, TypeOK, Silent, Working
<1>3. CASE outputs' = outputs \cup {[job |-> r.job, att |-> r.att, kind |-> k]} /\ UNCHANGED muted
  <2>1. \A o \in outputs : ~Speaks(o, r)
    BY DEF IInv, Progress, ProgressOf
  <2>2. Delivery!Said(r) = {}
    BY <2>1 DEF Delivery!Said, Speaks
  <2>3. k = "failure" => r.att = MaxReceive
    BY DEF IInv, Progress, ProgressOf
  <2>4. Delivery!Speak(r, k)
    BY <1>2, <1>3, <2>2, <2>3 DEF Delivery!Speak
  <2>5. k \in Delivery!Kinds
    BY DEF Delivery!Kinds, OutputKinds
  <2>6. QED BY <1>1, <2>4, <2>5 DEF Delivery!Next
<1>4. CASE muted' = muted \cup {r} /\ UNCHANGED outputs
  <2>1. Delivery!Trace(r)
    BY <1>2, <1>4 DEF Delivery!Trace
  <2>2. QED BY <1>1, <2>1 DEF Delivery!Next
<1>5. QED BY <1>3, <1>4 DEF Notify

\* A worker deletes its message only after its try spoke or left a trace.
LEMMA DeleteRefines ==
    ASSUME IInv, NEW w \in Workers, pc[w] \in {"parkDelete", "noAudioDelete", "delete"},
           TryDelete(w), UNCHANGED <<recv, outputs, muted, parked>>
    PROVE  [Delivery!Next]_(Delivery!vars)
<1>1. CASE qstate' = qstate
  BY <1>1, StutterOutside
<1>2. CASE Current(task[w]) /\ qstate' = [qstate EXCEPT ![task[w].job] = "deleted"]
  <2> DEFINE j == task[w].job
  <2>1. j \in Jobs /\ task[w] \in Delivery!Tries
    BY DEF IInv, TypeOK, Working, Receipts, Delivery!Tries
  <2>2. Spoken(task[w])
    BY DEF IInv, Progress, ProgressOf, Spoken
  <2>3. task[w] \in muted \cup parked \/ Delivery!Said(task[w]) # {}
    BY <2>2 DEF Spoken, Delivery!Said, Delivery!Kinds, OutputKinds
  <2>4. Delivery!Settle(j)
    BY <1>2, <2>1, <2>3 DEF Current, Delivery!Settle, PhaseOf, IInv, TypeOK
  <2>5. QED BY <2>1, <2>4 DEF Delivery!Next
<1>3. QED BY <1>1, <1>2 DEF TryDelete

\* The steps of a job speak, leave a trace, settle the job or show nothing.
LEMMA JobRefines ==
    ASSUME IInv, NEW w \in Workers, JobStep(w)
    PROVE  [Delivery!Next]_(Delivery!vars)
<1> USE DEF queueVars, resultVars
<1>1. CASE NotifyBadMedia(w) \/ NotifyNoAudio(w) \/ Publish(w) \/ NotifyFailure(w)
  BY <1>1, NotifyRefines DEF NotifyBadMedia, NotifyNoAudio, Publish, NotifyFailure,
     Goto, Silent, Working, OutputKinds
<1>2. CASE ParkDelete(w) \/ NoAudioDelete(w) \/ Delete(w)
  BY <1>2, DeleteRefines DEF ParkDelete, NoAudioDelete, Delete, Goto
<1>3. CASE Park(w)
  <2>1. CASE parked' = parked
    BY <1>3, <2>1, StutterOutside DEF Park
  <2>2. CASE parked' = parked \cup {task[w]}
    <3>1. task[w] \in Receipts /\ task[w] \in Delivery!Tries
      BY <1>3, JobSays DEF IInv, Receipts, Delivery!Tries
    <3>2. task[w].att <= recv[task[w].job]
      BY <3>1, ConstantsAssumption DEF IInv, HandedOut, Receipts, NoTask
    <3>3. Delivery!Trace(task[w])
      BY <1>3, <2>2, <3>2 DEF Park, Delivery!Trace
    <3>4. QED BY <3>1, <3>3 DEF Delivery!Next
  <2>3. QED BY <1>3, <2>1, <2>2 DEF Park
<1>4. CASE Backoff(w)
  BY <1>4, Stutter DEF Backoff, BackoffFrom, Current, SameDelivery, phase, PhaseOf, IInv,
     TypeOK
<1>5. CASE \/ Read(w) \/ Download(w) \/ Ffmpeg(w) \/ ExtendVisibility(w)
           \/ Transcribe(w) \/ RunPrompt(w) \/ Upload(w)
  BY <1>5, StutterOutside DEF Read, Download, Ffmpeg, ExtendVisibility, Transcribe,
     RunPrompt, Upload
<1>6. QED BY <1>1, <1>2, <1>3, <1>4, <1>5 DEF JobStep

\* Every step of the fleet is a step of JobDelivery or shows the sender nothing.
LEMMA StepRefines ==
    ASSUME IInv, [Next]_vars
    PROVE  [Delivery!Next]_(Delivery!vars)
<1> USE DEF vars, queueVars, resultVars
<1>1. ASSUME NEW w \in Workers, PollStep(w) PROVE [Delivery!Next]_(Delivery!vars)
  <2>1. CASE \E j \in Jobs : Receive(w, j) \/ ReceiveLost(w, j)
    BY <2>1, HandOutRefines DEF Receive, ReceiveLost
  <2>2. CASE ~\E j \in Jobs : Receive(w, j) \/ ReceiveLost(w, j)
    BY <1>1, <2>2, StutterOutside DEF PollStep, LeaveLoop, KeepArtifact,
       ReplaceInstance, SeeLifecycle, Protect, ProtectRefused, ReceiveNothing
  <2>3. QED BY <2>1, <2>2
<1>2. ASSUME NEW w \in Workers,
             \/ GroupStep(w) \/ Crash(w) \/ NoticeInterruption(w) \/ ReleaseStep(w)
             \/ JobFails(w) \/ NextField(w)
      PROVE  [Delivery!Next]_(Delivery!vars)
  BY <1>2, StutterOutside DEF GroupStep, Launch, EnterService, Start, ScaleIn,
     SpotScheduled, SpotImminent, Terminate, Crash, NoticeInterruption, ReleaseStep,
     Release, ReleaseAndThrow, JobFails, Fails, NextField
<1>3. CASE UNCHANGED vars
  BY <1>3, StutterOutside
<1>4. QED BY <1>1, <1>2, <1>3, QueueRefines, JobRefines DEF Next, WorkerStep

\* The fleet implements JobDelivery: for whoever sends jobs, workers that are
\* scaled in, crash, overrun their visibility or lose their answers are no worse
\* than a queue that tries each job a bounded number of times.
THEOREM FleetImplementsDelivery == Spec => ImplementsDelivery
<1>1. Init => Delivery!Init
  BY DEF Init, Delivery!Init, PhaseOf
<1>2. IInv /\ [Next]_vars => [Delivery!Next]_(Delivery!vars)
  BY StepRefines
<1>3. QED
  BY <1>1, <1>2, Invariance, PTL DEF Spec, ImplementsDelivery, Delivery!Spec

\* The receipt handle that a process remembers for checkSpotInterrupt is never
\* the current one of another worker.
THEOREM NoticesAreHarmless == Spec => NoticeLeavesOthersAlone
<1>1. ASSUME IInv, NEW w \in Workers, NEW j \in Jobs, NoticeInterruption(w),
             vis'[j] # vis[j], NEW v \in Workers \ {w}, task[v].job = j, Current(task[v])
      PROVE  FALSE
  <2>1. Current(handle[w]) /\ handle[w].job = j
    BY <1>1 DEF NoticeInterruption, IInv, TypeOK, Current
  <2>2. task[v].att = handle[w].att /\ task[v].job = handle[w].job
    BY <1>1, <2>1 DEF Current
  <2>3. task[v] \in Receipts /\ handle[w] \in Receipts
    BY <1>1, <2>1, ConstantsAssumption DEF IInv, TypeOK, NoTask
  <2>4. task[v] = handle[w]
    BY <2>2, <2>3 DEF Receipts
  <2>5. handle[w] # NoTask
    BY <2>3, ConstantsAssumption DEF Receipts, NoTask
  <2>6. QED BY <1>1, <2>4, <2>5 DEF IInv, Remembered
<1>2. IInv => [\A w \in Workers, j \in Jobs :
                  NoticeInterruption(w) /\ vis'[j] # vis[j] =>
                     \A v \in Workers \ {w} : ~(task[v].job = j /\ Current(task[v]))]_vars
  BY <1>1
<1>3. QED BY <1>2, Invariance, PTL DEF NoticeLeavesOthersAlone

=============================================================================
