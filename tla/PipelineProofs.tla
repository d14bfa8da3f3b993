--------------------------- MODULE PipelineProofs ---------------------------
(***************************************************************************)
(* The fleet and the output handler keep their promises when they are       *)
(* joined, and together they keep those a user sees. The composition is     *)
(* shown to be a behaviour of each component, so that whatever is proved of *)
(* a component holds of it in the composition; what is left to prove is the *)
(* hand-over: a message is on the output queue just when a worker published *)
(* it.                                                                      *)
(***************************************************************************)
EXTENDS Pipeline, WorkerFleetRefinement

HandlerP == INSTANCE OutputHandlerProofs WITH
    Jobs <- Jobs \cup Downloads, Faults <- HandlerFaults, pc <- lambda

\* The handler's assumptions on its constants follow from the pipeline's. The ids
\* of transcripts and prompts differ, since a job is one or the other.
LEMMA HandlerAssumptions == HandlerP!ConstantsAssumption /\ HandlerP!IdsAssumption
<1>1. Messages \subseteq HandlerP!Output
  BY ConstantsAssumption
  DEF ConstantsAssumption, Messages, MessageOf, StatusOf, DownloadFailure, Outputs,
      HandlerP!Output, HandlerP!EmailKinds, HandlerP!LlmKinds
<1>2. HandlerFaults \subseteq HandlerP!FaultKinds
  BY PipelineAssumption DEF PipelineAssumption, HandlerP!FaultKinds, Handler!FaultKinds
<1>3. HandlerP!IsFiniteSet(Invocations)
  BY PipelineAssumption DEF PipelineAssumption, IsFiniteSet, HandlerP!IsFiniteSet
<1>4. HandlerP!ConstantsAssumption
  BY <1>1, <1>2, <1>3, PipelineAssumption DEF PipelineAssumption, HandlerP!ConstantsAssumption
<1>5. HandlerP!IdsAssumption
  BY DEF HandlerP!IdsAssumption, HandlerP!LlmKinds, Messages, MessageOf, StatusOf,
         DownloadFailure, Outputs
<1>6. QED BY <1>4, <1>5

\* The two instances of the handler's module are one.
LEMMA SameHandler ==
    /\ Handler!Init <=> HandlerP!Init
    /\ \A m \in Messages : /\ Handler!Send(m) <=> HandlerP!Send(m)
                           /\ Handler!VisibilityExpires(m) <=> HandlerP!VisibilityExpires(m)
    /\ \A l \in Invocations :
          /\ Handler!Step(l) <=> HandlerP!Step(l)
          /\ Handler!Crash(l) <=> HandlerP!Crash(l)
          /\ \A S \in SUBSET Messages : Handler!Deliver(l, S) <=> HandlerP!Deliver(l, S)
    /\ \A m \in Messages : /\ Handler!Told(m) <=> HandlerP!Told(m)
                           /\ Handler!Counted(m) <=> HandlerP!Counted(m)
<1>1. Handler!Init <=> HandlerP!Init
  BY DEF Handler!Init, HandlerP!Init
<1>2. ASSUME NEW m \in Messages
      PROVE  /\ Handler!Send(m) <=> HandlerP!Send(m)
             /\ Handler!VisibilityExpires(m) <=> HandlerP!VisibilityExpires(m)
             /\ Handler!Told(m) <=> HandlerP!Told(m)
             /\ Handler!Counted(m) <=> HandlerP!Counted(m)
  BY DEF Handler!Send, HandlerP!Send, Handler!VisibilityExpires, HandlerP!VisibilityExpires,
         Handler!lambdaVars, HandlerP!lambdaVars, Handler!Told, HandlerP!Told,
         Handler!EmailKinds, HandlerP!EmailKinds, Handler!Counted, HandlerP!Counted
<1>3. ASSUME NEW l \in Invocations, NEW S \in SUBSET Messages
      PROVE  Handler!Deliver(l, S) <=> HandlerP!Deliver(l, S)
  <2>1. Handler!Cardinality(S) = HandlerP!Cardinality(S)
    BY DEF Handler!Cardinality, HandlerP!Cardinality
  <2> QED
    BY <2>1
    DEF Handler!Deliver, HandlerP!Deliver, Handler!Deliverable, HandlerP!Deliverable
<1>4. ASSUME NEW l \in Invocations
      PROVE  /\ Handler!Leave(l) <=> HandlerP!Leave(l)
             /\ Handler!NextRecord(l) <=> HandlerP!NextRecord(l)
             /\ \A to : Handler!Goto(l, to) <=> HandlerP!Goto(l, to)
  BY DEF Handler!Leave, HandlerP!Leave, Handler!NextRecord, HandlerP!NextRecord,
         Handler!Goto, HandlerP!Goto
<1>5. ASSUME NEW l \in Invocations PROVE Handler!Crash(l) <=> HandlerP!Crash(l)
  BY <1>4 DEF Handler!Crash, HandlerP!Crash, Handler!Busy, HandlerP!Busy,
         Handler!queueVars, HandlerP!queueVars
<1>6. ASSUME NEW l \in Invocations PROVE Handler!Step(l) <=> HandlerP!Step(l)
  <2>1. Handler!Parse(l) <=> HandlerP!Parse(l)
    BY <1>4 DEF Handler!Parse, HandlerP!Parse, Handler!queueVars, HandlerP!queueVars
  <2>2. Handler!Return(l) <=> HandlerP!Return(l)
    BY <1>4 DEF Handler!Return, HandlerP!Return
  <2>3. Handler!WriteItem(l) <=> HandlerP!WriteItem(l)
    BY DEF Handler!WriteItem, HandlerP!WriteItem, Handler!ItemOf, HandlerP!ItemOf
  <2>4. Handler!Write(l) <=> HandlerP!Write(l)
    BY <1>4, <2>3 DEF Handler!Write, HandlerP!Write, Handler!queueVars, HandlerP!queueVars
  <2>5. Handler!Sign(l) <=> HandlerP!Sign(l)
    BY <1>4 DEF Handler!Sign, HandlerP!Sign, Handler!queueVars, HandlerP!queueVars
  <2>6. Handler!Email(l) <=> HandlerP!Email(l)
    BY <1>4 DEF Handler!Email, HandlerP!Email, Handler!queueVars, HandlerP!queueVars
  <2>7. Handler!Timing(l) <=> HandlerP!Timing(l)
    BY <1>4 DEF Handler!Timing, HandlerP!Timing, Handler!queueVars, HandlerP!queueVars
  <2>8. Handler!Alarm(l) <=> HandlerP!Alarm(l)
    BY <1>4 DEF Handler!Alarm, HandlerP!Alarm, Handler!queueVars, HandlerP!queueVars,
           Handler!FailurePoint, HandlerP!FailurePoint
  <2>9. \A m \in Messages : Handler!Take(l, m) <=> HandlerP!Take(l, m)
    BY DEF Handler!Take, HandlerP!Take, Handler!queueVars, HandlerP!queueVars,
           Handler!FirstAwait, HandlerP!FirstAwait
  <2>10. QED
    BY <2>1, <2>2, <2>4, <2>5, <2>6, <2>7, <2>8, <2>9 DEF Handler!Step, HandlerP!Step
<1>7. QED BY <1>1, <1>2, <1>3, <1>5, <1>6

----------------------------------------------------------------------------
(* The hand-over.                                                           *)

\* A fleet step says at most one thing.
LEMMA OneOutputAStep ==
    ASSUME TypeOK, [Next]_vars
    PROVE  \/ outputs' = outputs
           \/ \E o \in Outputs : outputs' = outputs \cup {o}
<1>1. CASE \E w \in Workers : JobStep(w)
  <2>1. PICK w \in Workers : JobStep(w)
    BY <1>1
  <2>2. CASE outputs' = outputs
    BY <2>2
  <2>3. CASE outputs' # outputs
    <3>1. task[w] \in Receipts
      BY <2>1, JobSays
    <3>2. PICK k \in OutputKinds : Notify(w, k)
      BY <2>1, <2>3, JobSays DEF OutputKinds
    <3>3. [job |-> task[w].job, att |-> task[w].att, kind |-> k] \in Outputs
      BY <3>1 DEF Receipts, Outputs
    <3> QED BY <2>3, <3>2, <3>3 DEF Notify
  <2> QED BY <2>2, <2>3
<1>2. CASE UNCHANGED <<outputs, muted, parked, uploaded>>
  BY <1>2
<1> QED BY <1>1, <1>2, OthersSayNothing

\* The output queue knows a worker's message just when the worker published it.
HandOver ==
    \A o \in Outputs :
        queue[MessageOf(o)] # "unsent" <=> \E p \in outputs : MessageOf(p) = MessageOf(o)

PipeInv == HandlerP!IInv /\ HandlerP!SentBefore /\ HandOver

\* Outputs are told apart from each other by the receive, and from the failures of
\* downloads by the kind.
LEMMA MessagesApart ==
    /\ \A o, p \in Outputs : MessageOf(o) = MessageOf(p) => o.job = p.job /\ o.att = p.att
    /\ \A o \in Outputs, d \in Downloads : MessageOf(o) # DownloadFailure(d)
    /\ \A o \in Outputs : MessageOf(o) \in Messages
    /\ \A d \in Downloads : DownloadFailure(d) \in Messages
<1>1. \A o, p \in Outputs : MessageOf(o) = MessageOf(p) => o.job = p.job /\ o.att = p.att
  BY DEF MessageOf
<1>2. \A o \in Outputs, d \in Downloads : MessageOf(o) # DownloadFailure(d)
  <2> SUFFICES ASSUME NEW o \in Outputs, NEW d \in Downloads, MessageOf(o) = DownloadFailure(d)
               PROVE  FALSE
    OBVIOUS
  <2>1. MessageOf(o).kind = StatusOf(o) /\ DownloadFailure(d).kind = "MEDIA_DOWNLOAD_FAILURE"
    BY DEF MessageOf, DownloadFailure
  <2> QED BY <2>1 DEF StatusOf
<1> QED BY <1>1, <1>2 DEF Messages

\* A fleet step publishes nothing, or one message that was not sent before.
LEMMA FleetHandsOver ==
    ASSUME IInv, IInv', PipeInv, FleetStep
    PROVE  HandOver' /\ [HandlerP!Next]_(HandlerP!vars)
<1> DEFINE published == {MessageOf(o) : o \in outputs' \ outputs}
<1>1. /\ Next
      /\ queue' = [m \in Messages |-> IF m \in published THEN "visible" ELSE queue[m]]
      /\ UNCHANGED <<deliveries, lambda, batch, left, at, item, emails, metrics>>
  BY DEF FleetStep
<1>2. outputs \subseteq Outputs /\ outputs' \subseteq Outputs /\ TypeOK /\ SpeaksOnce'
  BY DEF IInv, TypeOK
<1>3. queue \in [Messages -> {"unsent", "visible", "inflight", "consumed"}]
  BY DEF PipeInv, HandlerP!IInv, HandlerP!TypeOK
<1>4. CASE outputs' = outputs
  <2>1. queue' = queue
    BY <1>1, <1>3, <1>4
  <2> QED
    BY <1>1, <1>4, <2>1 DEF PipeInv, HandOver, HandlerP!vars, HandlerP!queueVars,
        HandlerP!lambdaVars
<1>5. ASSUME NEW o \in Outputs, outputs' = outputs \cup {o}, o \notin outputs
      PROVE  HandOver' /\ [HandlerP!Next]_(HandlerP!vars)
  <2>1. published = {MessageOf(o)} /\ MessageOf(o) \in Messages
    BY <1>5, MessagesApart
  <2>2. queue[MessageOf(o)] = "unsent"
    <3> SUFFICES ASSUME NEW p \in outputs, MessageOf(p) = MessageOf(o)
                 PROVE  FALSE
      BY DEF PipeInv, HandOver
    <3>1. p.job = o.job /\ p.att = o.att
      BY <1>2, MessagesApart
    <3> QED BY <1>2, <1>5, <3>1 DEF SpeaksOnce
  <2>3. queue' = [queue EXCEPT ![MessageOf(o)] = "visible"]
    BY <1>1, <1>3, <2>1
  <2>4. HandlerP!Send(MessageOf(o))
    BY <1>1, <2>2, <2>3 DEF HandlerP!Send, HandlerP!lambdaVars
  <2>5. HandOver'
    BY <1>2, <1>3, <1>5, <2>1, <2>3, MessagesApart DEF PipeInv, HandOver
  <2> QED BY <2>1, <2>4, <2>5 DEF HandlerP!Next
<1> QED BY <1>1, <1>2, <1>4, <1>5, OneOutputAStep

\* A step of the handler or the queue sends no worker's message and forgets none.
LEMMA HandlerKeepsHandOver ==
    ASSUME PipeInv, HandlerStep
    PROVE  HandOver' /\ HandlerP!Next
<1>1. HandlerP!TypeOK /\ HandlerP!SentBefore
  BY DEF PipeInv, HandlerP!IInv
<1>2. outputs' = outputs
  BY DEF HandlerStep, vars, resultVars
<1>3. HandlerP!Next
  BY SameHandler, MessagesApart DEF HandlerStep, HandlerP!Next
<1>4. \A m \in Messages : queue[m] # "unsent" => queue'[m] # "unsent"
  BY <1>1, <1>3, HandlerP!SentStays, HandlerAssumptions
<1>5. ASSUME NEW o \in Outputs, queue[MessageOf(o)] = "unsent"
      PROVE  queue'[MessageOf(o)] = "unsent"
  <2>1. MessageOf(o) \in Messages
    BY MessagesApart
  <2>2. ASSUME NEW d \in Downloads, Handler!Send(DownloadFailure(d))
        PROVE  queue'[MessageOf(o)] = "unsent"
    BY <1>1, <1>5, <2>1, <2>2, MessagesApart DEF Handler!Send, HandlerP!TypeOK
  <2>3. ASSUME NEW m \in Messages, Handler!VisibilityExpires(m)
        PROVE  queue'[MessageOf(o)] = "unsent"
    BY <1>1, <1>5, <2>1, <2>3 DEF Handler!VisibilityExpires, HandlerP!TypeOK
  <2>4. ASSUME NEW l \in Invocations, HandlerP!Step(l) \/ HandlerP!Crash(l)
        PROVE  queue'[MessageOf(o)] = "unsent"
    <3>1. CASE HandlerP!Return(l)
      BY <1>1, <1>5, <2>1, <3>1 DEF HandlerP!Return, HandlerP!SentBefore
    <3>2. CASE queue' = queue
      BY <1>5, <3>2
    <3> QED
      BY <2>4, <3>1, <3>2 DEF HandlerP!Step, HandlerP!Parse, HandlerP!Write, HandlerP!Sign,
          HandlerP!Email, HandlerP!Timing, HandlerP!Alarm, HandlerP!Take, HandlerP!Crash,
          HandlerP!queueVars
  <2>5. ASSUME NEW l \in Invocations, NEW S \in SUBSET Messages, Handler!Deliver(l, S)
        PROVE  queue'[MessageOf(o)] = "unsent"
    BY <1>5, <2>1, <2>5 DEF Handler!Deliver
  <2> QED BY <2>2, <2>3, <2>4, <2>5, SameHandler DEF HandlerStep
<1> QED BY <1>2, <1>3, <1>4, <1>5, MessagesApart DEF PipeInv, HandOver

\* Both go on in step, and the hand-over with them.
LEMMA PipeStep ==
    ASSUME IInv, IInv', PipeInv, [PipelineNext]_pipelineVars
    PROVE  PipeInv' /\ [HandlerP!Next]_(HandlerP!vars)
<1>1. HandOver' /\ [HandlerP!Next]_(HandlerP!vars)
  <2>1. CASE UNCHANGED pipelineVars
    BY <2>1 DEF pipelineVars, vars, resultVars, handlerVars, PipeInv, HandOver, HandlerP!vars,
        HandlerP!queueVars, HandlerP!lambdaVars
  <2> QED BY <2>1, FleetHandsOver, HandlerKeepsHandOver DEF PipelineNext
<1>2. HandlerP!IInv' /\ HandlerP!SentBefore'
  BY <1>1, HandlerP!InvariantStep, HandlerP!SentStep, HandlerAssumptions
  DEF PipeInv, HandlerP!IInv
<1> QED BY <1>1, <1>2 DEF PipeInv

\* Joined to the handler, the fleet does what it does alone.
THEOREM PipelineIsAFleet == PipelineSpec => Spec
<1>1. PipelineInit => Init
  BY DEF PipelineInit
<1>2. [PipelineNext]_pipelineVars => [Next]_vars
  BY DEF PipelineNext, FleetStep, HandlerStep, pipelineVars
<1> QED BY <1>1, <1>2, PTL DEF PipelineSpec, Spec

\* Fed by the fleet, the handler does what it does on a queue that anything may be
\* sent to: no output is published twice, so none is overwritten on the queue.
THEOREM PipelineIsAHandler == PipelineSpec => HandlerP!Spec /\ []PipeInv
<1>1. PipelineInit => HandlerP!Init /\ PipeInv
  <2> SUFFICES ASSUME PipelineInit
               PROVE  HandlerP!Init /\ PipeInv
    OBVIOUS
  <2>1. HandlerP!Init
    BY SameHandler DEF PipelineInit
  <2>2. HandlerP!IInv
    BY <2>1, HandlerP!InitInvariant, HandlerAssumptions
  <2>3. HandlerP!SentBefore
    BY <2>1, HandlerAssumptions DEF HandlerP!Init, HandlerP!SentBefore,
        HandlerP!ConstantsAssumption
  <2>4. HandOver
    BY <2>1, MessagesApart DEF PipelineInit, Init, HandlerP!Init, HandOver
  <2> QED BY <2>1, <2>2, <2>3, <2>4 DEF PipeInv
<1>2. IInv /\ IInv' /\ PipeInv /\ [PipelineNext]_pipelineVars
      => PipeInv' /\ [HandlerP!Next]_(HandlerP!vars)
  BY PipeStep
<1> QED
  BY <1>1, <1>2, PipelineIsAFleet, Invariance, PTL DEF PipelineSpec, HandlerP!Spec

\* Joined, the two keep what each promises: a user of the queues needs to know no
\* more than JobDelivery and Notification say.
THEOREM PromisesAreKept == PipelineSpec => ImplementsDelivery /\ HandlerP!ImplementsNotification
<1>1. HandlerP!Spec => HandlerP!ImplementsNotification
  BY HandlerP!HandlerImplementsNotification, HandlerAssumptions
<1> QED
  BY <1>1, PipelineIsAFleet, PipelineIsAHandler, FleetImplementsDelivery, PTL

----------------------------------------------------------------------------
(* What the users see.                                                      *)

\* All that the users' side rests on.
Facts ==
    /\ IInv /\ LlmJobsHaveNoAudio /\ RepeatsNeedAnExpiry
    /\ PipeInv /\ HandlerP!RepeatsNeedRedelivery

LEMMA FactsHold == PipelineSpec => []Facts
<1>1. HandlerP!Spec => []HandlerP!RepeatsNeedRedelivery
  BY HandlerP!RepeatsExplained, HandlerAssumptions
<1> QED
  BY <1>1, PipelineIsAFleet, PipelineIsAHandler, Invariance, AudioIsOfTranscriptions,
     RepeatsExplained, PTL DEF Facts

\* Behind an email or an item there is an output of a worker, of the same receive.
LEMMA MailWasPublished ==
    ASSUME Facts, NEW o \in Outputs, emails[MessageOf(o)] > 0
    PROVE  \E p \in outputs : MessageOf(p) = MessageOf(o)
<1>1. MessageOf(o) \in Messages
  BY MessagesApart
<1>2. emails[MessageOf(o)] \in Nat /\ deliveries[MessageOf(o)] \in Int
  BY <1>1, HandlerAssumptions
  DEF Facts, PipeInv, HandlerP!IInv, HandlerP!TypeOK, HandlerP!ConstantsAssumption
<1>3. deliveries[MessageOf(o)] > 0
  BY <1>1, <1>2 DEF Facts, HandlerP!RepeatsNeedRedelivery
<1> QED BY <1>1, <1>3 DEF Facts, PipeInv, HandlerP!SentBefore, HandOver

LEMMA ItemWasPublished ==
    ASSUME Facts, NEW j \in LlmJobs, item[j] # "none"
    PROVE  \E p \in outputs :
              /\ p.job = j
              /\ item[j] = IF p.kind = "success" THEN "llmSuccess" ELSE "llmFailure"
<1>1. j \in Jobs \cup Downloads
  BY ConstantsAssumption DEF ConstantsAssumption
<1>2. PICK m \in Messages :
         /\ m.job = j /\ m.kind \in HandlerP!LlmKinds \cup {"SUCCESS"}
         /\ queue[m] # "unsent" /\ item[j] = HandlerP!ItemOf(m)
  BY <1>1 DEF Facts, PipeInv, HandlerP!SentBefore
<1>3. PICK o \in Outputs : m = MessageOf(o)
  BY <1>2 DEF Messages, DownloadFailure, HandlerP!LlmKinds
<1>4. PICK p \in outputs : MessageOf(p) = m
  BY <1>2, <1>3 DEF Facts, PipeInv, HandOver
<1>5. p.job = j /\ m.kind = IF p.kind = "success" THEN "LLM_SUCCESS" ELSE "LLM_FAILURE"
  BY <1>2, <1>4 DEF MessageOf, StatusOf
<1> QED BY <1>2, <1>5 DEF HandlerP!ItemOf

\* With any number of workers, lambdas and deliveries, and whatever fails, no user
\* reads of a result that is not there, nor of a failure that a worker may yet mend.
THEOREM UsersToldTheTruth == PipelineSpec => []UsersAreToldTheTruth
<1>1. ASSUME Facts PROVE UsersAreToldTheTruth
  <2>1. /\ outputs \subseteq Outputs /\ recv \in [Jobs -> 0..MaxReceive]
        /\ OutputsAreJustified /\ HandedOut
    BY <1>1 DEF Facts, IInv, TypeOK
  <2>2. ASSUME NEW o \in Outputs, MessageOf(o).kind = "SUCCESS", emails[MessageOf(o)] > 0
        PROVE  [job |-> o.job, att |-> o.att] \in uploaded /\ item[o.job] = "transcript"
    <3>1. PICK p \in outputs : MessageOf(p) = MessageOf(o)
      BY <1>1, <2>2, MailWasPublished
    <3>2. p.kind = "success" /\ p.job = o.job /\ p.att = o.att
      BY <2>2, <3>1 DEF MessageOf, StatusOf
    <3>3. MessageOf(o).job = o.job /\ MessageOf(o) \in Messages
      BY MessagesApart DEF MessageOf
    <3>4. item[o.job] = "transcript"
      BY <1>1, <2>2, <3>3 DEF Facts, PipeInv, HandlerP!IInv, HandlerP!LinksWork
    <3> QED BY <2>1, <3>2, <3>4 DEF OutputsAreJustified
  <2>3. ASSUME NEW o \in Outputs, MessageOf(o).kind = "TRANSCRIPTION_FAILURE",
               emails[MessageOf(o)] > 0
        PROVE  \/ o.att = MaxReceive \/ [job |-> o.job, att |-> o.att] \in parked
               \/ [job |-> o.job, att |-> o.att, kind |-> "noAudio"] \in outputs
    <3>1. PICK p \in outputs : MessageOf(p) = MessageOf(o)
      BY <1>1, <2>3, MailWasPublished
    <3>2. p.kind # "success" /\ p.job = o.job /\ p.att = o.att
      BY <2>3, <3>1 DEF MessageOf, StatusOf
    <3>3. p = [job |-> o.job, att |-> o.att, kind |-> p.kind] /\ p.kind \in OutputKinds
      BY <2>1, <3>2 DEF Outputs
    <3> QED BY <2>1, <3>2, <3>3 DEF OutputsAreJustified, OutputKinds
  <2>4. ASSUME NEW j \in LlmJobs
        PROVE  /\ item[j] = "llmSuccess" => \E r \in uploaded : r.job = j
               /\ item[j] = "llmFailure" => recv[j] = MaxReceive
    <3>1. ASSUME NEW p \in outputs, p.job = j, p.kind = "success"
          PROVE  \E r \in uploaded : r.job = j
      BY <2>1, <3>1 DEF OutputsAreJustified
    <3>2. ASSUME NEW p \in outputs, p.job = j, p.kind # "success"
          PROVE  recv[j] = MaxReceive
      <4>1. p.kind = "failure"
        BY <1>1, <2>1, <3>2 DEF Facts, LlmJobsHaveNoAudio, Outputs, OutputKinds
      <4>2. p.att = MaxReceive /\ p.att <= recv[j] /\ recv[j] \in 0..MaxReceive
        BY <2>1, <3>2, <4>1, ConstantsAssumption
        DEF OutputsAreJustified, HandedOut, ConstantsAssumption
      <4> QED BY <4>2, ConstantsAssumption DEF ConstantsAssumption
    <3> QED BY <1>1, <3>1, <3>2, ItemWasPublished
  <2> QED BY <2>2, <2>3, <2>4 DEF UsersAreToldTheTruth
<1> QED BY <1>1, FactsHold, PTL

\* Whatever fails and however often a job is tried, a user is mailed twice only when
\* SQS repeats something: the job, after its visibility ran out, or its output.
THEOREM SecondEmailsExplained == PipelineSpec => []SecondEmailsNeedARepeat
<1>1. ASSUME Facts, NEW o \in Outputs, emails[MessageOf(o)] > 1
      PROVE  deliveries[MessageOf(o)] > 1
  <2>1. MessageOf(o) \in Messages
    BY MessagesApart
  <2>2. emails[MessageOf(o)] \in Nat /\ deliveries[MessageOf(o)] \in Int
    BY <1>1, <2>1, HandlerAssumptions
    DEF Facts, PipeInv, HandlerP!IInv, HandlerP!TypeOK, HandlerP!ConstantsAssumption
  <2> QED BY <1>1, <2>1, <2>2 DEF Facts, HandlerP!RepeatsNeedRedelivery
<1>2. ASSUME Facts, NEW o \in Outputs, NEW p \in Outputs, o.job = p.job, o.att < p.att,
             emails[MessageOf(o)] > 0, emails[MessageOf(p)] > 0
      PROVE  [job |-> o.job, att |-> o.att] \in expired
  <2>1. PICK q \in outputs : MessageOf(q) = MessageOf(o)
    BY <1>2, MailWasPublished
  <2>2. PICK r \in outputs : MessageOf(r) = MessageOf(p)
    BY <1>2, MailWasPublished
  <2>3. q.job = o.job /\ q.att = o.att /\ r.job = p.job /\ r.att = p.att
    BY <2>1, <2>2 DEF MessageOf
  <2> QED BY <1>2, <2>3 DEF Facts, RepeatsNeedAnExpiry
<1>3. Facts => SecondEmailsNeedARepeat
  BY <1>1, <1>2 DEF SecondEmailsNeedARepeat
<1> QED BY <1>3, FactsHold, PTL

\* What a worker published is waiting, told or counted, even if processes are lost.
THEOREM OutputsArrive == PipelineSpec => [](\A o \in outputs : Arrives(MessageOf(o)))
<1>1. ASSUME Facts, NEW o \in outputs PROVE Arrives(MessageOf(o))
  <2>1. o \in Outputs /\ MessageOf(o) \in Messages
    BY <1>1, MessagesApart DEF Facts, IInv, TypeOK
  <2>2. queue[MessageOf(o)] \in {"visible", "inflight", "consumed"}
    BY <1>1, <2>1 DEF Facts, PipeInv, HandOver, HandlerP!IInv, HandlerP!TypeOK
  <2>3. queue[MessageOf(o)] = "consumed" =>
           Handler!Told(MessageOf(o)) \/ Handler!Counted(MessageOf(o))
    BY <1>1, <2>1, SameHandler
    DEF Facts, PipeInv, HandlerP!IInv, HandlerP!ConsumedMeansToldOrCounted
  <2> QED BY <2>2, <2>3 DEF Arrives
<1>2. Facts => \A o \in outputs : Arrives(MessageOf(o))
  BY <1>1
<1> QED BY <1>2, FactsHold, PTL

\* From the task queue to the mailbox, with any number of workers, receives, lambdas
\* and deliveries, a job that is over was heard of, is on its way, or was silenced by
\* SQS, whatever happens to the invocations of the lambda.
THEOREM EveryEndHeard ==
    ASSUME NoneLost
    PROVE  PipelineSpec => []EveryEndIsHeard
<1>1. Spec => []SilenceIsExplained
  BY OnlySqsSilences
<1>2. (\A o \in outputs : Arrives(MessageOf(o))) /\ SilenceIsExplained => EveryEndIsHeard
  BY DEF EveryEndIsHeard
<1> QED BY <1>1, <1>2, OutputsArrive, PipelineIsAFleet, PTL

=============================================================================
