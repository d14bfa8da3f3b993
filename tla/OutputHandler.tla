--------------------------- MODULE OutputHandler ---------------------------
(***************************************************************************)
(* The output handler lambda, the standard SQS queue that feeds it and the  *)
(* table, mailboxes and metrics it writes: what becomes of the output       *)
(* messages of workers and media downloads. One action is one stretch of    *)
(* code between two awaits.                                                 *)
(***************************************************************************)
EXTENDS Integers, FiniteSets

CONSTANTS
    Jobs,          \* ids of transcripts and LLM prompts
    Messages,      \* the messages that are sent, see Output
    Invocations,   \* concurrent executions of the lambda
    NoMessage,     \* stands for "no message"
    BatchSize,     \* records of one invocation, at most
    MaxDeliveries, \* how often a message is delivered within its retention
    Faults         \* the kinds of faults the environment may produce

FaultKinds ==
    { "work",      \* a DynamoDB write or an email fails, or seems to
      "metric",    \* a CloudWatch PutMetricData fails
      "crash",     \* the invocation throws elsewhere or is stopped
      "delete",    \* the poller's delete of a handled batch fails
      "duplicate"} \* the queue delivers a message that is not visible

EmailKinds == {"SUCCESS", "TRANSCRIPTION_FAILURE", "MEDIA_DOWNLOAD_FAILURE"}
LlmKinds == {"LLM_SUCCESS", "LLM_FAILURE"}

\* An output message of one attempt at a job; an invalid one does not parse.
Output == [job : Jobs, att : Nat, kind : EmailKinds \cup LlmKinds \cup {"invalid"}]

ASSUME ConstantsAssumption ==
    /\ Messages \subseteq Output
    /\ NoMessage \notin Messages
    /\ IsFiniteSet(Invocations)
    /\ BatchSize \in Nat \ {0} /\ MaxDeliveries \in Nat
    /\ Faults \subseteq FaultKinds

\* Ids are fresh: a transcript and an LLM prompt never share one.
ASSUME IdsAssumption ==
    \A m, n \in Messages :
        m.job = n.job /\ m.kind = "SUCCESS" => n.kind \notin LlmKinds

VARIABLES
    queue,      \* [Messages -> where the message is]
    deliveries, \* [Messages -> how often it was delivered]
    pc,         \* [Invocations -> the await it is at]
    batch,      \* [Invocations -> its records]
    left,       \* [Invocations -> the records it has not begun]
    at,         \* [Invocations -> the record it is handling]
    item,       \* [Jobs -> what the table has]
    emails,     \* [Messages -> emails sent for it]
    metrics     \* failures that were counted, with the message being handled

queueVars == <<queue, deliveries>>
lambdaVars == <<pc, batch, left, at>>
vars == <<queueVars, lambdaVars, item, emails, metrics>>

Busy == {"parse", "next", "write", "sign", "email", "timing", "alarm"}

Init ==
    /\ queue = [m \in Messages |-> "unsent"]
    /\ deliveries = [m \in Messages |-> 0]
    /\ pc = [l \in Invocations |-> "idle"]
    /\ batch = [l \in Invocations |-> {}]
    /\ left = [l \in Invocations |-> {}]
    /\ at = [l \in Invocations |-> NoMessage]
    /\ item = [j \in Jobs |-> "none"]
    /\ emails = [m \in Messages |-> 0]
    /\ metrics = {}

----------------------------------------------------------------------------
(* The queue and its poller.                                                *)

Send(m) ==
    /\ queue[m] = "unsent"
    /\ queue' = [queue EXCEPT ![m] = "visible"]
    /\ UNCHANGED <<deliveries, lambdaVars, item, emails, metrics>>

Deliverable(m) ==
    /\ deliveries[m] < MaxDeliveries
    /\ \/ queue[m] = "visible"
       \/ "duplicate" \in Faults /\ queue[m] # "unsent"

Deliver(l, S) ==
    /\ pc[l] = "idle"
    /\ S # {} /\ Cardinality(S) <= BatchSize /\ \A m \in S : Deliverable(m)
    /\ pc' = [pc EXCEPT ![l] = "parse"]
    /\ batch' = [batch EXCEPT ![l] = S]
    /\ left' = [left EXCEPT ![l] = S]
    /\ queue' = [m \in Messages |->
                    IF m \in S /\ queue[m] = "visible" THEN "inflight" ELSE queue[m]]
    /\ deliveries' = [m \in Messages |-> deliveries[m] + IF m \in S THEN 1 ELSE 0]
    /\ UNCHANGED <<at, item, emails, metrics>>

\* The messages of an invocation that ended without their deletion come back.
VisibilityExpires(m) ==
    /\ queue[m] = "inflight"
    /\ \A l \in Invocations : m \notin batch[l]
    /\ queue' = [queue EXCEPT ![m] = "visible"]
    /\ UNCHANGED <<deliveries, lambdaVars, item, emails, metrics>>

----------------------------------------------------------------------------
(* processMessage.                                                          *)

\* Mutant of Leave: the record it was handling is not let go.
LeaveHolding(l) ==
    /\ pc' = [pc EXCEPT ![l] = "idle"]
    /\ batch' = [batch EXCEPT ![l] = {}]
    /\ left' = [left EXCEPT ![l] = {}]
    /\ UNCHANGED at

\* The invocation is over; nothing is reported about single records.
Leave(l) ==
    /\ pc' = [pc EXCEPT ![l] = "idle"]
    /\ batch' = [batch EXCEPT ![l] = {}]
    /\ left' = [left EXCEPT ![l] = {}]
    /\ at' = [at EXCEPT ![l] = NoMessage]

Goto(l, to) ==
    /\ pc' = [pc EXCEPT ![l] = to]
    /\ UNCHANGED <<batch, left, at>>

\* The record is dealt with.
NextRecord(l) ==
    /\ pc' = [pc EXCEPT ![l] = "next"]
    /\ at' = [at EXCEPT ![l] = NoMessage]
    /\ UNCHANGED <<batch, left>>

\* Mutant of Parse: the records that do not parse are passed over, and the rest
\* of the batch with them.
ParseOrReturn(l) ==
    /\ pc[l] = "parse"
    /\ pc' = [pc EXCEPT ![l] = "next"]
    /\ left' = [left EXCEPT ![l] = IF \E m \in batch[l] : m.kind = "invalid" THEN {} ELSE @]
    /\ UNCHANGED <<queueVars, batch, at, item, emails, metrics>>

\* One record that does not parse fails the whole batch.
Parse(l) ==
    /\ pc[l] = "parse"
    /\ IF \E m \in batch[l] : m.kind = "invalid"
         THEN Leave(l)
         ELSE Goto(l, "next")
    /\ UNCHANGED <<queueVars, item, emails, metrics>>

\* Mutant of FirstAwait: the email is sent before the item is written.
FirstAwaitEmail(m) == IF m.kind \in LlmKinds THEN "write" ELSE "email"

FirstAwait(m) ==
    CASE m.kind = "TRANSCRIPTION_FAILURE" -> "sign"
      [] m.kind = "MEDIA_DOWNLOAD_FAILURE" -> "email"
      [] OTHER -> "write"

\* The loop over the records; SQS gives them in no particular order.
Take(l, m) ==
    /\ pc[l] = "next" /\ m \in left[l]
    /\ pc' = [pc EXCEPT ![l] = FirstAwait(m)]
    /\ left' = [left EXCEPT ![l] = @ \ {m}]
    /\ at' = [at EXCEPT ![l] = m]
    /\ UNCHANGED <<queueVars, batch, item, emails, metrics>>

\* After the last record the poller deletes the batch.
Return(l) ==
    /\ pc[l] = "next" /\ left[l] = {}
    /\ Leave(l)
    /\ \/ queue' = [m \in Messages |-> IF m \in batch[l] THEN "consumed" ELSE queue[m]]
       \/ "delete" \in Faults /\ UNCHANGED queue
    /\ UNCHANGED <<deliveries, item, emails, metrics>>

ItemOf(m) ==
    CASE m.kind = "SUCCESS" -> "transcript"
      [] m.kind = "LLM_SUCCESS" -> "llmSuccess"
      [] OTHER -> "llmFailure"

\* writeDynamoItem replaces the item of the job; a write that seems to have
\* failed may have been made.
WriteItem(l) == item' = [item EXCEPT ![at[l].job] = ItemOf(at[l])]

Write(l) ==
    /\ pc[l] = "write"
    /\ \/ /\ WriteItem(l)
          /\ IF at[l].kind = "SUCCESS" THEN Goto(l, "email") ELSE NextRecord(l)
       \/ /\ "work" \in Faults
          /\ Goto(l, "alarm")
          /\ UNCHANGED item \/ WriteItem(l)
    /\ UNCHANGED <<queueVars, emails, metrics>>

\* getSignedDownloadUrl, before the try block of the failure email.
Sign(l) ==
    /\ pc[l] = "sign"
    /\ Goto(l, "email")
    /\ UNCHANGED <<queueVars, item, emails, metrics>>

\* sendEmail. A success may be followed by a timing metric, in the try block.
Email(l) ==
    /\ pc[l] = "email"
    /\ \/ /\ emails' = [emails EXCEPT ![at[l]] = @ + 1]
          /\ \/ NextRecord(l)
             \/ at[l].kind = "SUCCESS" /\ Goto(l, "timing")
       \/ /\ "work" \in Faults
          /\ Goto(l, "alarm")
          /\ UNCHANGED emails \/ emails' = [emails EXCEPT ![at[l]] = @ + 1]
    /\ UNCHANGED <<queueVars, item, metrics>>

\* SecondsFromEnqueueToCompleteEmailSent; only failures are kept in metrics.
Timing(l) ==
    /\ pc[l] = "timing"
    /\ \/ NextRecord(l)
       \/ "metric" \in Faults /\ Goto(l, "alarm")
    /\ UNCHANGED <<queueVars, item, emails, metrics>>

\* FailureMetric, with the message in whose handling it is counted.
FailurePoint(m) == [of |-> m, name |-> "Failure"]

\* Mutants of Alarm: the record is tried again at once; the loop is left.
AlarmAndRetry(l) ==
    /\ pc[l] = "alarm"
    /\ Goto(l, "email")
    /\ metrics' = metrics \cup {FailurePoint(at[l])}
    /\ UNCHANGED <<queueVars, item, emails>>
AlarmAndBreak(l) ==
    /\ pc[l] = "alarm"
    /\ pc' = [pc EXCEPT ![l] = "next"]
    /\ left' = [left EXCEPT ![l] = {}]
    /\ at' = [at EXCEPT ![l] = NoMessage]
    /\ metrics' = metrics \cup {FailurePoint(at[l])}
    /\ UNCHANGED <<queueVars, batch, item, emails>>

\* The catch block counts a failure; if that fails too the invocation throws.
Alarm(l) ==
    /\ pc[l] = "alarm"
    /\ \/ /\ NextRecord(l)
          /\ metrics' = metrics \cup {FailurePoint(at[l])}
       \/ /\ "metric" \in Faults
          /\ Leave(l)
          /\ UNCHANGED metrics
    /\ UNCHANGED <<queueVars, item, emails>>

\* Reading the configuration or signing a URL throws, or Lambda's time is up.
Crash(l) ==
    /\ "crash" \in Faults
    /\ pc[l] \in Busy
    /\ Leave(l)
    /\ UNCHANGED <<queueVars, item, emails, metrics>>

----------------------------------------------------------------------------
Step(l) ==
    \/ Parse(l) \/ Return(l) \/ Write(l) \/ Sign(l)
    \/ Email(l) \/ Timing(l) \/ Alarm(l)
    \/ \E m \in Messages : Take(l, m)

Next ==
    \/ \E m \in Messages : Send(m) \/ VisibilityExpires(m)
    \/ \E l \in Invocations :
          Step(l) \/ Crash(l) \/ \E S \in SUBSET Messages : Deliver(l, S)

Spec == Init /\ [][Next]_vars

\* An invocation goes on, a message comes back, and one that keeps being there is
\* delivered in the end.
FairSpec ==
    /\ Spec
    /\ \A l \in Invocations : WF_vars(Step(l) \/ Crash(l))
    /\ \A m \in Messages :
          /\ WF_vars(VisibilityExpires(m))
          /\ SF_vars(\E l \in Invocations, S \in SUBSET Messages :
                        /\ m \in S /\ queue[m] = "visible"
                        /\ Deliver(l, S))

----------------------------------------------------------------------------
(* Properties.                                                              *)

\* Every variable has its type; an invocation handles records of its batch.
TypeOK ==
    /\ queue \in [Messages -> {"unsent", "visible", "inflight", "consumed"}]
    /\ deliveries \in [Messages -> 0..MaxDeliveries]
    /\ pc \in [Invocations -> Busy \cup {"idle"}]
    /\ batch \in [Invocations -> SUBSET Messages]
    /\ left \in [Invocations -> SUBSET Messages]
    /\ at \in [Invocations -> Messages \cup {NoMessage}]
    /\ \A l \in Invocations :
          /\ left[l] \subseteq batch[l] /\ at[l] \in batch[l] \cup {NoMessage}
          /\ pc[l] \in Busy \ {"parse", "next"} <=> at[l] \in Messages
    /\ item \in [Jobs -> {"none", "transcript", "llmSuccess", "llmFailure"}]
    /\ emails \in [Messages -> Nat]
    /\ metrics \subseteq {FailurePoint(m) : m \in Messages}

Told(m) ==
    IF m.kind \in EmailKinds THEN emails[m] > 0
    ELSE item[m.job] \in {"llmSuccess", "llmFailure"}
Counted(m) == \E d \in metrics : d.of = m

\* A message is consumed only when its user was told (by email, or by the item
\* that the prompt page reads) or its failure was counted: neither a bad record
\* in the batch, nor an earlier record's failure, nor a second delivery takes a
\* message away unhandled.
ConsumedMeansToldOrCounted ==
    \A m \in Messages : queue[m] = "consumed" => Told(m) \/ Counted(m)

\* The links in a success email work: the item they lead to was written before,
\* and no other message has replaced it.
LinksWork ==
    \A m \in Messages :
        m.kind = "SUCCESS" /\ emails[m] > 0 => item[m.job] = "transcript"

\* A user gets a second email about one message only if SQS delivered the message
\* again; every delivery accounts for one email.
RepeatsNeedRedelivery == \A m \in Messages : emails[m] <= deliveries[m]

\* What the sender of a message sees of it.
StateOf(q) ==
    CASE q = "unsent" -> "unsent"
      [] q \in {"visible", "inflight"} -> "pending"
      [] OTHER -> "settled"

Notice ==
    INSTANCE Notification WITH
        MaxChances <- MaxDeliveries,
        state <- [m \in Messages |-> StateOf(queue[m])],
        chances <- deliveries,
        counted <- {d.of : d \in metrics}

\* The handler implements what Notification promises: one email per delivery, no
\* success without its item, nothing settled that was neither told nor counted.
ImplementsNotification == Notice!Spec

\* Every message that is sent is told or counted in the end, whatever fails in
\* handling the records beside it, or it is delivered until its retention ends: a
\* batch that throws each time is not dropped earlier.
HandledInTheEnd ==
    \A m \in Messages :
        queue[m] = "visible" ~> Told(m) \/ Counted(m) \/ deliveries[m] = MaxDeliveries

=============================================================================
