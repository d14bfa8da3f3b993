-------------------------------- MODULE LlmApi --------------------------------
(***************************************************************************)
(* A prompt from the page to its result: the pages Prompt.tsx and           *)
(* Translate.tsx, POST /llm-prompt, which asks Bedrock itself or sends a    *)
(* job to the GPU task queue, and GET /llm-prompt, which the page polls.    *)
(* Each prompt is polled by two loops, that of handleSubmit and that of     *)
(* useEffect, and a loop goes on when the page has moved on to another      *)
(* prompt. Of the GPU workers each receive of a job is modelled with the     *)
(* awaits it is at: the prompt and the upload, the report, the delete, and   *)
(* the catch block. WorkerFleet and LlmWorker have the rest of them.         *)
(***************************************************************************)
EXTENDS Naturals

CONSTANTS
    MaxPrompts, \* a bound: how often the form is submitted
    Backends,   \* the backends that are picked
    MaxTries,   \* MAX_RECEIVE_COUNT: how often the job of a prompt is received
    LlmFaults,
    MaxUpsets   \* a bound: how many of them happen in one behaviour

LlmFaultKinds ==
    { "api",     \* S3 or Bedrock fails a call of the POST handler
      "table",   \* a write of the item fails, or seems to
      "queue",   \* the send of the job fails, or seems to
      "network", \* the page gets no answer to a request
      "repeat",  \* a job is received again while a worker has it in hand
      "sqs",     \* a worker's report or delete, or its visibility call, fails
      "crash",   \* a worker is lost with a job in hand
      "reload"}  \* the page is loaded again

ASSUME LlmApiAssumption ==
    /\ MaxPrompts \in Nat \ {0} /\ MaxTries \in Nat \ {0} /\ MaxUpsets \in Nat
    /\ Backends \subseteq {"LOCAL", "BEDROCK"}
    /\ LlmFaults \subseteq LlmFaultKinds

VARIABLES
    form,     \* the RequestStatus of the page
    promptId, \* the prompt of its URL, 0 for none
    displayed, \* the prompt whose result is on the page, 0 for none
    fetching, \* the prompts whose POST the page awaits
    polls,    \* [Loops -> what the loop is waiting for]
    backend,  \* [Prompts -> the backend picked for it]
    handler,  \* [Prompts -> the await its POST handler is at]
    output,   \* [Prompts -> the output in S3]
    llmItem,  \* [Prompts -> its item in the table]
    llmJob,   \* [Prompts -> its job on the GPU task queue]
    worker,   \* [Prompts -> [Tries -> the await of the worker that received it]]
    reports,  \* what workers reported and the output handler has not handled
    attempts, \* what they ever reported
    late,     \* prompts still posted or polled when another was submitted
    upsets    \* how many faults there were

promptPageVars == <<form, promptId, displayed, fetching, polls, late>>
storeVars == <<output, llmItem, llmJob, worker, reports, attempts>>
llmApiVars == <<promptPageVars, backend, handler, storeVars, upsets>>

Prompts == 1..MaxPrompts
Tries == 1..MaxTries
Loops == Prompts \X {"submit", "effect"}

Posting == {"put", "bedrock", "output", "item", "send"}
OnJob == {"prompt", "publish", "delete", "failing"}
Verdicts == {"LLM_SUCCESS", "LLM_FAILURE"}

LlmApiInit ==
    /\ form = "Ready" /\ promptId = 0 /\ displayed = 0
    /\ fetching = {} /\ late = {} /\ upsets = 0
    /\ polls = [l \in Loops |-> "none"]
    /\ backend = [n \in Prompts |-> "none"]
    /\ handler = [n \in Prompts |-> "none"]
    /\ output = [n \in Prompts |-> "none"]
    /\ llmItem = [n \in Prompts |-> "none"]
    /\ llmJob = [n \in Prompts |-> "none"]
    /\ worker = [n \in Prompts |-> [t \in Tries |-> "none"]]
    /\ reports = {} /\ attempts = {}

Upset(kind) ==
    /\ kind \in LlmFaults
    /\ upsets < MaxUpsets
    /\ upsets' = upsets + 1

----------------------------------------------------------------------------
(* POST /llm-prompt.                                                        *)

Handles(n, from) == handler[n] = from

\* Mutant of Replies: the status of the answer is 200 whatever happened.
RepliesWell(n, to) ==
    handler' = [handler EXCEPT ![n] = IF to = "500" THEN "200" ELSE to]

\* After a failure the handler answers 500 and goes on to a second res.send, which
\* throws: the answer stands.
Replies(n, to) == handler' = [handler EXCEPT ![n] = to]

\* putObject of the prompt, whose status is not looked at.
PutPrompt(n) ==
    /\ Handles(n, "put")
    /\ \/ /\ Replies(n, IF backend[n] = "BEDROCK" THEN "bedrock" ELSE "send")
          /\ UNCHANGED upsets
       \/ Upset("api") /\ Replies(n, "500")
    /\ UNCHANGED <<promptPageVars, backend, storeVars>>

\* sendPromptToBedrock, while the request is open.
SendPromptToBedrock(n) ==
    /\ Handles(n, "bedrock")
    /\ \/ Replies(n, "output") /\ UNCHANGED upsets
       \/ Upset("api") /\ Replies(n, "500")
    /\ UNCHANGED <<promptPageVars, backend, storeVars>>

\* Mutant of PutOutput: the status of the upload is not looked at.
PutOutputUnchecked(n) ==
    /\ Handles(n, "output")
    /\ Replies(n, "item")
    /\ output' \in {output, [output EXCEPT ![n] = "plain"]}
    /\ UNCHANGED <<promptPageVars, backend, llmItem, llmJob, worker, reports, attempts, upsets>>

\* bedrockLlmJob stores the text as it is.
PutOutput(n) ==
    /\ Handles(n, "output")
    /\ \/ /\ Replies(n, "item") /\ UNCHANGED upsets
          /\ output' = [output EXCEPT ![n] = "plain"]
       \/ /\ Upset("api")
          /\ Replies(n, "500")
          /\ output' \in {output, [output EXCEPT ![n] = "plain"]}
    /\ UNCHANGED <<promptPageVars, backend, llmItem, llmJob, worker, reports, attempts>>

\* saveLllmOutput.
SaveItem(n) ==
    /\ Handles(n, "item")
    /\ LET saved == [llmItem EXCEPT ![n] = "LLM_SUCCESS"]
       IN \/ Replies(n, "200") /\ llmItem' = saved /\ UNCHANGED upsets
          \/ Upset("table") /\ Replies(n, "500") /\ llmItem' \in {llmItem, saved}
    /\ UNCHANGED <<promptPageVars, backend, output, llmJob, worker, reports, attempts>>

\* sendLlmJob.
SendLlmJob(n) ==
    /\ Handles(n, "send")
    /\ LET sent == [llmJob EXCEPT ![n] = "queued"]
       IN \/ Replies(n, "200") /\ llmJob' = sent /\ UNCHANGED upsets
          \/ Upset("queue") /\ Replies(n, "500") /\ llmJob' \in {llmJob, sent}
    /\ UNCHANGED <<promptPageVars, backend, output, llmItem, worker, reports, attempts>>

PostStep(n) ==
    \/ PutPrompt(n) \/ SendPromptToBedrock(n) \/ PutOutput(n)
    \/ SaveItem(n) \/ SendLlmJob(n)

----------------------------------------------------------------------------
(* The workers and the output handler.                                      *)

Report(n, t, says) == [id |-> n, nth |-> t, says |-> says]

WorkerAt(n, t, p) == worker[n][t] = p
Goes(n, t, p) == worker' = [worker EXCEPT ![n][t] = p]

\* The message is that of the last receive: the receipt handle of it is good.
Current(n, t) == \A u \in Tries : u > t => WorkerAt(n, u, "none")

\* The job is received: for the first time, or again because it was not deleted. It
\* takes a visibility that runs out to receive it beside another worker.
ReceiveJob(n, t) ==
    /\ llmJob[n] = "queued"
    /\ WorkerAt(n, t, "none") /\ \A u \in Tries : u < t => ~WorkerAt(n, u, "none")
    /\ IF \E u \in Tries : worker[n][u] \in OnJob
         THEN Upset("repeat") ELSE UNCHANGED upsets
    /\ Goes(n, t, "prompt")
    /\ UNCHANGED <<promptPageVars, backend, handler, output, llmItem, llmJob, reports, attempts>>

\* Mutant of UploadOutput: the status of the upload is not looked at.
UploadOutputUnchecked(n, t) ==
    /\ WorkerAt(n, t, "prompt")
    /\ Goes(n, t, "publish")
    /\ output' \in {output, [output EXCEPT ![n] = "gzip"]}
    /\ UNCHANGED <<promptPageVars, backend, handler, llmItem, llmJob, reports, attempts, upsets>>

\* processLLMOrTranslationJob: the prompt is answered and the output uploaded. Either
\* throws when it fails; an upload may have been stored though it seems to fail.
UploadOutput(n, t) ==
    /\ WorkerAt(n, t, "prompt")
    /\ LET stored == [output EXCEPT ![n] = "gzip"]
       IN \/ Goes(n, t, "publish") /\ output' = stored
          \/ Goes(n, t, "failing") /\ output' \in {output, stored}
    /\ UNCHANGED <<promptPageVars, backend, handler, llmItem, llmJob, reports, attempts, upsets>>

Tells(r) == reports' = reports \cup {r} /\ attempts' = attempts \cup {r}
TellsNothing == UNCHANGED <<reports, attempts>>

\* The report of the success. A send that fails is not noticed.
PublishSuccess(n, t) ==
    /\ WorkerAt(n, t, "publish")
    /\ Goes(n, t, "delete")
    /\ \/ Tells(Report(n, t, "LLM_SUCCESS")) /\ UNCHANGED upsets
       \/ Upset("sqs") /\ TellsNothing
    /\ UNCHANGED <<promptPageVars, backend, handler, output, llmItem, llmJob>>

\* Mutant of DeleteJob: a delete that fails throws, into the catch block.
DeleteJobThrowing(n, t) ==
    /\ WorkerAt(n, t, "delete")
    /\ \/ /\ Goes(n, t, "over") /\ UNCHANGED upsets
          /\ llmJob' = IF Current(n, t) THEN [llmJob EXCEPT ![n] = "deleted"] ELSE llmJob
       \/ Upset("sqs") /\ Goes(n, t, "failing") /\ UNCHANGED llmJob
    /\ UNCHANGED <<promptPageVars, backend, handler, output, llmItem, reports, attempts>>

\* deleteMessage, which catches what it throws. An old receipt handle deletes nothing.
DeleteJob(n, t) ==
    /\ WorkerAt(n, t, "delete")
    /\ Goes(n, t, "over")
    /\ \/ /\ llmJob' = IF Current(n, t) THEN [llmJob EXCEPT ![n] = "deleted"] ELSE llmJob
          /\ UNCHANGED upsets
       \/ Upset("sqs") /\ UNCHANGED llmJob
    /\ UNCHANGED <<promptPageVars, backend, handler, output, llmItem, reports, attempts>>

\* Mutant of GiveUp: the failure is reported on every receive.
GiveUpAtOnce(n, t) ==
    /\ WorkerAt(n, t, "failing")
    /\ Goes(n, t, "over")
    /\ Tells(Report(n, t, "LLM_FAILURE"))
    /\ UNCHANGED <<promptPageVars, backend, handler, output, llmItem, llmJob, upsets>>

\* The catch block: the message is made visible, and the failure reported if it will
\* not be received again. Neither happens when the call for the visibility throws.
GiveUp(n, t) ==
    /\ WorkerAt(n, t, "failing")
    /\ Goes(n, t, "over")
    /\ \/ /\ UNCHANGED upsets
          /\ IF t >= MaxTries THEN Tells(Report(n, t, "LLM_FAILURE")) ELSE TellsNothing
       \/ Upset("sqs") /\ TellsNothing
    /\ UNCHANGED <<promptPageVars, backend, handler, output, llmItem, llmJob>>

\* The instance is terminated, or its process dies.
LoseWorker(n, t) ==
    /\ Upset("crash")
    /\ worker[n][t] \in OnJob
    /\ Goes(n, t, "over")
    /\ UNCHANGED <<promptPageVars, backend, handler, output, llmItem, llmJob, reports, attempts>>

WorkerStep(n, t) ==
    \/ ReceiveJob(n, t) \/ UploadOutput(n, t) \/ PublishSuccess(n, t)
    \/ DeleteJob(n, t) \/ GiveUp(n, t) \/ LoseWorker(n, t)

\* handleLLMFailure, handleLLMSuccess: the item is replaced, and the order of the
\* reports of two attempts is any. A write that fails is counted, not retried.
HandleReport(r) ==
    /\ r \in reports
    /\ reports' = reports \ {r}
    /\ \/ llmItem' = [llmItem EXCEPT ![r.id] = r.says] /\ UNCHANGED upsets
       \/ Upset("table") /\ UNCHANGED llmItem
    /\ UNCHANGED <<promptPageVars, backend, handler, output, llmJob, worker, attempts>>

BackStep ==
    \/ \E n \in Prompts, t \in Tries : WorkerStep(n, t)
    \/ \E r \in reports : HandleReport(r)

----------------------------------------------------------------------------
(* GET /llm-prompt.                                                         *)

\* getObjectText(..., gzipped = true) fails on what is not gzipped.
Unzips(n) == output[n] = "gzip"

\* What the page takes for a result: LlmResult must have an output, which a failed
\* prompt has not, and which is left out when the object cannot be read.
Complete(n) == llmItem[n] = "LLM_SUCCESS" /\ Unzips(n)

----------------------------------------------------------------------------
(* The page.                                                                *)

Live(l) == polls[l] # "none"

\* handleSubmit up to the POST. The button is disabled while one is awaited.
SubmitPrompt(n, b) ==
    /\ form # "InProgress"
    /\ backend[n] = "none" /\ \A m \in Prompts : m < n => backend[m] # "none"
    /\ b \in Backends
    /\ backend' = [backend EXCEPT ![n] = b]
    /\ handler' = [handler EXCEPT ![n] = "put"]
    /\ form' = "InProgress" /\ displayed' = 0
    /\ fetching' = fetching \cup {n}
    /\ late' = late \cup fetching \cup {m \in Prompts : \E l \in Loops : l[1] = m /\ Live(l)}
    /\ UNCHANGED <<promptId, polls, storeVars, upsets>>

\* Mutant of Answered: the id of the URL is left as it is.
AnsweredInPlace(n) ==
    /\ n \in fetching /\ handler[n] \in {"200", "500"}
    /\ fetching' = fetching \ {n}
    /\ IF handler[n] = "200"
         THEN /\ form' = "Waiting"
              /\ polls' = [l \in Loops |-> IF l[1] = n THEN "wait" ELSE polls[l]]
         ELSE form' = "Failed" /\ UNCHANGED polls
    /\ UNCHANGED <<promptId, displayed, late, backend, handler, storeVars, upsets>>

Answered(n) ==
    /\ n \in fetching /\ handler[n] \in {"200", "500"}
    /\ fetching' = fetching \ {n}
    /\ IF handler[n] = "200"
         THEN /\ form' = "Waiting" /\ promptId' = n
              /\ polls' = [l \in Loops |-> IF l[1] = n THEN "wait" ELSE polls[l]]
         ELSE form' = "Failed" /\ UNCHANGED <<promptId, polls>>
    /\ UNCHANGED <<displayed, late, backend, handler, storeVars, upsets>>

\* The connection is lost, or the gateway does not wait for Bedrock any longer.
NoAnswer(n) ==
    /\ Upset("network")
    /\ n \in fetching
    /\ fetching' = fetching \ {n}
    /\ form' = "Failed"
    /\ UNCHANGED <<promptId, displayed, polls, late, backend, handler, storeVars>>

\* The GET handler reads the item and the output. For anything but a complete result
\* the loop asks again in a while, for ever.
Get(l) ==
    /\ polls[l] = "wait"
    /\ Complete(l[1])
    /\ polls' = [polls EXCEPT ![l] = "result"]
    /\ UNCHANGED <<form, promptId, displayed, fetching, late, backend, handler, storeVars, upsets>>

\* A fetch that rejects takes its loop with it: the next timer is only set after an
\* answer.
Breaks(l) ==
    /\ Upset("network")
    /\ polls[l] = "wait"
    /\ polls' = [polls EXCEPT ![l] = "none"]
    /\ UNCHANGED <<form, promptId, displayed, fetching, late, backend, handler, storeVars>>

\* Mutant of GetResult: poll sets its timer whatever it got.
GetResultAgain(l) ==
    /\ polls[l] = "result"
    /\ polls' = [polls EXCEPT ![l] = "wait"]
    /\ form' = "Success" /\ displayed' = l[1]
    /\ UNCHANGED <<promptId, fetching, late, backend, handler, storeVars, upsets>>

\* poll shows what it got, of whatever prompt it was.
GetResult(l) ==
    /\ polls[l] = "result"
    /\ polls' = [polls EXCEPT ![l] = "none"]
    /\ form' = "Success" /\ displayed' = l[1]
    /\ UNCHANGED <<promptId, fetching, late, backend, handler, storeVars, upsets>>

\* Mutant of Reload: useEffect polls though there is no prompt.
ReloadAnyhow ==
    /\ Upset("reload")
    /\ form' = "Ready" /\ displayed' = 0 /\ fetching' = {}
    /\ polls' = [l \in Loops \cup {<<promptId, "effect">>} |->
                    IF l = <<promptId, "effect">> THEN "wait" ELSE "none"]
    /\ UNCHANGED <<promptId, late, backend, handler, storeVars>>

\* The page is loaded anew: useEffect polls the prompt of the URL.
Reload ==
    /\ Upset("reload")
    /\ form' = "Ready" /\ displayed' = 0 /\ fetching' = {}
    /\ polls' = [l \in Loops |-> IF l = <<promptId, "effect">> THEN "wait" ELSE "none"]
    /\ UNCHANGED <<promptId, late, backend, handler, storeVars>>

PageStep ==
    \/ \E n \in Prompts : Answered(n) \/ NoAnswer(n)
    \/ \E l \in Loops : Get(l) \/ GetResult(l) \/ Breaks(l)
    \/ Reload

----------------------------------------------------------------------------
LlmApiNext ==
    \/ \E n \in Prompts : \E b \in Backends : SubmitPrompt(n, b)
    \/ \E n \in Prompts : PostStep(n)
    \/ BackStep \/ PageStep

LlmApiSpec == LlmApiInit /\ [][LlmApiNext]_llmApiVars

\* A POST is handled and answered; timers fire, and a GET that is repeated works.
LlmApiFairness ==
    /\ \A n \in Prompts : WF_llmApiVars(PostStep(n) \/ Answered(n))
    /\ \A l \in Loops : WF_llmApiVars(Get(l) \/ GetResult(l))

LlmApiFairSpec == LlmApiSpec /\ LlmApiFairness

----------------------------------------------------------------------------
(* Properties.                                                              *)

\* Every variable has its type.
LlmApiTypeOK ==
    /\ form \in {"Ready", "InProgress", "Waiting", "Success", "Failed"}
    /\ promptId \in 0..MaxPrompts
    /\ displayed \in 0..MaxPrompts
    /\ fetching \subseteq Prompts
    /\ polls \in [Loops -> {"none", "wait", "result"}]
    /\ backend \in [Prompts -> Backends \cup {"none"}]
    /\ handler \in [Prompts -> Posting \cup {"none", "200", "500"}]
    /\ output \in [Prompts -> {"none", "plain", "gzip"}]
    /\ llmItem \in [Prompts -> Verdicts \cup {"none"}]
    /\ llmJob \in [Prompts -> {"none", "queued", "deleted"}]
    /\ worker \in [Prompts -> [Tries -> OnJob \cup {"none", "over"}]]
    /\ attempts \subseteq [id : Prompts, nth : Tries, says : Verdicts]
    /\ reports \subseteq attempts
    /\ late \subseteq Prompts /\ upsets \in 0..MaxUpsets

\* A page polls only for a prompt that was accepted: its job is on the queue, or its
\* item was written. Otherwise it would poll for ever (api index.ts:289).
PolledIsAccepted ==
    \A l \in Loops : Live(l) => llmJob[l[1]] # "none" \/ llmItem[l[1]] = "LLM_SUCCESS"

\* An item that says success has the output in S3 that the prompt's backend leaves,
\* whoever wrote it, whichever calls failed and whatever was attempted again.
SuccessHasOutput ==
    \A n \in Prompts :
        llmItem[n] = "LLM_SUCCESS" =>
            output[n] = IF backend[n] = "LOCAL" THEN "gzip" ELSE "plain"

\* The page shows the result of the prompt of its URL. To make this untrue it takes
\* one of the two to be late: still posted or polled when another was submitted.
ShownIsCurrent ==
    displayed \notin {0, promptId} => displayed \in late \/ promptId \in late

\* A prompt is told to have failed only once nobody will try it again: the last
\* receive of its job was given up (index.ts:331 of the worker).
FailureIsFinal ==
    \A n \in Prompts : llmItem[n] = "LLM_FAILURE" => WorkerAt(n, MaxTries, "over")

\* A success that the item does not tell of, because a failure was handled after it,
\* is that of another worker than the one that reported the failure. (The output can
\* be there without a report: an upload only seems to fail, or a worker is lost.)
HiddenSuccessWasRepeated ==
    \A n \in Prompts : \A r, s \in attempts :
        /\ llmItem[n] = "LLM_FAILURE"
        /\ r.id = n /\ r.says = "LLM_FAILURE" /\ s.id = n /\ s.says = "LLM_SUCCESS"
        => s.nth < r.nth

\* No loop goes on asking for a result that is there to stay.
LoopsEnd ==
    \A n \in Prompts :
        <>[]Complete(n) => <>[](\A l \in Loops : l[1] = n => ~Live(l))

\* A prompt that is done and asked for is displayed, whichever backend it had.
FinishedIsShown ==
    \A n \in Prompts :
        llmItem[n] # "none" /\ (\E l \in Loops : l[1] = n /\ Live(l)) ~> displayed = n

\* The item, the output and the reports, which are written apart and more than once,
\* belong together: a success has its output, a failure is final, and a success that
\* is hidden behind a failure was reported by an earlier worker.
ItemsTellOutputs == SuccessHasOutput /\ FailureIsFinal /\ HiddenSuccessWasRepeated

=============================================================================
