# Transcription service: TLA+ models, model checking and proofs

This directory models the transcription service: the pages that submit work, the
endpoints they call, the GPU workers and their task queue, the LLM jobs inside a
worker, media downloads and webpage snapshots, the output handler, the export of
transcripts to Google Drive, and the lambda that sizes the fleet. Each part is a
TLA+ module translated from the TypeScript source, checked by TLC on small
instances and, for nearly all of the safety properties, proved with TLAPS for
every instance.
`PROJECT.json` lists the runs, the mutants that show each property can fail, the
source lines of each definition, the hazards, and the theorems.

    tlc -workers 2 -config WorkerFleet_faults.cfg MCWorkerFleet.tla
    tlapm WorkerFleetProofs.tla

## 1. The system

A user uploads media or gives a URL; the API (or Giant, another service) puts a
job on a queue; a worker of an auto scaling group transcribes, translates or
prompts an LLM, uploads the result to S3 and puts an output message on another
queue; a lambda turns that message into a DynamoDB item and an email; the user
exports the transcript to Google Drive from a web page.

    upload page --POST /transcribe-file--> API --SendMessage--> task queue (FIFO) --> workers
      |                                     ^ \                   ^    |  redrive        |
      +--POST /transcribe-url--> API        |  +--Bedrock--> S3   |    v                 v
                 |                          |                     |   dead letters   output queue
                 v                          |                     |                      |
      media download queue --pipe--> download task ---------------+                      v
                 |                     |  (requestTranscription)               output handler --> DynamoDB, SES
    Giant, SNS --+--> snapshot queue   +--> YouTube event                                         ^
                         |                                                                        |
                         v                                                                        |
                    snapshot lambda --> replies to the requester                                  |
    export page --POST /export/export--> API --> Google Docs                                      |
                                          +--> media-export lambda --> Google Drive --------------+
    prompt pages --POST, GET /llm-prompt--> API --> Bedrock, or the task queue
    capacity manager (each minute) --> desired capacity of the workers' group

| component | state | operations | what is hard | what makes it correct |
|---|---|---|---|---|
| worker, polling and jobs (`worker/src/index.ts`, `transcribe.ts`, `llama-cpp.ts`, `llm.ts`, `asg.ts`, `spot-termination.ts`) | module variables `INTERRUPTION_TIME` and `CURRENT_MESSAGE_RECEIPT_HANDLE`, the job in hand, scale-in protection | poll, protect, receive, run a job, publish, delete, back off, release | scale-in and spot notices between two awaits, crashes, expired receipts, errors inside the catch block, swallowed SQS failures | no scale-in under a job; one output per receive; failures told once and on the last receive; no job lost in silence; every job leaves the queue |
| task queue (`backend-common/src/sqs.ts`, `cdk/lib/transcription-service.ts`) | messages with receive counts and visibility timeouts, dead letter queue | send, receive, change visibility, delete, redrive | redelivery while the first receiver goes on | repeats only after an expiry; what a worker's notice does leaves the others' messages alone |
| llama-server management (`worker/src/llama-server.ts`) | reference to a child process | start, reuse, stop | a process that died or never became healthy | every server can be stopped, none holds the GPU while whisperx runs |
| LLM prompt pool (`worker/src/llm.ts`) | `nextIndex` and the outputs of a prompt | run prompts concurrently | one prompt fails while the others go on | every chunk asked for once, and answered or the job fails |
| API export handler (`api/src/index.ts`, `export.ts`) | `exportStatuses` in the transcript's item, a local copy | announce, export documents, invoke the media lambda, record | read-modify-write of a whole item by several writers | no success without a file; no result lost |
| media-export lambda | the item as it was when it started | copy media to Drive, record the status | Lambda's retries, writing back an old item | one upload; the status gets recorded |
| export form (`client/.../ExportForm.tsx`) | the statuses it shows | request, poll | lost answers, another tab | it ends, and its verdict is true |
| output handler (`output-handler/src/index.ts`, `ses.ts`) | none of its own; the item, emails, metrics | handle a batch of output messages | one bad record fails the batch, swallowed errors, redelivery | nothing consumed unhandled; links that work; repeats only from redelivery |
| upload page and its endpoints (`client/.../UploadForm.tsx`, `SubmitResult.tsx`, `api/src/index.ts`) | status and list of entries of the form; objects in S3, queues | sign, upload, request a job for each entry | a loop that goes on after failures, thrown awaits, a form given back while the handler of the last one runs | what is shown as submitted is queued; no failure forgotten; a verdict in the end |
| LLM prompt endpoints and pages (`api/src/llm.ts`, `backend-common/src/llm.ts`, `client/.../Prompt.tsx`, `Translate.tsx`) | item and output of each prompt; the page's polling loops | post a prompt, run it, report it, poll | Bedrock inline, failure after the answer, outputs stored by attempts that fail, reports in any order, loops of an earlier prompt | polls only for accepted prompts; item, output and reports agree; loops end; every result is shown |
| media download (`media-download/src`, `cdk/lib/media-download-service.ts`) | one message per task, a list of routes | download by proxy, with cookies, directly; record; forward or report | which failure goes on to which route, ignored send results, a pipe that starts and forgets | reports are true, and each start reports once |
| webpage snapshot (`webpage-snapshot/src/index.ts`) | none of its own; a batch | snapshot, upload and answer each record | a record that fails, a batch that fails, ignored send results | each record consumed was answered once, a success has its file |
| capacity manager (`worker-capacity-manager/src`) | desired capacity | count, read the maximum, set | overlapping runs, approximate and outdated counts, jobs in flight | enough workers for the jobs it saw; the group follows the queue |

Other parts keep no state of their own: logging, text masking (`shakira.ts`),
rendering, and the declarative CDK code, build files and scripts.

### Interactions that the models compose

* Workers share the task queue and never talk to each other: everything one
  learns of another it learns by receiving, or failing to delete, a message.
* A worker and its auto scaling group race: protection is a remote flag that the
  worker sets before it receives and clears afterwards.
* `checkSpotInterrupt` runs beside the polling loop and uses a module variable
  the loop sets.
* Four writers replace one DynamoDB item: the export handlers of several tabs,
  the lambdas they start, and the output handler.
* SQS repeats output messages, and a throwing lambda repeats its whole batch.
* The export, upload and prompt pages share their state with handlers and timers of
  what was submitted before.
* The item of a prompt and its output in S3 are written by different programs, at
  different times, for every attempt at the job, and either write may seem to fail.
* The capacity manager counts what the workers are taking off the queue.

## 2. Modules

| module | what it is |
|---|---|
| `WorkerFleet` | workers, task queue, auto scaling group, spot notices |
| `JobDelivery` | abstract: what the queue and the workers promise to the sender of a job |
| `MCWorkerFleet` | symmetry for TLC |
| `WorkerFleetProofs` | types, the inductive invariant, the safety theorems, and what can silence a job |
| `WorkerFleetRefinement` | the fleet implements `JobDelivery`; spot notices leave the others' messages alone |
| `LlmWorker` | LLM jobs inside one worker: llama-servers, prompt pools, whisperx |
| `MCLlmWorker` | instances for TLC |
| `LlmWorkerProofs` | types, the pool and the server bookkeeping for all sizes and faults |
| `Export` | export page, API handler, media lambda and the item they share |
| `MCExport` | selections of export types, symmetry |
| `ExportProofs` | types, that recorded successes are real, and what holds for one tab or without repeats |
| `OutputHandler` | output queue, invocations of the lambda, item, emails, failure metric |
| `Notification` | abstract: what the output handler promises to those who wait for a result |
| `OutputHandlerProofs` | types, consumption, links, the count of emails; the handler implements `Notification` |
| `Pipeline` | the fleet and the output handler, joined by the output queue |
| `MCPipeline` | one job at a time, for TLC |
| `PipelineProofs` | the pipeline is a fleet and a handler; what users are told, how often, and that they are |
| `MediaDownload` | media download queue, the pipe, the download tasks, the YouTube event |
| `MediaDownloadProofs` | types, the trail of routes, reports that are true and made once |
| `WebpageSnapshot` | snapshot queue and lambda |
| `CapacityManager` | the lambda, and a queue and a group reduced to what it relies on |
| `Submission` | upload page and the endpoints behind it |
| `LlmApi` | prompt pages, POST and GET /llm-prompt, and what worker and output handler leave behind |
| `MCServices` | one of five services above (downloads, snapshots, upload page, capacity, output handler), chosen at the start |
| `MCPages` | the export page or the prompt pages, chosen at the start |
| `ServicesProofs` | types and the safety properties of the snapshot lambda, the capacity manager and the upload and prompt pages, and the types of `MCServices` |

One action is one stretch of code between two awaits: JavaScript runs it without
interruption, and everything else may happen before the next one. A remote call
takes effect in the action of its await; where the code can tell success from
failure and the fault is switched on, the action has a disjunct for the failure,
and where a failed call may still have taken effect, one for that too. The
constant `Faults` of each module (`DownloadFaults`, `SnapshotFaults`, ... in the later
ones, which `MCServices` and `MCPages` extend together) selects the faults of an instance; a property
that needs a fault to be absent says so in its comment.

### WorkerFleet

`pc[w]` names the await a process is at: `loop` to `receive` is the polling loop
(`index.ts` 82-195), `read` to `delete` the try block of `pollTranscriptionQueue`
and the job functions it calls, `backoff` and `failure` the catch block
(317-353), `release`/`releaseThrow` the finally block. A receipt is the pair of a
message and the number of its receive; SQS accepts it only while the message is in
flight under that receive (`Current`). `recv` is `ApproximateReceiveCount`, and
the queue's redrive policy uses the same `MAX_RECEIVE_COUNT` as the worker.

* The model is of the deployed stages; the DEV branches are left out.
* `checkSpotInterrupt` sets `INTERRUPTION_TIME` and asks for the visibility
  change in one action: between the two awaits involved it changes nothing.
* The stack runs on-demand instances only at this commit, so spot notices are
  latent behaviour: the code handles them, the deployment does not produce them.
* Time is abstract. A visibility timeout may run out at any moment once nobody
  works under the receipt, and under a worker if the fault `overrun` is on.
* Metric, IMDS and auto scaling errors and an unparsable body are `Crash`: no
  try block is around them. systemd restarts after a failure and leaves a
  process that exited with status 0 alone.
* `expired` and `muted` are history: receipts whose visibility ran out, and
  receipts whose output could not be sent.

`JobDelivery` knows neither workers nor receipts: a job is tried at most
`MaxTries` times, a try says at most one thing, failures are said by the last try
only, a job is settled only after a try spoke or left a trace or when the tries
are used up. The refinement mapping takes `visible` and `inflight` to "pending",
`recv` to `tries`, and the muted and parked receipts to `traces`.

### LlmWorker

Refines what `WorkerFleet` calls the await `llm`, and leaves messages out. `pc` is
the await of the job in hand, `child[r]` the llama-server that job `r` spawned and
`active` is `activeLlamaServerProcess`. All servers want one port: the first that
lives has it, and a later one exits; `waitForLlamaServer` asks the port and cannot
tell who answers. A server that exits has an exit code, one that is ended by a
signal has none (`HasExitCode`). `chunks`, `next`, `at` and `outputs` are the
closure of `runAndCombinePrompts`, one per job: `Promise.all` rejects with the
first failure, the job ends, and the workers of its pool go on beside later jobs.
`DropClosures` forgets what no request refers to any more.

* How a text is split and masked, and what the model answers, is left out; a prompt
  has some number of chunks.
* The two-minute wait for a server ends in `NotHealthy` when nobody has the port,
  and with the fault `slow` in `TooSlow` at any moment before a server is ready.
* A request that no server answers fails (`Refused`); with the fault `prompt` any
  request may fail or time out.
* A transcription calls `runWhisperX` once or twice; the second call finds no
  reference and is left out.

### Export

`statuses` is the `exportStatuses` field; every write replaces it, as
`writeDynamoItem` puts a whole item. `previous` is what an eventually consistent
read may still return. `doing` is the handler's local variable, `seen` the item
the lambda read when it started; both end with their run. A status remembers whose
export it belongs to (`by`), which stands for the file id of the link. The page is
`exporting` until the API answers, then `answered`, then `polling` until
`updateStatuses` finds nothing in progress; `stuck` is a page whose polling ended
without a word (the status call returned no list, or threw inside the timer).
`Rerun` is Lambda's retry of an asynchronous invocation, `MaxRuns` in all.
`MediaThrows` after the upload covers an upload whose success was not noticed.

### OutputHandler

Messages are constants of the instance: a job, the attempt that sent it, and a
kind. A batch is a set and is handled in any order. `Deliver` hands out any batch
of deliverable messages; `MaxDeliveries` stands for the retention of the queue,
which has no dead letter queue. Errors of the table and of SES are caught and
counted; a metric that fails inside the catch block, reading the configuration and
signing a URL throw out of the handler, and the batch comes back. `metrics` keeps
the failures only.

`Notification` has no batches, invocations or awaits: a message is offered a number
of times, every offer may write its item, mails its user at most once, and may count
a failure; a success is mailed only while its item is there; only what was told or
counted is settled. The refinement mapping takes `visible` and `inflight` to
"pending", `deliveries` to `chances`, and the failure metrics to `counted`.

### Pipeline

The output queue in `transcription-service.ts` is all the two have in common: a
fleet step that publishes puts the message there in the same await (`FleetStep`),
and nothing flows back. `MessageOf` is the conversion a worker makes: no audio, bad
media and the failure of the last receive all become `TRANSCRIPTION_FAILURE`, and an
LLM job has its two kinds. A message does not name its receive, but SQS tells apart
two messages with one body, and so does the model. Failed media downloads, which
publish to the same queue, are messages that appear by themselves. Jobs of Giant,
whose output goes to a queue of its own, are left out. The lambda is given only what
is on the queue; `OutputHandler` alone allows any message at any time.

### MediaDownload

`message` is the queue's, `starts` counts receives by the EventBridge pipe, and a
pair of a message and a receive names the ECS task it starts: the pipe is
FIRE_AND_FORGET, so a task that dies is not run again, and a message comes back
only when the pipe failed to start or to delete it (`pipe`, `duplicate`). `task[t]`
is the await of `main`, from the parse to one of the four reports. A route is a
number: the proxies in order, then cookies, then the direct download. `GoesOn` is
the decision of `downloadMediaWithRetry`, `After` the next route; `failures`
remembers every attempt.

* What yt-dlp prints, the metadata and the files are left out; an attempt ends in
  one of the reasons of `MediaDownloadFailureReason`, in a success, or in a
  `HOLLOW` one: `runSpawnCommand` turns an exit without a code into zero.
* The event table has one row that matters to `GET /youtube-status`, the newest.
* `muted` is history: external answers whose send failed and was ignored.

### WebpageSnapshot

`lambda` is the await of the one invocation, `records` its batch and `todo` the
rest of the loop; `InHand` is the record whose turn it is. An error inside the loop
answers FAILURE and goes on, one outside of it (an unreadable record, the browser)
and the timeout of the lambda return the whole batch (`BatchReturns`).
`MaxHandlings` stands for the retention of the queue.

### Submission

`status`, `source` and `list` are the form's React state; `loop[n]` is the await of
the n-th call of `handleSubmit`, with `entries` and `rest` its loop. All calls set
the same state: `SubmitResult` offers a new form as soon as one entry has failed,
so a handler may run beside the next (`impatient`). `back` remembers the submissions
whose page was left for another form, `early` those of them whose handler was still
running then; the one that is not in `back` is the submission in view. An entry of a list is shown InProgress, Success or Failed; `ShowsSuccess` and
`ShowsFailure` are what the page renders. A key in S3 is fresh per upload, so
objects and jobs are pairs of a submission and an entry. `Throws` is an await that
rejects: nothing catches it.

### LlmApi

`form`, `promptId` and `displayed` are the page's; each prompt may be polled by two
loops, that of `handleSubmit` and that of `useEffect` (`Loops`), which go on until
they have a result or their fetch rejects. `handler[n]` is the await of the POST.
`worker[n][t]` is the await of the worker that received the job the t-th time, up to
`MAX_RECEIVE_COUNT`: the prompt and the upload of its output (`UploadOutput`, which
may fail and yet have stored it), the report (`PublishSuccess`, whose failure nobody
notices), the delete (`DeleteJob`, likewise), and the catch block (`GiveUp`: the
visibility call, and on the last receive the failure). A worker may be lost at any of
them, and a job is received again while it is not deleted, beside the first worker if
its visibility ran out. The output handler is `HandleReport`, in any order of the
reports; `LlmWorker`, `WorkerFleet` and `OutputHandler` have the rest. `Unzips` is
the conversion GET makes: unzipping fails on what was not zipped. `late` remembers
the prompts that were still posted or polled when another was submitted.

So an output may lie in S3 though its prompt is reported as failed: the upload only
seemed to fail, or a worker was lost or its report refused, and the last receive
failed. `ItemsTellOutputs` says what does hold: a success has the output its backend
leaves, a failure is final, and a success that a failure hides was reported by an
earlier worker than the failure.

### CapacityManager

A run counts (`CountQueue`: visible and in flight), asks for the group's maximum
and sets the capacity, with anything between. `there` remembers which of the jobs
it counted are still on the queue. A count may be approximate (fault `count`: any
number), a call may fail, a worker may be lost with its job. The group launches up
to the desired number and removes only workers that are not at work: why that is
so is `WorkerFleet`'s `ScaleInSparesJobs`.

### MCServices and MCPages

The five services share no variable, so one model with the variables of all would
only multiply their states. `service` says at the start which of them the
behaviour is about; the rest stays as it begins. Every property of the five is then
checked on the sum of the five state spaces, with the fairness each module states,
restated for the behaviours of that service. `MCPages` does the same for `Export`
with one page and `LlmApi`.

## 3. Runs

| run | instance | what it shows |
|---|---|---|
| `fleet_faults` | 2 workers, 1 job, 2 receives; failing work and SQS calls, overruns, spot notices | types; outputs and notices of the two never cross |
| `fleet_liveness` | 1 worker, a transcription, an LLM job or an invalid message, one of them per behaviour; 2 receives, every fault | scale-in spares jobs, the fleet implements `JobDelivery` with its fairness (so every job that is sent settles, and none without a trace), protection is released |
| `pipeline` | a transcription, an LLM job, an unreadable message, a failed download, one of them per behaviour; 1 worker, 2 receives, 1 invocation, 2 deliveries; failing work, sends, deletes and visibility changes, overruns; failing writes, emails and metrics of the handler | no job vanishes between the API and the mailbox, what users read is true, second emails are explained |
| `fleet_interrupted` | violated | see 6.1 |
| `fleet_lost_failure` | violated | see 6.2 |
| `llm_faults` | 3 jobs of any kind, 3 chunks, 2 fields, pools of 2 (local) and 1 (Bedrock); every fault | types, chunks in turn, whole prompts, server bookkeeping, every job ends |
| `llm_killed` | violated | see 6.4 |
| `pages`, export | 1 page, 2 documents and media, any selection; failing calls, API, gateway, invocation | verdicts are true, no document's result lost or changed, one upload, the page comes to an end |
| `pages`, prompts | 2 prompts, both backends, 3 receives; one fault of any kind, besides failing prompts and uploads | `PolledIsAccepted`, `ShownIsCurrent`, `ItemsTellOutputs`, `LoopsEnd`, types |
| `export_tabs` | 2 pages, each exporting a document or the media, 2 runs; every fault: failing calls, API, gateway and invocation, throwing and repeated lambdas, repeated success message, stale reads | types; no success without its file |
| `export_two_tabs` | violated | see 6.3 |
| `services` | one of five services, below | 12 properties of the five |
| `llm_bedrock` | violated | see 6.5 |

`services` is, for each choice of `service`:

| service | instance | properties |
|---|---|---|
| media | a YouTube job of this service, a job of another one from another site, an unreadable message, one of them per behaviour; 2 proxies and cookies; 2 starts; every fault | `ReportsAreTrue`, `AnsweredOnce` |
| snapshot | 3 pages, one unreadable, 2 of them arriving; batches of 2, 2 handlings; every fault | `RepliesAreRight` |
| submission | 2 files, 2 URLs, 2 submissions; every fault | `ShownIsTrue`, `FailuresAreShown`, `SubmissionsAnswered` |
| capacity | 2 jobs, 2 overlapping runs, a group of 0 to 2; one fault of any kind | `EnoughForTheQueue`, `CapacityFollowsTheQueue` |
| output | 3 messages (success, failure, unreadable), batches of up to 3, 2 deliveries, every fault | `ConsumedMeansToldOrCounted`, `ImplementsNotification`, `HandledInTheEnd` |

and `ServicesTypeOK` has the types of all five. A property with several parts
(`ReportsAreTrue`, `AnsweredOnce`, `RepliesAreRight`, `ShownIsTrue`,
`ItemsTellOutputs`, `CapacityFollowsTheQueue`, `ServersAreInHand`, `EveryEndIsHeard`,
whose second half is `WorkerFleet`'s `SilenceIsExplained`) is the conjunction
of definitions that are stated, and commented on, one by one.

Why the bounds are enough to be interesting: two workers and two receives are what
it takes for an expired receipt to race a current one and for the last receive to
differ from the first; with more of either the same pairs interleave, and the
theorems cover any number, the code's three receives among them. Jobs meet each
other in the fleet only through the worker they wait for, and behind the output
queue only in the batches of the lambda; `services` fills those, so `pipeline` and
`fleet_liveness` may have one job at a time, and their two receives and deliveries
still let a job and its message each be repeated. Two pages suffice for one to
overwrite the other, two runs for a lambda to repeat an upload. In `export_tabs` a
page exports a document or the media, and the handler of one races the lambda of the
other; in `pages` one export may have both, and `SuccessesAreReal` covers any
selections. Three jobs are a translation whose server dies, is lost or is stopped,
something in between, and the translation after it; three chunks and a pool of two
let one pool worker take a second chunk while the other waits, also after their job
has failed. The code's own pool sizes, 2 and 10, are covered by the theorems.

Download tasks of different messages share only the event, the bucket and the list
of answers, each under its own key but the event, so one message at a time with two
starts has the races there are between tasks; the theorems have them all at once.
Two proxies are the first that does not decide the outcome and the last before the
cookies. Two records make a batch in which one failure may spoil the other's
answer. Two entries and two submissions are a loop that goes on after a failure and
a handler that outlives its form. Two runs of the manager are one with an outdated
count beside one with a newer; two jobs differ from one in flight. One fault per
behaviour of the capacity manager and of the prompts keeps the fault the cause of what follows; the
theorems have no such bound. One invocation of the output handler is enough for
batches, order and redelivery; concurrent invocations are covered by the theorems.

`CHECK_DEADLOCK FALSE` is set where the system may really come to rest: every page
has its verdict, every message is consumed or used up.

### Fairness

* Fleet: a process that is at an await goes on (weak fairness of its steps); the
  group launches, enters service, starts and terminates; a visibility timeout
  runs out. A waiting message is received by some worker that keeps polling
  (strong fairness: a worker is at `receive` again and again), and a translation
  ends (strong fairness of `RunPrompt`: it has finitely many fields). `LeftAlone`
  says that polling is disturbed finitely often: scale-in, replacement, notices
  and failing AWS calls outside jobs. Without it no worker need ever get to a
  receive, and nothing in the code would make it.
* LLM jobs: the process goes on, a server loads or ends, and every request ends,
  because `fetch` has a timeout of ten minutes. No failure is ever forced but the
  end of the wait for a server that is not there.
* Export: the handler, the lambda (or its failure) and the two-second timer go on.
  Nothing forces a user to ask or a fault to happen; in particular an error of a
  poll, which would end a poll that otherwise goes on for ever, is an action of its
  own (`PollFails`) without fairness.
* Output handler: an invocation goes on or ends; a message comes back when its
  timeout ends; a message that is visible again and again is delivered. Duplicate
  deliveries are possible and never forced.
* Upload page: the handler of a submission goes on (every request is answered or
  fails). Nobody has to submit or to take the form back.
* Prompts: a POST is handled and answered, and a loop whose result is there gets it
  (the timer fires and a repeated GET works). Neither the worker nor the output
  handler is forced to do anything: `LoopsEnd` assumes that the result stays.
* Capacity: the rule starts runs for ever and each goes on, the group moves to the
  desired number, a job that could be taken, done or returned is in the end. Jobs
  need not arrive; faults are never forced.
* Media downloads and snapshots have none, because no liveness is claimed of them:
  a task that dies is not run again, and only an alarm tells.

## 4. What is proved

For all values of the constants that satisfy the named assumptions
(`ConstantsAssumption`, and `DownloadAssumption`, `SnapshotAssumption`,
`SubmissionAssumption`, `CapacityAssumption`, `LlmApiAssumption` in the later
modules: the special values are not ordinary ones, bounds are naturals, the faults
are known kinds, what is counted is finite; `IdsAssumption`: a transcript and an
LLM prompt never share an id, as both get fresh UUIDs).

**WorkerFleet.** `IInv` adds to the properties what makes them inductive:
`Custody` (from the receive to the release the instance is protected and in
service), `HandedOut`, `Exclusive` and `Remembered` (every receipt that is in use,
remembered or recorded was handed out, and to one worker), `Progress` (a worker
before its sending step has said nothing under its receipt; after parking,
uploading and sending it has parked, uploaded and sent), `GivenUp` (a receipt that
is past without expiring was given up in the catch block, so nothing was or will
be said under it) and `DeadIsSpent`. `SpeaksOnce` is not inductive without
`Exclusive` and `Progress`; `RepeatsNeedAnExpiry` follows from `GivenUp` and the
rule that only the last receive tells a failure. From `IInv` follow
`ScaleInSparesJobs`, `SpeaksOnce`, `OutputsAreJustified`, `DeletedWithATrace`,
`RepeatsNeedAnExpiry`, the action property `NoticeLeavesOthersAlone`, and step
simulation for `Spec => ImplementsDelivery`.

`NoJobEndsInSilence` is proved under `Calm`: no crash, no failing send, receive or
visibility change, no overrun, no spot notice. Work and deletes may fail and
instances may be scaled in or replaced. `Held` says that a worker has the current
receipt up to its delete (nobody else can move the message: `Exclusive`), so the
catch block is never refused; `Heard` that a delete comes after an output; and
`Ends` that a job which is deleted, or has had its last receive, is reported or in
the hands of a worker on its way to a report. `fleet_lost_failure` shows what one
refused visibility change does to it: the same property is violated there, so it is
a theorem under `Calm` and no property of a passing run.

`SilenceIsExplained` drops all of these conditions but the lost processes
(`NoneLost`: no crash, no spot notice). Its invariant `NothingUnsaid` follows a job
from its last receive: a message that was deleted, or that waits or is dead with its
receives used up, was spoken for (sent, or its send refused), or expired under its
last receipt, or a worker is at the send it owes. Two workers with receipts of one
message, a receipt that expires under its worker, refused deletes and visibility
calls and lost receives all keep it. A process that ends between the visibility call
and the send of the catch block would break it, hence the condition.
`LlmJobsHaveNoAudio` says that no LLM job is at a step about audio; the pipeline
needs it.

**LlmWorker.** `IInv` has four parts beside the types. `InTurn` says that the
requests of each pool are for different chunks, all given out before `next` and not
yet answered; it holds for the pools of failed jobs too, and gives `ChunksInTurn`.
`Covered` adds, for the prompt that is running, that a chunk given out is answered
or asked for and that an idle worker of the pool means that `next` is past the
end; with `AllThrough` it gives `PromptsAreWhole`. `Unreferenced` (no reference
while a server is started or whisperx runs) makes `NoServerIsForgotten` inductive,
and the two give `WhisperXHasTheGpu`: together `ServersAreInHand`. The type of
`next` needs `Bounds`: it is past the last chunk by at most the number of idle
workers of its pool, so by at most the size of the pool. None of it depends on
which faults occur.

**Export.** `EverySuccessIsReal` follows a success from the handler's or the
lambda's variable into the item, through stale reads back into another lambda and
on to the pages; files never leave the Drive. `HandlerKeepsRequest` and
`RunsAreCounted` bound the uploads. Three properties hold under conditions, which
their theorems assume and which the runs show to be needed or leave out in turn.
`SuccessMeansDone` holds with one page, under every fault: every list of statuses,
in the item, in a stale read or in the lambda's copy, is empty or has exactly the
types of that page's request (`OwnStatuses`), so the verdict is passed on all of
them. `MediaIsCopiedOnce` holds for any number of pages without throwing lambdas or
repeated success messages (`CopyInv`: a lambda that has not exported has copied
nothing, and one that starts finds the statuses which the handler has written twice
by then). `DocResultsAreKept` holds with one page, no stale read and no success message
handled again, which wipes the statuses (`DocInv`: the item, the handler and the
lambda's copy agree on every document they all have; `OwnStatuses`: what is written has
an entry for every type the item has one for).

**OutputHandler.** `PassedOverBy` says of each invocation that what lies behind
its loop was told or counted; `WritesFirst` that a success is mailed only after
its item was written; `ItemStep` that no message replaces the item of another sort.
`DeliveriesAccountForEmails` counts: emails sent plus emails owed by running
invocations never exceed deliveries. `SentBefore` closes the other end: what is in a
batch was delivered, what was delivered was sent, and every item is that of a message
the queue has had. With these three `HandlerImplementsNotification` is shown step by
step: a record at its email has an offer left, one at its write was offered, and the
batch that the poller deletes is told or counted.

**Pipeline.** The composition adds one fact of its own, the hand-over: a worker's
message is on the output queue just when the worker published it (`HandOver`). It
needs both sides: that the queue never has a message twice because a receive speaks
once (`SpeaksOnce` of the state the step leads to), and that the handler settles only
messages that were sent (`SentBefore`). With it `PipelineIsAFleet` and
`PipelineIsAHandler` show every behaviour of the pipeline to be one of each
component, so the components' theorems hold in it and are used as they stand:
`UsersAreToldTheTruth` joins `OutputsAreJustified`, `LinksWork` and the rule that an
LLM job has no audio; `SecondEmailsNeedARepeat` joins `RepeatsNeedAnExpiry` and
`RepeatsNeedRedelivery`; `EveryEndIsHeard` joins `SilenceIsExplained` (under
`NoneLost`) and `ConsumedMeansToldOrCounted`. That every output arrives
(`OutputsArrive`), and that both promises are kept (`PromisesAreKept`:
`JobDelivery` and `Notification`), needs no condition. `Pipeline` takes
`OutputHandler` as an instance and the proofs take its theorems as another;
`SameHandler` shows that the two are one.

**MediaDownload.** `MediaInv` is an invariant of each task (`TaskInv`), of the
event and of the answers. The trail: a task that attempts a route past the proxies
was blocked by every proxy, and one past the cookies failed with them; so a bot
block that is told was met on every route. A task at an upload has a success
behind it, one that forwards has its media in S3, and the event is always backed by
a task with that result. A task that has not ended has told nothing, and only a
task that was started has a state, so each start answers at most once.

**WebpageSnapshot.** `SnapshotInv`: the records the loop has passed in this
handling are answered or their send failed, those in `todo` are not yet, no reply is
of a later handling, and a record about to succeed is in S3.

**CapacityManager.** `CapacityInv`: a run has counted at least the jobs it
remembers that are still on the queue (`there` only shrinks), workers at work are
among the group's workers, and what is set is between the group's bounds. So a run
with an outdated count may ask for too many, never for too few.

**LlmApi.** `LlmInv`: a prompt whose POST was answered 200 is accepted, and only such
a prompt is polled, a prompt's job is received only once it was sent, an item that
says success has the output its backend leaves, and one that says failure has had its
last receive (`PromptInv`); each receive reports at most once, a success is reported by a worker that goes on to the
delete, and a failure only by the last receive when it is over (`AttemptInv`), so that
a hidden success is an earlier worker's. Prompts that are not late are posted or polled
one at a time, and the last of them is that of the URL (`OneAtATime`, `OnPage`).

**Submission.** `UploadInv`: what is shown as submitted is queued; a handler that is
through has no entries left, and one that runs is that of the submission in view or of
one that was left early (`HandlerInv`); a form is on the page only when every submission
was left for it (`FormInv`); and each entry of the submission in view is on
the list, as submitted only if a job is queued for it, by this handler or by one that
was left early (`InViewInv`).

**Checked only.** Liveness, and refinement under fairness (`ImplementsFairDelivery`,
`ProtectionIsReleased`, `JobsEnd`, `ExportsEnd`, `HandledInTheEnd`, `LoopsEnd`,
`SubmissionsAnswered`, `CapacityFollowsTheQueue`): fairness is out of the prover's
reach. Every other property of a passing run is a theorem (`ServicesTypeOK` too: the
five services of `MCServices` are one behind the other in `ServicesProofs`, and a step of one leaves
the types of the others alone).

## 5. What is not modelled

* `shakira.ts` (masking by regular expressions), the text of emails and pages, log
  formats and the contents of transcripts: text processing.
* Authentication, download URLs, folder creation, the client configuration and the
  transcript viewer: they keep no state that anything else depends on.
* The seconds of the visibility timeouts (`transcribe.ts:387`, `llm.ts:125`): that a
  timeout is refused is the fault `visibility`, that it is too short `overrun`.
* `appStartTime` (`index.ts:56`): whether an artifact is newer is a free choice.
* The CDK code apart from the queues, redrive policies, event sources, pipe, task
  definition, auto scaling group and alarms that the models use; build files, images
  and local development scripts.

## 6. Where the code and its words disagree

1. `ImminentInterruptionAbandons`: `transcribe.ts:432` says an interrupted worker
   does not upload and publish. The test reads an argument that was copied when
   the job started, so a notice that arrives during the job is not seen.
2. `NoJobEndsInSilence` with failing visibility calls: the catch block changes the
   visibility before it sends the failure message and rethrows, although
   `index.ts:325` prefers too many failure messages to none.
3. `SuccessMeansDone` with two tabs: one tab's export replaces the other's
   statuses, and the other page reports that all exports are complete.
4. `DeadServersAreReplaced` with the fault `kill`: `exitCode` stays null for a child
   that a signal ended, so `ensureLlamaServerRunning` reuses a reference to a server
   that is gone, although `llama-server.ts:72` means to clean it up. Every later
   local job fails until a transcription drops the reference.

5. `FinishedIsShown` for a Bedrock prompt: the API stores the answer as plain text
   (`llm.ts:113`) and reads every output as gzip, as `index.ts:342` says of
   `llama-cpp.ts`. The result is left out of the answer, the page takes the answer
   for none, and polls for ever.

Also noted, and not stated as properties:

* a media lambda that throws in every run leaves `source-media` in progress for
  ever (`ExportsEnd` fails with the fault `media`);
* an output message that cannot be parsed fails each batch it is in until its
  retention ends;
* `publishTranscriptionOutput` drops the result of `sendMessage` (`sqs.ts:195`), so
  the log line at `transcribe.ts:470` may be untrue and the job deleted with no
  output (`muted` in `WorkerFleet`);
* `putMetric` publishes with the dimensions `Stage` and `App` (`metrics.ts:76`), while
  `FailureAlarm` watches `Failure` with `Stage` alone (`alarms.ts:62`); CloudWatch
  keeps the two apart;
* a local `llm` job never calls `ensureLlamaServerRunning`: it fails unless a
  translation has started a server before (kind `prompt`);
* the pool workers of a failed job send requests beside those of the next one, so
  more than `LOCAL_LLAMA_PARALLEL_JOBS` can be in flight;
* a server whose start timed out is not stopped by anybody, and holds the GPU and
  the port (`timedOut`);
* the snapshot lambda's FAILURE reply has neither `taskId` nor `outputType`, which
  `ExternalJobOutput` requires (`types.ts:72-86`);
* a local prompt that failed is never shown: `LlmResult` requires an output
  (`types.ts:323`), so the page polls for ever and the alert at `Prompt.tsx:179`
  cannot appear; the prompt is done, and `FinishedIsShown` fails for it as well;
* an await that rejects throws `handleSubmit` out of its loop, and the upload page
  shows the submission as in progress for ever (the last case of
  `SubmissionsAnswered`);
* a form that is given back while its handler runs has that handler set the list and
  the status of the next submission (`early`), so that a page may take an entry of the
  same name for submitted again; a prompt submitted while another is polled may be
  answered with the other's result (`late`);
* a URL that is entered twice is posted twice and shown once;
* a yt-dlp that a signal ended has no exit code, which `runSpawnCommand` makes zero:
  the task goes on with a success that has no file, writes the YouTube event as a
  success, and dies at the upload;
* one proxy tunnel that does not start ends the download task, other proxies or not;
* a download task that dies, at whatever await, is not started again and its
  requester hears nothing: the pipe has deleted the message.

## 7. Plan

Done: `WorkerFleet` with `JobDelivery`, `OutputHandler` with `Notification`, `Pipeline`,
which joins the two, `LlmWorker`, `Export`, `MediaDownload`, `WebpageSnapshot`,
`CapacityManager`, `Submission` and `LlmApi`, each with its proofs. What is left, in
this order:

1. A promise of `LlmWorker` as an abstract module: a prompt is answered in whole or
   its job fails, and what an earlier job left running changes nothing in a later one.
2. The seconds of the visibility timeouts, as arithmetic with bounds: when work
   outlasts what was asked for, and when SQS refuses what is asked.
3. The artifact check with its times (`appStartTime`).
