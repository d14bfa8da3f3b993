------------------------------ MODULE LlmWorker ------------------------------
(***************************************************************************)
(* LLM jobs inside one worker process: the llama-server child processes     *)
(* that ensureLlamaServerRunning starts and whisperx jobs stop, and the pool *)
(* of asynchronous workers that sends the chunks of a prompt and goes on     *)
(* when its job has already failed. Jobs run one after the other; one action *)
(* is one stretch of code between two awaits. WorkerFleet has the jobs'      *)
(* messages, this module what happens at its await "llm".                    *)
(***************************************************************************)
EXTENDS Integers, FiniteSets

CONSTANTS
    Kinds,     \* the kinds of jobs the worker gets
    MaxRuns,   \* jobs it is given, at most
    MaxFields, \* fields of a translation task, at most
    MaxChunks, \* chunks of a prompt, at most
    Local,     \* LOCAL_LLAMA_PARALLEL_JOBS
    Bedrock,   \* BEDROCK_PARALLEL_JOBS
    Faults     \* the kinds of faults the environment may produce

JobKinds ==
    { "translation",   \* 'llm-translation' with backend LOCAL
      "prompt",        \* 'llm' with backend LOCAL
      "bedrock",       \* either, with backend BEDROCK
      "transcription"} \* 'transcribe'

FaultKinds ==
    { "exit",   \* llama-server exits
      "kill",   \* llama-server is ended by a signal
      "slow",   \* llama-server is not healthy within two minutes
      "prompt", \* a request for a chunk fails, or its answer is empty
      "work" }  \* reading the task, the visibility, a metric or the upload fails

ASSUME ConstantsAssumption ==
    /\ Kinds \subseteq JobKinds
    /\ MaxRuns \in Nat /\ MaxFields \in Nat \ {0} /\ MaxChunks \in Nat \ {0}
    /\ Local \in Nat \ {0} /\ Bedrock \in Nat \ {0}
    /\ Faults \subseteq FaultKinds

VARIABLES
    pc,       \* the await the job is at
    run,      \* the number of the job
    kind,     \* [Runs -> what kind of job it is]
    field,    \* the field of the translation task
    chunks,   \* [Runs -> number of chunks of the prompt]
    next,     \* [Runs -> nextIndex]
    at,       \* [Runs -> [Slots -> the request a pool worker awaits]]
    outputs,  \* [Runs -> the chunks whose output is there]
    child,    \* [Runs -> the llama-server the job started]
    active,   \* activeLlamaServerProcess: the job that started it, 0 for null
    timedOut  \* jobs whose wait for their server ended without one (history)

jobVars == <<pc, run, kind, field>>
poolVars == <<chunks, next, at, outputs>>
serverVars == <<child, active, timedOut>>
vars == <<jobVars, poolVars, serverVars>>

Runs == 1..MaxRuns
\* The closure of a prompt is the one of its job: a translation task begins a
\* prompt only when the workers of the one before are through.
Slots == 1..(IF Local > Bedrock THEN Local ELSE Bedrock)
Idle == [chunk |-> 0, to |-> 0]

Init ==
    /\ pc = "idle" /\ run = 0 /\ field = 0
    /\ kind = [r \in Runs |-> "none"]
    /\ chunks = [r \in Runs |-> 0]
    /\ next = [r \in Runs |-> 0]
    /\ at = [r \in Runs |-> [k \in Slots |-> Idle]]
    /\ outputs = [r \in Runs |-> {}]
    /\ child = [r \in Runs |-> "none"]
    /\ active = 0 /\ timedOut = {}

----------------------------------------------------------------------------
(* The llama-server child processes. The first one that lives has the port;  *)
(* it answers before its model is loaded, but not as healthy.                *)

Alive(s) == child[s] \in {"loading", "ready", "stopping"}

HasPort(s) == Alive(s) /\ \A t \in Runs : t < s => ~Alive(t)

\* Whom a request to the port reaches, 0 for nobody.
Server == IF \E s \in Runs : HasPort(s) THEN CHOOSE s \in Runs : HasPort(s) ELSE 0
Ready(s) == s \in Runs /\ child[s] = "ready"

Serve(s) ==
    /\ child[s] = "loading" /\ HasPort(s)
    /\ child' = [child EXCEPT ![s] = "ready"]
    /\ UNCHANGED <<jobVars, poolVars, active, timedOut>>

ExitsIf(s, cause) ==
    /\ cause
    /\ child' = [child EXCEPT ![s] = "exited"]
    /\ UNCHANGED <<jobVars, poolVars, active, timedOut>>

\* It finds the port taken, or it has been sent SIGTERM ...
Exit(s) == ExitsIf(s, (child[s] = "loading" /\ ~HasPort(s)) \/ child[s] = "stopping")

\* ... or it fails.
Fail(s) == ExitsIf(s, Alive(s) /\ "exit" \in Faults)

\* A signal leaves exitCode null.
Kill(s) ==
    /\ "kill" \in Faults
    /\ Alive(s)
    /\ child' = [child EXCEPT ![s] = "killed"]
    /\ UNCHANGED <<jobVars, poolVars, active, timedOut>>

HasExitCode(s) == child[s] = "exited"

\* activeLlamaServerProcess is set and its exitCode is null.
Referenced == active # 0 /\ ~HasExitCode(active)

----------------------------------------------------------------------------
(* A job.                                                                    *)

Goto(from, to) == pc = from /\ pc' = to

Asking(r, k) == at[r][k] # Idle

\* What the closures of runAndCombinePrompts hold ends with their last request.
Kept(f, nothing) ==
    [r \in Runs |-> IF \E k \in Slots : Asking(r, k) THEN f[r] ELSE nothing]
DropClosures ==
    /\ chunks' = Kept(chunks, 0)
    /\ next' = Kept(next, 0)
    /\ outputs' = Kept(outputs, {})
    /\ UNCHANGED at

BeginLlm(k) ==
    /\ k # "transcription" /\ run < MaxRuns
    /\ Goto("idle", IF k = "translation" THEN "ensure" ELSE "call")
    /\ run' = run + 1 /\ field' = 1
    /\ kind' = [kind EXCEPT ![run + 1] = k]
    /\ DropClosures
    /\ UNCHANGED serverVars

\* Mutant of StopServer: the reference is dropped first.
StopServerForgetting ==
    /\ active' = 0
    /\ UNCHANGED child

\* stopLlamaServer
StopServer ==
    /\ child' = [s \in Runs |-> IF s = active /\ Alive(s) THEN "stopping" ELSE child[s]]
    /\ active' = 0

\* A transcription that gets to runWhisperX.
BeginTranscription ==
    /\ run < MaxRuns
    /\ Goto("idle", "whisper")
    /\ run' = run + 1 /\ field' = 0
    /\ kind' = [kind EXCEPT ![run + 1] = "transcription"]
    /\ StopServer
    /\ DropClosures
    /\ UNCHANGED timedOut

WhisperEnds ==
    /\ Goto("whisper", "idle")
    /\ UNCHANGED <<run, kind, field, poolVars, serverVars>>

\* ensureLlamaServerRunning
EnsureReuse ==
    /\ Goto("ensure", "call")
    /\ Referenced
    /\ UNCHANGED <<run, kind, field, poolVars, serverVars>>

\* Mutant of EnsureStart: nobody asks whether a server is running.
EnsureStartAnyway ==
    /\ Goto("ensure", "wait")
    /\ active' = 0
    /\ child' = [child EXCEPT ![run] = "loading"]
    /\ UNCHANGED <<run, kind, field, poolVars, timedOut>>

EnsureStart ==
    /\ Goto("ensure", "wait")
    /\ ~Referenced
    /\ active' = 0
    /\ child' = [child EXCEPT ![run] = "loading"]
    /\ UNCHANGED <<run, kind, field, poolVars, timedOut>>

\* waitForLlamaServer asks the port; whoever answers is taken for the child.
Healthy ==
    /\ Goto("wait", "call")
    /\ Ready(Server)
    /\ active' = run
    /\ UNCHANGED <<run, kind, field, poolVars, child, timedOut>>

\* The two minutes are over; the error fails the job and nobody stops the child.
DeadlineIf(cause) ==
    /\ cause
    /\ Goto("wait", "idle")
    /\ timedOut' = timedOut \cup {run}
    /\ field' = 0
    /\ UNCHANGED <<run, kind, poolVars, child, active>>

\* Mutant of NotHealthy: a server that is not there is waited for.
NeverGivenUp == DeadlineIf(FALSE)

NotHealthy == DeadlineIf(Server = 0)
TooSlow == DeadlineIf("slow" \in Faults /\ ~Ready(Server))

----------------------------------------------------------------------------
(* executeLlmPrompt and runAndCombinePrompts.                                *)

OnBedrock(r) == kind[r] = "bedrock"

PoolSize(n) ==
    LET parallel == IF OnBedrock(run) THEN Bedrock ELSE Local
    IN  IF n < parallel THEN n ELSE parallel

\* A request for Bedrock, or for the server that has the port now, if there is one.
RequestFor(r, i) == [chunk |-> i, to |-> IF OnBedrock(r) THEN 0 ELSE Server]

\* A translation task may have no fields at all.
NoFields ==
    /\ Goto("call", "upload")
    /\ kind[run] # "prompt" /\ field = 1
    /\ field' = 0
    /\ UNCHANGED <<run, kind, poolVars, serverVars>>

\* After the visibility call every worker takes its first chunk.
StartPool(n) ==
    /\ Goto("call", "prompting")
    /\ chunks' = [chunks EXCEPT ![run] = n]
    /\ next' = [next EXCEPT ![run] = PoolSize(n) + 1]
    /\ at' = [at EXCEPT ![run] =
                 [k \in Slots |-> IF k <= PoolSize(n) THEN RequestFor(run, k) ELSE Idle]]
    /\ outputs' = [outputs EXCEPT ![run] = {}]
    /\ UNCHANGED <<run, kind, field, serverVars>>

Answerable(r, k) == OnBedrock(r) \/ Ready(at[r][k].to)

\* Mutants of TakeNext: the index is counted on from the worker's own chunk; it is
\* incremented twice.
TakeNextStale(r, k) ==
    /\ next' = [next EXCEPT ![r] = at[r][k].chunk + 1]
    /\ at' = [at EXCEPT ![r][k] = IF at[r][k].chunk < chunks[r]
                                    THEN RequestFor(r, at[r][k].chunk + 1) ELSE Idle]
TakeNextTwice(r, k) ==
    /\ next' = [next EXCEPT ![r] = @ + 2]
    /\ at' = [at EXCEPT ![r][k] = IF next[r] + 1 <= chunks[r]
                                    THEN RequestFor(r, next[r] + 1) ELSE Idle]

\* index = nextIndex++
TakeNext(r, k) ==
    /\ next' = [next EXCEPT ![r] = @ + 1]
    /\ at' = [at EXCEPT ![r][k] = IF next[r] <= chunks[r]
                                    THEN RequestFor(r, next[r]) ELSE Idle]

Answer(r, k) ==
    /\ Asking(r, k) /\ Answerable(r, k)
    /\ outputs' = [outputs EXCEPT ![r] = @ \cup {at[r][k].chunk}]
    /\ TakeNext(r, k)
    /\ UNCHANGED <<jobVars, chunks, serverVars>>

\* Promise.all rejects and with it the job; the other workers go on. Nobody
\* hears of a failure after that.
PoolWorkerFails(r, k) ==
    /\ Asking(r, k)
    /\ at' = [at EXCEPT ![r][k] = Idle]
    /\ IF r = run /\ pc = "prompting" THEN pc' = "idle" /\ field' = 0
                                      ELSE UNCHANGED <<pc, field>>
    /\ UNCHANGED <<run, kind, chunks, next, outputs, serverVars>>

\* The server refuses, is gone or has ended under the request.
Refused(r, k) == ~Answerable(r, k) /\ PoolWorkerFails(r, k)

RequestFails(r, k) == "prompt" \in Faults /\ PoolWorkerFails(r, k)

\* Mutant of AllThrough: one worker that is through is enough (Promise.race).
AnyThrough == \E k \in Slots : k <= PoolSize(chunks[run]) /\ ~Asking(run, k)

AllThrough == \A k \in Slots : ~Asking(run, k)

\* outputs.join, then the next field of a translation task.
PromptDone ==
    /\ pc = "prompting" /\ AllThrough
    /\ \/ pc' = "upload" /\ field' = 0
       \/ /\ kind[run] # "prompt" /\ field < MaxFields
          /\ pc' = "call" /\ field' = field + 1
    /\ DropClosures
    /\ UNCHANGED <<run, kind, serverVars>>

\* The result is uploaded, published and the message deleted (WorkerFleet).
Upload ==
    /\ Goto("upload", "idle")
    /\ UNCHANGED <<run, kind, field, poolVars, serverVars>>

\* The task is no JSON, ChangeMessageVisibility, PutMetricData or the upload fails.
JobFails ==
    /\ "work" \in Faults
    /\ \/ pc \in {"ensure", "call", "upload", "whisper"}
       \/ pc = "prompting" /\ AllThrough
    /\ pc' = "idle" /\ field' = 0
    /\ UNCHANGED <<run, kind, poolVars, serverVars>>

----------------------------------------------------------------------------

JobStep ==
    \/ EnsureReuse \/ EnsureStart \/ Healthy \/ NotHealthy
    \/ \E n \in 1..MaxChunks : StartPool(n)
    \/ NoFields \/ PromptDone \/ Upload \/ WhisperEnds

Next ==
    \/ "transcription" \in Kinds /\ BeginTranscription
    \/ \E k \in Kinds : BeginLlm(k)
    \/ JobStep \/ TooSlow \/ JobFails
    \/ \E s \in Runs : Serve(s) \/ Exit(s) \/ Fail(s) \/ Kill(s)
    \/ \E r \in Runs, k \in Slots : Answer(r, k) \/ Refused(r, k) \/ RequestFails(r, k)

Spec == Init /\ [][Next]_vars

\* The process goes on, a server loads or ends, every request ends (its timeout
\* is ten minutes). No fault need ever happen.
FairSpec ==
    /\ Spec
    /\ WF_vars(JobStep)
    /\ \A s \in Runs : WF_vars(Serve(s) \/ Exit(s))
    /\ \A r \in Runs, k \in Slots : WF_vars(Answer(r, k) \/ Refused(r, k))

----------------------------------------------------------------------------
(* Properties.                                                               *)

\* Every variable has its type; every pool worker takes nextIndex past the end once.
TypeOK ==
    /\ pc \in {"idle", "ensure", "wait", "call", "prompting", "upload", "whisper"}
    /\ run \in 0..MaxRuns
    /\ kind \in [Runs -> JobKinds \cup {"none"}]
    /\ field \in 0..MaxFields
    /\ chunks \in [Runs -> 0..MaxChunks]
    /\ next \in [Runs -> 0..(MaxChunks + Cardinality(Slots) + 1)]
    /\ at \in [Runs -> [Slots -> [chunk : 0..MaxChunks, to : 0..MaxRuns]]]
    /\ outputs \in [Runs -> SUBSET (1..MaxChunks)]
    /\ child \in [Runs -> {"none", "loading", "ready", "stopping", "exited", "killed"}]
    /\ active \in 0..MaxRuns
    /\ timedOut \subseteq Runs

\* No chunk of a prompt is sent to the model twice, or left out before the last:
\* nextIndex is shared by workers that run in turn, also by those of a failed job.
ChunksInTurn ==
    \A r \in Runs, k \in Slots :
        Asking(r, k) =>
            /\ at[r][k].chunk \notin outputs[r] /\ at[r][k].chunk < next[r]
            /\ \A l \in Slots \ {k} : at[r][l].chunk # at[r][k].chunk

\* A prompt whose job goes on has an output for every chunk: outputs.join never
\* joins a hole, and no worker that failed was taken for one that was through.
PromptsAreWhole ==
    [][pc = "prompting" /\ pc' \in {"call", "upload"} =>
          outputs[run] = 1..chunks[run]]_vars

Living(s) == child[s] \in {"loading", "ready"}

\* Every llama-server that is not on its way out can be stopped: the process
\* refers to it or is waiting for it. Only one whose start timed out is lost.
NoServerIsForgotten ==
    \A s \in Runs : Living(s) => s = active \/ (pc = "wait" /\ s = run) \/ s \in timedOut

\* While whisperx runs no llama-server that could be stopped holds the GPU
\* (comment at transcribe.ts:195), except one whose start timed out.
WhisperXHasTheGpu == pc = "whisper" => \A s \in Runs : Living(s) => s \in timedOut

\* The process never loses sight of a server it started, whoever has the port, and
\* so can clear the GPU for whisperx.
ServersAreInHand == NoServerIsForgotten /\ WhisperXHasTheGpu

\* A llama-server that is gone when a translation begins is replaced: a stale
\* reference is cleaned up (comment at llama-server.ts:72).
DeadServersAreReplaced ==
    [][pc = "ensure" /\ pc' = "call" => Alive(active)]_vars

\* Every job comes to an end, also when its server or its requests do not answer,
\* and the worker gets to its next message.
JobsEnd == pc # "idle" ~> pc = "idle"

=============================================================================
