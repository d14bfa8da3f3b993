--------------------------- MODULE LlmWorkerProofs ---------------------------
(***************************************************************************)
(* The pool of prompt workers and the bookkeeping of llama-servers, for every *)
(* number of jobs, fields, chunks and workers and for every kind of fault.   *)
(***************************************************************************)
EXTENDS LlmWorker, FiniteSetTheorems, TLAPS

Requests == [chunk : Nat, to : 0..MaxRuns]
Awaits == {"idle", "ensure", "wait", "call", "prompting", "upload", "whisper"}

Types ==
    /\ pc \in Awaits
    /\ run \in 0..MaxRuns
    /\ pc # "idle" => run \in Runs
    /\ chunks \in [Runs -> Nat]
    /\ next \in [Runs -> Nat]
    /\ at \in [Runs -> [Slots -> Requests]]
    /\ outputs \in [Runs -> SUBSET Nat]
    /\ child \in [Runs -> {"none", "loading", "ready", "stopping", "exited", "killed"}]
    /\ active \in 0..MaxRuns

\* While a server is started or whisperx runs there is no reference.
Unreferenced == pc \in {"wait", "whisper"} => active = 0

\* The requests of a pool are for different chunks, given out and not answered.
InTurn(r) ==
    /\ \A i \in outputs[r] : i \in 1..chunks[r] /\ i < next[r]
    /\ \A k \in Slots :
          Asking(r, k) =>
              /\ at[r][k].chunk \in 1..chunks[r] /\ at[r][k].chunk < next[r]
              /\ at[r][k].chunk \notin outputs[r]
              /\ \A l \in Slots \ {k} : at[r][l].chunk # at[r][k].chunk

\* In the prompt that is running every chunk that was given out is answered or
\* asked for, and a worker is through only when all were given out.
Covered ==
    pc = "prompting" =>
        /\ \A i \in 1..chunks[run] :
              i < next[run] => i \in outputs[run] \/ \E k \in Slots : at[run][k].chunk = i
        /\ chunks[run] # 0
        /\ \A k \in 1..PoolSize(chunks[run]) : ~Asking(run, k) => next[run] > chunks[run]

IInv ==
    /\ Types
    /\ Unreferenced /\ NoServerIsForgotten
    /\ \A r \in Runs : InTurn(r)
    /\ Covered

----------------------------------------------------------------------------
(* Lemmas about the operators.                                              *)

LEMMA ServerType == Server \in 0..MaxRuns
<1>1. CASE \E s \in Runs : HasPort(s)
  BY <1>1 DEF Server, Runs
<1>2. CASE ~ \E s \in Runs : HasPort(s)
  <2>1. Server = 0
    BY <1>2 DEF Server
  <2> QED BY <2>1, ConstantsAssumption DEF ConstantsAssumption
<1> QED BY <1>1, <1>2

LEMMA RequestType ==
    ASSUME NEW r, NEW i \in Nat
    PROVE  RequestFor(r, i) \in Requests /\ RequestFor(r, i).chunk = i
<1>1. 0 \in 0..MaxRuns
  BY ConstantsAssumption DEF ConstantsAssumption
<1> QED BY <1>1, ServerType DEF RequestFor, Requests

\* Every worker of a pool has its slot, and there is at least one.
LEMMA PoolFits ==
    ASSUME NEW n \in Nat \ {0}
    PROVE  PoolSize(n) \in 1..n /\ \A k \in 1..PoolSize(n) : k \in Slots
BY ConstantsAssumption DEF ConstantsAssumption, PoolSize, Slots

----------------------------------------------------------------------------
(* The invariant.                                                           *)

LEMMA InitInv == Init => IInv
<1> SUFFICES ASSUME Init PROVE IInv
  OBVIOUS
<1> USE DEF Init
<1>1. Types
  BY ConstantsAssumption DEF ConstantsAssumption, Types, Awaits, Requests, Idle, Runs
<1>2. Unreferenced /\ NoServerIsForgotten /\ Covered
  BY DEF Unreferenced, NoServerIsForgotten, Living, Covered
<1>3. \A r \in Runs : InTurn(r)
  BY DEF InTurn, Asking, Idle
<1> QED BY <1>1, <1>2, <1>3 DEF IInv

\* The steps of the servers leave the job and its pool alone.
LEMMA ServerStepInv ==
    ASSUME IInv, NEW s \in Runs, Serve(s) \/ Exit(s) \/ Fail(s) \/ Kill(s)
    PROVE  IInv'
<1>1. UNCHANGED <<jobVars, poolVars, active, timedOut>>
  BY DEF Serve, Exit, Fail, Kill, ExitsIf
<1>2. /\ child' \in [Runs -> {"none", "loading", "ready", "stopping", "exited", "killed"}]
      /\ \A t \in Runs : Living(t)' => Living(t)
  BY DEF IInv, Types, Serve, Exit, Fail, Kill, ExitsIf, Living
<1>3. Types'
  BY <1>1, <1>2 DEF IInv, Types, jobVars, poolVars
<1>4. Unreferenced' /\ NoServerIsForgotten'
  BY <1>1, <1>2 DEF IInv, Unreferenced, NoServerIsForgotten, jobVars
<1>5. \A r \in Runs : InTurn(r)'
  BY <1>1 DEF IInv, InTurn, Asking, poolVars
<1>6. Covered'
  BY <1>1 DEF IInv, Covered, Asking, PoolSize, OnBedrock, jobVars, poolVars
<1> QED BY <1>3, <1>4, <1>5, <1>6 DEF IInv

PoolTypes ==
    /\ chunks \in [Runs -> Nat]
    /\ next \in [Runs -> Nat]
    /\ at \in [Runs -> [Slots -> Requests]]
    /\ outputs \in [Runs -> SUBSET Nat]

\* Closures that are dropped had no request left.
LEMMA DropClosuresInv ==
    ASSUME IInv, DropClosures
    PROVE  PoolTypes' /\ \A r \in Runs : InTurn(r)'
<1>1. PoolTypes'
  BY DEF IInv, Types, PoolTypes, DropClosures, Kept
<1>2. ASSUME NEW r \in Runs PROVE InTurn(r)'
  <2>1. InTurn(r) /\ at' = at
    BY DEF IInv, DropClosures
  <2>2. CASE \E k \in Slots : Asking(r, k)
    <3>1. chunks'[r] = chunks[r] /\ next'[r] = next[r] /\ outputs'[r] = outputs[r]
      BY <2>2 DEF DropClosures, Kept
    <3> QED BY <2>1, <3>1 DEF InTurn, Asking
  <2>3. CASE ~ \E k \in Slots : Asking(r, k)
    <3>1. outputs'[r] = {}
      BY <2>3 DEF DropClosures, Kept
    <3> QED BY <2>1, <2>3, <3>1 DEF InTurn, Asking
  <2> QED BY <2>2, <2>3
<1> QED BY <1>1, <1>2

\* The steps of a job that have nothing to do with its pool.
LEMMA JobStepInv ==
    ASSUME IInv,
           \/ BeginTranscription \/ \E k \in Kinds : BeginLlm(k)
           \/ EnsureReuse \/ EnsureStart \/ Healthy \/ NotHealthy \/ TooSlow
           \/ NoFields \/ Upload \/ WhisperEnds \/ JobFails
    PROVE  IInv'
<1> USE DEF BeginTranscription, BeginLlm, EnsureReuse, EnsureStart, Healthy, NotHealthy,
        TooSlow, DeadlineIf, NoFields, Upload, WhisperEnds, JobFails, StopServer, Goto
<1>1. PoolTypes' /\ \A r \in Runs : InTurn(r)'
  <2>1. CASE UNCHANGED poolVars
    BY <2>1 DEF IInv, Types, PoolTypes, InTurn, Asking, poolVars
  <2>2. CASE DropClosures
    BY <2>2, DropClosuresInv
  <2>3. DropClosures \/ UNCHANGED poolVars
    BY DEF poolVars
  <2> QED BY <2>1, <2>2, <2>3
<1>2. /\ pc' \in Awaits /\ pc' # "prompting"
      /\ run' \in 0..MaxRuns /\ (pc' # "idle" => run' \in Runs)
      /\ active' \in 0..MaxRuns
  BY ConstantsAssumption DEF IInv, Types, Awaits, Runs, ConstantsAssumption, serverVars
<1>3. child' \in [Runs -> {"none", "loading", "ready", "stopping", "exited", "killed"}]
  BY DEF IInv, Types, serverVars
<1>4. Types'
  BY <1>1, <1>2, <1>3 DEF Types, PoolTypes
<1>5. Unreferenced' /\ NoServerIsForgotten'
  <2> USE DEF Unreferenced, NoServerIsForgotten, Living
  <2>1. CASE BeginTranscription
    <3>1. /\ pc = "idle" /\ active' = 0 /\ timedOut' = timedOut
          /\ child' = [s \in Runs |-> IF s = active /\ Alive(s) THEN "stopping" ELSE child[s]]
      BY <2>1
    <3>2. ASSUME NEW s \in Runs, child'[s] \in {"loading", "ready"}
          PROVE  s \in timedOut
      <4>1. child[s] \in {"loading", "ready"} /\ s # active
        BY <3>1, <3>2 DEF Alive
      <4> QED BY <3>1, <4>1 DEF IInv
    <3> QED BY <3>1, <3>2
  <2>2. CASE EnsureStart
    BY <2>2 DEF IInv, Types, Referenced, HasExitCode, Runs
  <2>3. CASE Healthy
    BY <2>3 DEF IInv, Types, Runs
  <2>4. CASE NotHealthy \/ TooSlow
    BY <2>4 DEF IInv
  <2>5. CASE \E k \in Kinds : BeginLlm(k)
    BY <2>5 DEF IInv, serverVars
  <2>6. CASE EnsureReuse \/ NoFields \/ Upload \/ WhisperEnds \/ JobFails
    BY <2>6 DEF IInv, serverVars
  <2> QED BY <2>1, <2>2, <2>3, <2>4, <2>5, <2>6
<1>6. Covered'
  BY <1>2 DEF Covered
<1> QED BY <1>1, <1>4, <1>5, <1>6 DEF IInv

\* A step of the pool leaves the servers alone.
LEMMA ServersUntouched ==
    ASSUME IInv, UNCHANGED <<run, serverVars>>,
           pc \notin {"wait", "whisper"}, pc' \notin {"wait", "whisper"}
    PROVE  Unreferenced' /\ NoServerIsForgotten'
BY DEF IInv, Unreferenced, NoServerIsForgotten, Living, serverVars

LEMMA StartPoolInv ==
    ASSUME IInv, NEW n \in 1..MaxChunks, StartPool(n)
    PROVE  IInv'
<1>1. n \in Nat \ {0} /\ run \in Runs
  BY ConstantsAssumption DEF ConstantsAssumption, StartPool, Goto, IInv, Types
<1>2. PoolSize(n) \in 1..n /\ \A k \in 1..PoolSize(n) : k \in Slots
  BY <1>1, PoolFits
<1>3. \A k \in Slots : RequestFor(run, k) \in Requests /\ RequestFor(run, k).chunk = k
  BY RequestType DEF Slots
<1>4. Idle \in Requests /\ \A k \in Slots : RequestFor(run, k) # Idle
  BY <1>3, ConstantsAssumption DEF Idle, Requests, Slots, ConstantsAssumption
<1> DEFINE pool == [k \in Slots |-> IF k <= PoolSize(n) THEN RequestFor(run, k) ELSE Idle]
<1>5. pool \in [Slots -> Requests]
  BY <1>3, <1>4
<1>6. /\ chunks' = [chunks EXCEPT ![run] = n]
      /\ next' = [next EXCEPT ![run] = PoolSize(n) + 1]
      /\ at' = [at EXCEPT ![run] = pool]
      /\ outputs' = [outputs EXCEPT ![run] = {}]
      /\ UNCHANGED <<run, kind, field, serverVars>> /\ pc = "call" /\ pc' = "prompting"
  BY DEF StartPool, Goto
<1>7. Types'
  BY <1>1, <1>2, <1>5, <1>6 DEF IInv, Types, Awaits, serverVars
<1>8. Unreferenced' /\ NoServerIsForgotten'
  BY <1>6, ServersUntouched
<1>9. ASSUME NEW r \in Runs PROVE InTurn(r)'
  <2>1. CASE r # run
    BY <2>1, <1>6 DEF IInv, Types, InTurn, Asking
  <2>2. CASE r = run
    <3>1. chunks'[r] = n /\ next'[r] = PoolSize(n) + 1 /\ at'[r] = pool /\ outputs'[r] = {}
      BY <2>2, <1>6 DEF IInv, Types
    <3>2. ASSUME NEW k \in Slots, pool[k] # Idle
          PROVE  /\ k <= PoolSize(n) /\ pool[k].chunk = k
                 /\ \A l \in Slots \ {k} : pool[l].chunk # k
      BY <3>2, <1>3 DEF Idle, Slots
    <3> HIDE DEF pool
    <3> QED BY <3>1, <3>2, <1>2 DEF InTurn, Asking, Slots
  <2> QED BY <2>1, <2>2
<1>10. Covered'
  <2>1. /\ chunks'[run'] = n /\ next'[run'] = PoolSize(n) + 1 /\ at'[run'] = pool
        /\ PoolSize(n)' = PoolSize(n)
    BY <1>1, <1>6 DEF IInv, Types, PoolSize, OnBedrock
  <2>2. \A k \in 1..PoolSize(n) : pool[k] # Idle /\ pool[k].chunk = k
    BY <1>2, <1>3, <1>4
  <2>3. \A i \in 1..n : i < PoolSize(n) + 1 => i \in 1..PoolSize(n)
    BY <1>2
  <2> HIDE DEF pool
  <2>4. (PoolSize(chunks[run]))' = PoolSize(n)
    BY <2>1, <1>6 DEF PoolSize, OnBedrock
  <2> QED BY <2>1, <2>2, <2>3, <2>4, <1>1, <1>2 DEF Covered, Asking
<1> QED BY <1>7, <1>8, <1>9, <1>10 DEF IInv

LEMMA AnswerInv ==
    ASSUME IInv, NEW r \in Runs, NEW k \in Slots, Answer(r, k)
    PROVE  IInv'
<1> DEFINE taken == IF next[r] <= chunks[r] THEN RequestFor(r, next[r]) ELSE Idle
<1>1. /\ Asking(r, k)
      /\ outputs' = [outputs EXCEPT ![r] = @ \cup {at[r][k].chunk}]
      /\ next' = [next EXCEPT ![r] = @ + 1]
      /\ at' = [at EXCEPT ![r][k] = taken]
      /\ UNCHANGED <<jobVars, chunks, serverVars>>
  BY DEF Answer, TakeNext
<1>2. /\ next[r] \in Nat /\ chunks[r] \in Nat /\ outputs[r] \subseteq Nat
      /\ at[r] \in [Slots -> Requests] /\ at[r][k].chunk \in Nat
  BY DEF IInv, Types, Requests
<1>3. Idle \in Requests
  BY ConstantsAssumption DEF Idle, Requests, ConstantsAssumption
<1>4. taken \in Requests
  BY <1>2, <1>3, RequestType
<1>5. (next[r] <= chunks[r] /\ taken.chunk = next[r]) \/ (next[r] > chunks[r] /\ taken = Idle)
  BY <1>2, RequestType
<1> HIDE DEF taken
<1>6. /\ next'[r] = next[r] + 1
      /\ outputs'[r] = outputs[r] \cup {at[r][k].chunk}
      /\ at'[r][k] = taken /\ \A l \in Slots \ {k} : at'[r][l] = at[r][l]
      /\ \A q \in Runs \ {r} : /\ next'[q] = next[q] /\ outputs'[q] = outputs[q]
                               /\ at'[q] = at[q]
  BY <1>1, <1>2 DEF IInv, Types
<1>7. Types'
  <2>1. next' \in [Runs -> Nat] /\ outputs' \in [Runs -> SUBSET Nat]
    BY <1>1, <1>2 DEF IInv, Types
  <2>2. [at[r] EXCEPT ![k] = taken] \in [Slots -> Requests]
    BY <1>2, <1>4
  <2>3. at' \in [Runs -> [Slots -> Requests]]
    BY <1>1, <2>2 DEF IInv, Types
  <2> QED BY <1>1, <2>1, <2>3 DEF IInv, Types, jobVars, serverVars
<1>8. Unreferenced' /\ NoServerIsForgotten'
  BY <1>1 DEF IInv, Unreferenced, NoServerIsForgotten, Living, jobVars, serverVars
<1>9. /\ at[r][k].chunk \in 1..chunks[r] /\ at[r][k].chunk < next[r]
      /\ at[r][k].chunk \notin outputs[r]
  BY <1>1 DEF IInv, InTurn
<1>10. ASSUME NEW q \in Runs PROVE InTurn(q)'
  <2>1. CASE q # r
    BY <2>1, <1>1, <1>6 DEF IInv, InTurn, Asking
  <2>2. CASE q = r
    <3>1. \A i \in outputs'[r] : i \in 1..chunks[r] /\ i < next[r] + 1
      BY <1>2, <1>6, <1>9 DEF IInv, InTurn
    <3>2. ASSUME NEW l \in Slots \ {k}, at[r][l] # Idle
          PROVE  /\ at[r][l].chunk \in 1..chunks[r] /\ at[r][l].chunk < next[r]
                 /\ at[r][l].chunk \notin outputs'[r]
                 /\ \A m \in Slots \ {l} : at'[r][m].chunk # at[r][l].chunk
      <4>1. /\ at[r][l].chunk \in 1..chunks[r] /\ at[r][l].chunk < next[r]
            /\ at[r][l].chunk \notin outputs[r]
            /\ \A m \in Slots \ {l} : at[r][m].chunk # at[r][l].chunk
        BY <3>2 DEF IInv, InTurn, Asking
      <4>2. taken.chunk # at[r][l].chunk
        BY <1>2, <1>5, <4>1 DEF Idle
      <4> QED BY <1>6, <4>1, <4>2
    <3>3. ASSUME taken # Idle
          PROVE  /\ taken.chunk \in 1..chunks[r] /\ taken.chunk < next[r] + 1
                 /\ taken.chunk \notin outputs'[r]
                 /\ \A l \in Slots \ {k} : at[r][l].chunk # taken.chunk
      <4>1. taken.chunk = next[r] /\ next[r] <= chunks[r] /\ next[r] \in 1..chunks[r]
        BY <3>3, <1>2, <1>5, <1>9
      <4>2. next[r] \notin outputs'[r]
        BY <1>2, <1>6, <1>9 DEF IInv, InTurn
      <4>3. ASSUME NEW l \in Slots PROVE at[r][l].chunk # next[r]
        BY <1>2, <4>1 DEF IInv, InTurn, Asking, Idle
      <4> QED BY <1>2, <4>1, <4>2, <4>3
    <3> QED BY <2>2, <1>1, <1>2, <1>6, <3>1, <3>2, <3>3 DEF InTurn, Asking
  <2> QED BY <2>1, <2>2
<1>11. Covered'
  <2>1. CASE pc # "prompting"
    BY <2>1, <1>1 DEF Covered, jobVars
  <2>2. CASE pc = "prompting" /\ r # run
    BY <2>2, <1>1, <1>6 DEF IInv, Types, Covered, Asking, PoolSize, OnBedrock, jobVars
  <2>3. CASE pc = "prompting" /\ r = run
    <3>1. /\ \A i \in 1..chunks[r] :
                i < next[r] => i \in outputs[r] \/ \E l \in Slots : at[r][l].chunk = i
          /\ chunks[r] # 0
          /\ \A l \in 1..PoolSize(chunks[r]) : ~Asking(r, l) => next[r] > chunks[r]
      BY <2>3 DEF IInv, Covered
    <3>2. ASSUME NEW i \in 1..chunks[r], i < next[r] + 1
          PROVE  i \in outputs'[r] \/ \E l \in Slots : at'[r][l].chunk = i
      <4>1. CASE i = next[r]
        BY <4>1, <3>2, <1>2, <1>5, <1>6
      <4>2. CASE i < next[r]
        BY <4>2, <3>1, <1>6
      <4> QED BY <4>1, <4>2, <3>2, <1>2
    <3>3. ASSUME NEW l \in 1..PoolSize(chunks[r]), ~Asking(r, l)'
          PROVE  next[r] + 1 > chunks[r]
      <4>1. l \in Slots
        BY <3>1, <1>2, PoolFits
      <4>2. CASE l = k
        BY <4>2, <3>3, <1>2, <1>5, <1>6, <1>9 DEF Asking, Idle
      <4>3. CASE l # k
        BY <4>1, <4>3, <3>1, <3>3, <1>2, <1>6 DEF Asking
      <4> QED BY <4>2, <4>3
    <3>4. (PoolSize(chunks[run]))' = PoolSize(chunks[r])
      BY <2>3, <1>1 DEF PoolSize, OnBedrock, jobVars
    <3> QED BY <2>3, <3>1, <3>2, <3>3, <3>4, <1>1, <1>6 DEF Covered, jobVars
  <2> QED BY <2>1, <2>2, <2>3
<1> QED BY <1>7, <1>8, <1>10, <1>11 DEF IInv

LEMMA PoolWorkerFailsInv ==
    ASSUME IInv, NEW r \in Runs, NEW k \in Slots, PoolWorkerFails(r, k)
    PROVE  IInv'
<1>1. /\ at' = [at EXCEPT ![r][k] = Idle]
      /\ pc' = IF r = run /\ pc = "prompting" THEN "idle" ELSE pc
      /\ UNCHANGED <<run, kind, chunks, next, outputs, serverVars>>
  BY DEF PoolWorkerFails
<1>2. Idle \in Requests
  BY ConstantsAssumption DEF Idle, Requests, ConstantsAssumption
<1>3. /\ at'[r][k] = Idle /\ \A l \in Slots \ {k} : at'[r][l] = at[r][l]
      /\ \A q \in Runs \ {r} : at'[q] = at[q]
  BY <1>1 DEF IInv, Types
<1>4. Types'
  <2>1. [at[r] EXCEPT ![k] = Idle] \in [Slots -> Requests]
    BY <1>2 DEF IInv, Types
  <2>2. at' \in [Runs -> [Slots -> Requests]]
    BY <1>1, <2>1 DEF IInv, Types
  <2> QED BY <1>1, <2>2 DEF IInv, Types, Awaits, serverVars
<1>5. Unreferenced' /\ NoServerIsForgotten'
  BY <1>1 DEF IInv, Unreferenced, NoServerIsForgotten, Living, serverVars
<1>6. ASSUME NEW q \in Runs PROVE InTurn(q)'
  <2>1. CASE q # r
    BY <2>1, <1>1, <1>3 DEF IInv, InTurn, Asking
  <2>2. CASE q = r
    <3>1. InTurn(r)
      BY DEF IInv
    <3> QED BY <2>2, <3>1, <1>1, <1>3 DEF InTurn, Asking, Idle
  <2> QED BY <2>1, <2>2
<1>7. Covered'
  BY <1>1, <1>3 DEF IInv, Types, Covered, Asking, PoolSize, OnBedrock, Runs
<1> QED BY <1>4, <1>5, <1>6, <1>7 DEF IInv

LEMMA PromptDoneInv ==
    ASSUME IInv, PromptDone
    PROVE  IInv'
<1>1. pc = "prompting" /\ pc' \in {"upload", "call"} /\ UNCHANGED <<run, serverVars>>
  BY DEF PromptDone
<1>2. PoolTypes' /\ \A r \in Runs : InTurn(r)'
  BY DropClosuresInv DEF PromptDone
<1>3. Types'
  BY <1>1, <1>2 DEF IInv, Types, PoolTypes, Awaits, serverVars
<1>4. Unreferenced' /\ NoServerIsForgotten'
  BY <1>1, ServersUntouched
<1>5. Covered'
  BY <1>1 DEF Covered
<1> QED BY <1>2, <1>3, <1>4, <1>5 DEF IInv

LEMMA StepInv == IInv /\ [Next]_vars => IInv'
<1> SUFFICES ASSUME IInv, [Next]_vars PROVE IInv'
  OBVIOUS
<1>1. CASE UNCHANGED vars
  BY <1>1 DEF vars, jobVars, poolVars, serverVars, IInv, Types, Unreferenced,
     NoServerIsForgotten, Living, InTurn, Asking, Covered, PoolSize, OnBedrock
<1>2. CASE Next
  <2>1. ASSUME NEW r \in Runs, NEW k \in Slots, Refused(r, k) \/ RequestFails(r, k)
        PROVE  IInv'
    BY <2>1, PoolWorkerFailsInv DEF Refused, RequestFails
  <2> QED BY <1>2, <2>1, ServerStepInv, JobStepInv, StartPoolInv, AnswerInv,
             PromptDoneInv DEF Next, JobStep
<1> QED BY <1>1, <1>2

THEOREM Invariance == Spec => []IInv
BY InitInv, StepInv, PTL DEF Spec

----------------------------------------------------------------------------
(* What follows.                                                            *)

\* Every living llama-server is the one the process refers to or waits for, or one
\* whose start timed out: ensureLlamaServerRunning never starts a second one.
THEOREM ServersAreKnown == Spec => []NoServerIsForgotten
BY Invariance, PTL DEF IInv

\* runWhisperX has the GPU: stopLlamaServer has sent SIGTERM to every llama-server
\* but those whose start timed out.
THEOREM TheGpuIsFree == Spec => []WhisperXHasTheGpu
<1>1. IInv => WhisperXHasTheGpu
  BY DEF IInv, Unreferenced, NoServerIsForgotten, WhisperXHasTheGpu, Runs
<1> QED BY <1>1, Invariance, PTL

\* Both: a server that lives is in hand, and the GPU is clear when it must be.
THEOREM ServersInHand == Spec => []ServersAreInHand
BY ServersAreKnown, TheGpuIsFree, PTL DEF ServersAreInHand

\* nextIndex gives every chunk to one pool worker, for every number of chunks and
\* workers and whichever requests fail.
THEOREM ChunksAreGivenOnce == Spec => []ChunksInTurn
<1>1. IInv => ChunksInTurn
  BY DEF IInv, InTurn, ChunksInTurn
<1> QED BY <1>1, Invariance, PTL

\* A prompt whose job goes on has the output of every chunk.
THEOREM OutputsAreWhole == Spec => PromptsAreWhole
<1> DEFINE Whole == pc = "prompting" /\ pc' \in {"call", "upload"} =>
                       outputs[run] = 1..chunks[run]
<1>1. ASSUME IInv, [Next]_vars, pc = "prompting", pc' \in {"call", "upload"}
      PROVE  outputs[run] = 1..chunks[run]
  <2>1. PromptDone
    BY <1>1 DEF Next, JobStep, BeginTranscription, BeginLlm, EnsureReuse, EnsureStart,
       Healthy, NotHealthy, TooSlow, DeadlineIf, NoFields, Upload, WhisperEnds, JobFails, Goto,
       StartPool, Serve, Exit, Fail, Kill, ExitsIf, Answer, Refused, RequestFails,
       PoolWorkerFails, vars, jobVars
  <2>2. /\ run \in Runs /\ chunks[run] \in Nat \ {0} /\ next[run] \in Nat
        /\ \A k \in Slots : ~Asking(run, k) /\ at[run][k] = Idle
    BY <1>1, <2>1 DEF PromptDone, AllThrough, IInv, Types, Covered, Asking
  <2>3. next[run] > chunks[run]
    BY <1>1, <2>2, PoolFits DEF IInv, Covered
  <2>4. \A i \in 1..chunks[run] : i \in outputs[run]
    BY <1>1, <2>2, <2>3 DEF IInv, Covered, Idle
  <2>5. \A i \in outputs[run] : i \in 1..chunks[run]
    BY <1>1, <2>2 DEF IInv, InTurn
  <2> QED BY <2>4, <2>5
<1>2. IInv /\ [Next]_vars => [Whole]_vars
  BY <1>1
<1> QED BY <1>2, Invariance, PTL DEF Spec, PromptsAreWhole

----------------------------------------------------------------------------
(* The bounds of the numbers, which only the types need.                    *)

Through(r) == {k \in Slots : ~Asking(r, k)}

\* A pool worker takes nextIndex past the end once, and is through then.
NextIsBounded(r) == next[r] <= MaxChunks + Cardinality(Through(r)) + 1

Bounds ==
    /\ kind \in [Runs -> JobKinds \cup {"none"}]
    /\ field \in 0..MaxFields
    /\ timedOut \subseteq Runs
    /\ \A r \in Runs : chunks[r] <= MaxChunks /\ NextIsBounded(r)

LEMMA SlotsFinite ==
    /\ IsFiniteSet(Slots)
    /\ \A r \in Runs : /\ IsFiniteSet(Through(r)) /\ Cardinality(Through(r)) \in Nat
                       /\ Cardinality(Through(r)) <= Cardinality(Slots)
<1>1. IsFiniteSet(Slots)
  BY ConstantsAssumption, FS_Interval DEF ConstantsAssumption, Slots
<1>2. \A r \in Runs : Through(r) \subseteq Slots
  BY DEF Through
<1> QED BY <1>1, <1>2, FS_Subset, FS_CardinalityType

LEMMA InitBounds == Init => Bounds
<1> SUFFICES ASSUME Init PROVE Bounds
  OBVIOUS
<1>1. \A r \in Runs : Cardinality(Through(r)) \in Nat
  BY SlotsFinite
<1> QED BY <1>1, ConstantsAssumption
        DEF Init, Bounds, NextIsBounded, ConstantsAssumption

\* Closures that are kept keep their numbers.
LEMMA DropClosuresBounds ==
    ASSUME IInv, Bounds, DropClosures, NEW r \in Runs
    PROVE  chunks'[r] <= MaxChunks /\ NextIsBounded(r)'
<1>1. Through(r)' = Through(r) /\ Cardinality(Through(r)) \in Nat
  BY SlotsFinite DEF DropClosures, Through, Asking
<1>2. chunks'[r] \in {chunks[r], 0} /\ next'[r] \in {next[r], 0}
  BY DEF DropClosures, Kept
<1> QED BY <1>1, <1>2, ConstantsAssumption
        DEF Bounds, NextIsBounded, ConstantsAssumption

\* The first requests of a pool are for its first chunks.
LEMMA StartPoolBounds ==
    ASSUME IInv, Bounds, NEW n \in 1..MaxChunks, StartPool(n), NEW r \in Runs
    PROVE  chunks'[r] <= MaxChunks /\ NextIsBounded(r)'
<1>1. n \in Nat \ {0} /\ PoolSize(n) \in 1..n
  BY ConstantsAssumption, PoolFits DEF ConstantsAssumption
<1>2. CASE r = run
  <2>1. chunks'[r] = n /\ next'[r] = PoolSize(n) + 1
    BY <1>2 DEF StartPool, IInv, Types
  <2>2. Cardinality(Through(r)') \in Nat
    <3>1. Through(r)' \subseteq Slots
      BY DEF Through
    <3> QED BY <3>1, SlotsFinite, FS_Subset, FS_CardinalityType
  <2> QED BY <1>1, <2>1, <2>2, ConstantsAssumption DEF NextIsBounded, ConstantsAssumption
<1>3. CASE r # run
  <2>1. chunks'[r] = chunks[r] /\ next'[r] = next[r] /\ at'[r] = at[r]
    BY <1>3 DEF StartPool, IInv, Types
  <2>2. Through(r)' = Through(r)
    BY <2>1 DEF Through, Asking
  <2> QED BY <2>1, <2>2 DEF Bounds, NextIsBounded
<1> QED BY <1>2, <1>3

\* A worker that answers asks for another chunk, or is through.
LEMMA AnswerBounds ==
    ASSUME IInv, Bounds, NEW r \in Runs, NEW k \in Slots, Answer(r, k), NEW q \in Runs
    PROVE  chunks'[q] <= MaxChunks /\ NextIsBounded(q)'
<1>1. /\ chunks' = chunks /\ next' = [next EXCEPT ![r] = @ + 1]
      /\ at' = [at EXCEPT ![r][k] = IF next[r] <= chunks[r]
                                      THEN RequestFor(r, next[r]) ELSE Idle]
      /\ Asking(r, k)
  BY DEF Answer, TakeNext
<1>2. CASE q # r
  <2>1. next'[q] = next[q] /\ at'[q] = at[q]
    BY <1>1, <1>2 DEF IInv, Types
  <2>2. Through(q)' = Through(q)
    BY <2>1 DEF Through, Asking
  <2> QED BY <1>1, <2>1, <2>2 DEF Bounds, NextIsBounded
<1>3. CASE q = r
  <2>1. /\ next[r] \in Nat /\ chunks[r] \in Nat /\ next'[r] = next[r] + 1
        /\ chunks[r] <= MaxChunks /\ MaxChunks \in Nat
    BY <1>1, ConstantsAssumption DEF IInv, Types, Bounds, ConstantsAssumption
  <2>2. Through(r)' \subseteq Slots /\ IsFiniteSet(Through(r)')
        /\ Cardinality(Through(r)') \in Nat
    <3>1. Through(r)' \subseteq Slots
      BY DEF Through
    <3> QED BY <3>1, SlotsFinite, FS_Subset, FS_CardinalityType
  <2>3. CASE next[r] <= chunks[r]
    BY <1>1, <1>3, <2>1, <2>2, <2>3 DEF NextIsBounded
  <2>4. CASE next[r] > chunks[r]
    <3>1. at'[r][k] = Idle /\ \A l \in Slots \ {k} : at'[r][l] = at[r][l]
      BY <1>1, <2>1, <2>4 DEF IInv, Types
    <3>2. Through(r)' = Through(r) \cup {k} /\ k \notin Through(r)
      BY <1>1, <3>1 DEF Through, Asking
    <3>3. /\ IsFiniteSet(Through(r)) /\ Cardinality(Through(r)) \in Nat
          /\ Cardinality(Through(r) \cup {k}) = Cardinality(Through(r)) + 1
      BY <3>2, SlotsFinite, FS_AddElement
    <3>4. Cardinality(Through(r)') = Cardinality(Through(r)) + 1
      BY <3>2, <3>3
    <3> QED BY <1>1, <1>3, <2>1, <3>3, <3>4 DEF Bounds, NextIsBounded
  <2> QED BY <2>1, <2>3, <2>4
<1> QED BY <1>2, <1>3

\* A worker that fails is through.
LEMMA PoolWorkerFailsBounds ==
    ASSUME IInv, Bounds, NEW r \in Runs, NEW k \in Slots, PoolWorkerFails(r, k),
           NEW q \in Runs
    PROVE  chunks'[q] <= MaxChunks /\ NextIsBounded(q)'
<1>1. chunks' = chunks /\ next' = next /\ at' = [at EXCEPT ![r][k] = Idle]
  BY DEF PoolWorkerFails
<1>2. Through(q) \subseteq Through(q)' /\ Through(q)' \subseteq Slots
  BY <1>1 DEF Through, Asking, IInv, Types
<1>3. IsFiniteSet(Through(q)') /\ Cardinality(Through(q)') \in Nat
  BY <1>2, SlotsFinite, FS_Subset, FS_CardinalityType
<1>4. Cardinality(Through(q)) \in Nat /\ Cardinality(Through(q)) <= Cardinality(Through(q)')
  BY <1>2, <1>3, FS_Subset, SlotsFinite
<1>5. next[q] \in Nat /\ MaxChunks \in Nat
  BY ConstantsAssumption DEF IInv, Types, ConstantsAssumption
<1>6. Cardinality(Through(q))' = Cardinality(Through(q)')
  OBVIOUS
<1> QED BY <1>1, <1>3, <1>4, <1>5, <1>6 DEF Bounds, NextIsBounded

LEMMA BoundsStep == IInv /\ Bounds /\ [Next]_vars => Bounds'
<1> SUFFICES ASSUME IInv, Bounds, [Next]_vars PROVE Bounds'
  OBVIOUS
<1>1. kind' \in [Runs -> JobKinds \cup {"none"}]
  <2>1. CASE \E k \in Kinds : BeginLlm(k)
    BY <2>1, ConstantsAssumption DEF BeginLlm, Bounds, ConstantsAssumption
  <2>2. CASE BeginTranscription
    BY <2>2 DEF BeginTranscription, Bounds, JobKinds
  <2>3. CASE UNCHANGED kind
    BY <2>3 DEF Bounds
  <2> QED BY <2>1, <2>2, <2>3 DEF Next, JobStep, EnsureReuse, EnsureStart, Healthy,
          NotHealthy, TooSlow, DeadlineIf, StartPool, NoFields, PromptDone, Upload,
          WhisperEnds, JobFails, Serve, Exit, Fail, Kill, ExitsIf, Answer, Refused,
          RequestFails, PoolWorkerFails, vars, jobVars
<1>2. field' \in 0..MaxFields
  <2>1. CASE \E r \in Runs, k \in Slots : Answer(r, k) \/ PoolWorkerFails(r, k)
    <3>1. field' = field \/ field' = 0
      BY <2>1 DEF Answer, PoolWorkerFails, jobVars
    <3> QED BY <3>1, ConstantsAssumption DEF Bounds, ConstantsAssumption
  <2>2. CASE PromptDone
    BY <2>2, ConstantsAssumption DEF PromptDone, Bounds, ConstantsAssumption
  <2>3. CASE \E k \in Kinds : BeginLlm(k)
    BY <2>3, ConstantsAssumption DEF BeginLlm, Bounds, ConstantsAssumption
  <2>4. CASE field' = field \/ field' = 0
    BY <2>4, ConstantsAssumption DEF Bounds, ConstantsAssumption
  <2>5. CASE \E s \in Runs : Serve(s) \/ Exit(s) \/ Fail(s) \/ Kill(s)
    BY <2>5 DEF Serve, Exit, Fail, Kill, ExitsIf, jobVars, Bounds
  <2> QED BY <2>1, <2>2, <2>3, <2>4, <2>5 DEF Next, JobStep, BeginTranscription,
          EnsureReuse, EnsureStart, Healthy, NotHealthy, TooSlow, DeadlineIf, StartPool,
          NoFields, Upload, WhisperEnds, JobFails, Refused, RequestFails, vars, jobVars
<1>3. timedOut' \subseteq Runs
  <2>1. CASE NotHealthy \/ TooSlow
    BY <2>1 DEF NotHealthy, TooSlow, DeadlineIf, Goto, IInv, Types, Bounds
  <2>2. CASE UNCHANGED timedOut
    BY <2>2 DEF Bounds
  <2> QED BY <2>1, <2>2 DEF Next, JobStep, BeginTranscription, BeginLlm, EnsureReuse,
          EnsureStart, Healthy, StartPool, NoFields, PromptDone, Upload, WhisperEnds,
          JobFails, Serve, Exit, Fail, Kill, ExitsIf, Answer, Refused, RequestFails,
          PoolWorkerFails, vars, serverVars
<1>4. ASSUME NEW q \in Runs PROVE chunks'[q] <= MaxChunks /\ NextIsBounded(q)'
  <2>1. CASE UNCHANGED poolVars
    <3>1. Through(q)' = Through(q)
      BY <2>1 DEF poolVars, Through, Asking
    <3> QED BY <2>1, <3>1 DEF Bounds, NextIsBounded, poolVars
  <2>2. CASE DropClosures
    BY <2>2, DropClosuresBounds
  <2>3. CASE \E n \in 1..MaxChunks : StartPool(n)
    BY <2>3, StartPoolBounds
  <2>4. CASE \E r \in Runs, k \in Slots : Answer(r, k)
    BY <2>4, AnswerBounds
  <2>5. CASE \E r \in Runs, k \in Slots : PoolWorkerFails(r, k)
    BY <2>5, PoolWorkerFailsBounds
  <2> QED BY <2>1, <2>2, <2>3, <2>4, <2>5 DEF Next, JobStep, BeginTranscription, BeginLlm,
          EnsureReuse, EnsureStart, Healthy, NotHealthy, TooSlow, DeadlineIf, NoFields,
          PromptDone, Upload, WhisperEnds, JobFails, Serve, Exit, Fail, Kill, ExitsIf,
          Refused, RequestFails, vars
<1> QED BY <1>1, <1>2, <1>3, <1>4 DEF Bounds

\* The types of a worker's LLM state, with the furthest nextIndex can get: one past
\* the last chunk for each worker of the pool.
THEOREM TypeCorrect == Spec => []TypeOK
<1>1. IInv /\ Bounds => TypeOK
  <2> SUFFICES ASSUME IInv, Bounds PROVE TypeOK
    OBVIOUS
  <2>1. /\ MaxChunks \in Nat /\ Cardinality(Slots) \in Nat
        /\ \A r \in Runs : chunks[r] \in 0..MaxChunks /\ next[r] \in Nat
    BY ConstantsAssumption, SlotsFinite, FS_CardinalityType
       DEF ConstantsAssumption, IInv, Types, Bounds
  <2>2. chunks \in [Runs -> 0..MaxChunks]
    BY <2>1 DEF IInv, Types
  <2>3. next \in [Runs -> 0..(MaxChunks + Cardinality(Slots) + 1)]
    <3>1. ASSUME NEW r \in Runs
          PROVE  next[r] \in 0..(MaxChunks + Cardinality(Slots) + 1)
      BY <2>1, SlotsFinite DEF Bounds, NextIsBounded
    <3> QED BY <3>1 DEF IInv, Types
  <2>4. at \in [Runs -> [Slots -> [chunk : 0..MaxChunks, to : 0..MaxRuns]]]
    <3>1. ASSUME NEW r \in Runs, NEW k \in Slots
          PROVE  at[r][k] \in [chunk : 0..MaxChunks, to : 0..MaxRuns]
      <4>1. at[r][k] \in Requests
        BY DEF IInv, Types
      <4>2. at[r][k].chunk \in 0..MaxChunks
        BY <2>1 DEF IInv, InTurn, Asking, Idle
      <4> QED BY <4>1, <4>2 DEF Requests
    <3> QED BY <3>1 DEF IInv, Types
  <2>5. outputs \in [Runs -> SUBSET (1..MaxChunks)]
    <3>1. ASSUME NEW r \in Runs PROVE outputs[r] \subseteq 1..MaxChunks
      BY <2>1 DEF IInv, InTurn
    <3> QED BY <3>1 DEF IInv, Types
  <2> QED BY <2>2, <2>3, <2>4, <2>5 DEF IInv, Types, Bounds, Awaits, TypeOK
<1>2. Spec => []Bounds
  BY InitBounds, BoundsStep, Invariance, PTL DEF Spec
<1> QED BY <1>1, <1>2, Invariance, PTL

=============================================================================
