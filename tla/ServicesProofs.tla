---------------------------- MODULE ServicesProofs ----------------------------
(***************************************************************************)
(* The safety of the services outside the worker's loop: the webpage       *)
(* snapshots, for any number of pages, batches and deliveries, the         *)
(* capacity manager, for any number of jobs and of runs that overlap, the  *)
(* pages of the prompts with the endpoints and the workers they talk to,   *)
(* the upload page, for any number of entries and submissions. At the end  *)
(* the sum that MCServices checks, with media downloads and the output     *)
(* handler, whose proofs have modules of their own.                        *)
(***************************************************************************)
EXTENDS MCServices, LlmApi, MediaDownloadProofs, OutputHandlerProofs

----------------------------------------------------------------------------
(* The webpage snapshot lambda.                                             *)

Replied(p) ==
    \/ <<p, handling[p]>> \in unsent
    \/ \E r \in replies : r.to = p /\ r.nth = handling[p]

\* What is known of a message.
PageInv(p) ==
    /\ record[p] \in {"none", "waiting"} => handling[p] < MaxHandlings
    /\ p \in records => record[p] = "inflight" /\ handling[p] # 0
    /\ p \in records \ todo => Replied(p)
    /\ record[p] = "consumed" => Replied(p)
    /\ p \in todo => \A r \in replies : r.to = p => r.nth # handling[p]

\* What is known of the replies; the record in hand is in S3 before its success.
RepliesInv ==
    /\ \A r \in replies : r.nth <= handling[r.to]
    /\ lambda = "succeed" => \A p \in Pages : InHand(p) => p \in kept

SnapshotInv ==
    /\ SnapshotTypeOK
    /\ lambda = "idle" => records = {}
    /\ \A p \in Pages : PageInv(p)
    /\ RepliesInv
    /\ SuccessHasSnapshot /\ OneReplyPerHandling

LEMMA SnapshotInitInv == SnapshotInit => SnapshotInv
BY SnapshotAssumption
   DEF SnapshotAssumption, SnapshotInit, SnapshotInv, SnapshotTypeOK, PageInv, RepliesInv,
       SuccessHasSnapshot, OneReplyPerHandling, InLoop

LEMMA ForwardedInv ==
    ASSUME SnapshotInv, NEW p \in Pages, Forwarded(p)
    PROVE  SnapshotInv'
<1>1. SnapshotTypeOK'
  BY DEF SnapshotInv, SnapshotTypeOK, Forwarded
<1>2. \A q \in Pages : PageInv(q)'
  BY DEF SnapshotInv, SnapshotTypeOK, PageInv, Replied, Forwarded
<1> QED BY <1>1, <1>2 DEF SnapshotInv, RepliesInv, InHand, SuccessHasSnapshot,
           OneReplyPerHandling, Forwarded

\* The replies so far are to earlier handlings of the messages of the new batch.
LEMMA InvokeInv ==
    ASSUME SnapshotInv, NEW B \in SUBSET Pages, Invoke(B)
    PROVE  SnapshotInv'
<1>1. /\ record \in [Pages -> {"none", "waiting", "inflight", "consumed", "expired"}]
      /\ handling \in [Pages -> 0..MaxHandlings]
      /\ replies \subseteq [to : Pages, nth : 1..MaxHandlings, status : {"SUCCESS", "FAILURE"}]
  BY DEF SnapshotInv, SnapshotTypeOK
<1>2. \A p \in B : handling[p] < MaxHandlings
  BY DEF SnapshotInv, PageInv, Invoke
<1>3. /\ records = {} /\ lambda' = "start" /\ records' = B /\ todo' = B
      /\ record' = [p \in Pages |-> IF p \in B THEN "inflight" ELSE record[p]]
      /\ handling' = [p \in Pages |-> IF p \in B THEN handling[p] + 1 ELSE handling[p]]
      /\ UNCHANGED <<kept, replies, unsent>>
  BY DEF SnapshotInv, Invoke
<1>4. SnapshotTypeOK'
  <2>1. handling' \in [Pages -> 0..MaxHandlings]
    BY <1>1, <1>2, <1>3, SnapshotAssumption DEF SnapshotAssumption
  <2>2. record' \in [Pages -> {"none", "waiting", "inflight", "consumed", "expired"}]
    BY <1>1, <1>3
  <2> QED BY <1>3, <2>1, <2>2 DEF SnapshotInv, SnapshotTypeOK
<1>5. ASSUME NEW r \in replies PROVE r.nth <= handling'[r.to] /\ (r.to \in B => r.nth # handling'[r.to])
  <2>1. r.to \in Pages /\ r.nth \in Nat /\ handling[r.to] \in Nat /\ r.nth <= handling[r.to]
    BY <1>1, SnapshotAssumption DEF SnapshotInv, RepliesInv, SnapshotAssumption
  <2> QED BY <1>3, <2>1
<1>6. ASSUME NEW p \in Pages PROVE PageInv(p)'
  <2>1. CASE p \in B
    <3>1. handling'[p] # 0
      BY <1>1, <1>3, <2>1, SnapshotAssumption DEF SnapshotAssumption
    <3> QED BY <1>3, <1>5, <2>1, <3>1 DEF PageInv
  <2>2. CASE p \notin B
    BY <1>3, <2>2 DEF SnapshotInv, PageInv, Replied
  <2> QED BY <2>1, <2>2
<1> QED BY <1>3, <1>4, <1>5, <1>6
        DEF SnapshotInv, RepliesInv, SuccessHasSnapshot, OneReplyPerHandling

\* An invocation may end when its messages go back, or all of them were replied to.
LEMMA InvocationEndsInv ==
    ASSUME SnapshotInv, BatchReturns \/ (todo = {} /\ InvocationEnds("consumed", "consumed"))
    PROVE  SnapshotInv'
<1>1. /\ record \in [Pages -> {"none", "waiting", "inflight", "consumed", "expired"}]
      /\ lambda' = "idle" /\ records' = {} /\ todo' = {}
      /\ UNCHANGED <<handling, kept, replies, unsent>>
  BY DEF SnapshotInv, SnapshotTypeOK, BatchReturns, InvocationEnds
<1>2. /\ record' \in [Pages -> {"none", "waiting", "inflight", "consumed", "expired"}]
      /\ \A p \in Pages \ records : record'[p] = record[p]
      /\ \A p \in records : /\ record'[p] \in {"waiting", "expired", "consumed"}
                            /\ record'[p] = "waiting" => handling[p] < MaxHandlings
                            /\ record'[p] = "consumed" => todo = {}
  BY <1>1 DEF SnapshotInv, SnapshotTypeOK, BatchReturns, InvocationEnds
<1>3. SnapshotTypeOK'
  BY <1>1, <1>2 DEF SnapshotInv, SnapshotTypeOK, InLoop
<1>4. ASSUME NEW p \in Pages PROVE PageInv(p)'
  BY <1>1, <1>2 DEF SnapshotInv, PageInv, Replied
<1> QED BY <1>1, <1>3, <1>4 DEF SnapshotInv, RepliesInv, SuccessHasSnapshot, OneReplyPerHandling

\* Moving on within a record changes nothing but what is kept.
LEMMA TryInv ==
    ASSUME SnapshotInv, lambda' \in InLoop, lambda # "idle",
           UNCHANGED <<record, handling, records, todo, replies, unsent>>,
           kept \subseteq kept', kept' \subseteq Pages,
           lambda' = "succeed" => \A p \in Pages : InHand(p) => p \in kept'
    PROVE  SnapshotInv'
<1>1. SnapshotTypeOK'
  BY DEF SnapshotInv, SnapshotTypeOK
<1>2. \A p \in Pages : PageInv(p)'
  BY DEF SnapshotInv, PageInv, Replied
<1>3. \A p \in Pages : InHand(p)' = InHand(p)
  BY DEF InHand
<1> QED BY <1>1, <1>2, <1>3
        DEF SnapshotInv, RepliesInv, SuccessHasSnapshot, OneReplyPerHandling, InLoop

LEMMA RespondInv ==
    ASSUME SnapshotInv, NEW p \in Pages, NEW from, NEW outcome,
           <<from, outcome>> \in {<<"succeed", "SUCCESS">>, <<"fail", "FAILURE">>},
           Respond(p, from, outcome)
    PROVE  SnapshotInv'
<1> DEFINE own == Reply(p, outcome)
<1>1. /\ UNCHANGED <<record, handling, records, kept>>
      /\ lambda = from /\ lambda' = "open" /\ todo' = todo \ {p} /\ p \in todo /\ InHand(p)
      /\ replies' = replies \/ replies' = replies \cup {own}
      /\ unsent' = unsent \/ unsent' = unsent \cup {<<p, handling[p]>>}
      /\ own \in replies' \/ <<p, handling[p]>> \in unsent'
  BY DEF Respond, InHand
<1>2. /\ p \in records /\ handling[p] \in 1..MaxHandlings /\ outcome \in {"SUCCESS", "FAILURE"}
      /\ record[p] = "inflight"
  BY <1>1, SnapshotAssumption
     DEF SnapshotAssumption, SnapshotInv, SnapshotTypeOK, PageInv
<1>3. SnapshotTypeOK'
  <2>1. own \in [to : Pages, nth : 1..MaxHandlings, status : {"SUCCESS", "FAILURE"}]
    BY <1>2 DEF Reply
  <2> QED BY <1>1, <1>2, <2>1 DEF SnapshotInv, SnapshotTypeOK, InLoop
<1>4. Replied(p)'
  BY <1>1 DEF Replied, Reply
<1>5. ASSUME NEW q \in Pages, q # p PROVE PageInv(q)'
  <2>1. PageInv(q)
    BY <1>5 DEF SnapshotInv
  <2>2. Replied(q) => Replied(q)'
    BY <1>1 DEF Replied
  <2>3. own.to # q
    BY <1>5 DEF Reply
  <2> QED BY <1>1, <1>5, <2>1, <2>2, <2>3 DEF PageInv
<1>6. PageInv(p)'
  BY <1>1, <1>2, <1>4 DEF PageInv
<1>7. \A r \in replies' : r.nth <= handling'[r.to]
  BY <1>1, <1>2, SnapshotAssumption DEF SnapshotInv, RepliesInv, Reply, SnapshotAssumption
<1>8. SuccessHasSnapshot'
  <2>1. outcome = "SUCCESS" => p \in kept
    BY <1>1 DEF SnapshotInv, RepliesInv
  <2> QED BY <1>1, <2>1 DEF SnapshotInv, SuccessHasSnapshot, Reply
<1>9. OneReplyPerHandling'
  <2>1. \A r \in replies : ~(r.to = own.to /\ r.nth = own.nth)
    BY <1>1 DEF SnapshotInv, PageInv, Reply
  <2> QED BY <1>1, <2>1 DEF SnapshotInv, OneReplyPerHandling
<1> QED BY <1>1, <1>3, <1>5, <1>6, <1>7, <1>8, <1>9 DEF SnapshotInv, RepliesInv

LEMMA SnapshotStepInv == SnapshotInv /\ [SnapshotNext]_snapshotVars => SnapshotInv'
<1> SUFFICES ASSUME SnapshotInv, [SnapshotNext]_snapshotVars PROVE SnapshotInv'
  OBVIOUS
<1>1. ASSUME Start PROVE SnapshotInv'
  BY <1>1, InvocationEndsInv, TryInv DEF Start, SnapshotInv, SnapshotTypeOK, InLoop
<1>2. ASSUME NEW p \in Pages, Snapshot(p) PROVE SnapshotInv'
  BY <1>2, TryInv DEF Snapshot, Try, SnapshotInv, SnapshotTypeOK, InLoop
<1>3. ASSUME NEW p \in Pages, Store(p) PROVE SnapshotInv'
  BY <1>3, TryInv DEF Store, Try, InHand, SnapshotInv, SnapshotTypeOK, InLoop
<1>4. ASSUME NEW p \in Pages, Respond(p, "succeed", "SUCCESS") \/ Respond(p, "fail", "FAILURE")
      PROVE  SnapshotInv'
  BY <1>4, RespondInv
<1>5. ASSUME Finish \/ TimesOut PROVE SnapshotInv'
  BY <1>5, InvocationEndsInv DEF Finish, TimesOut
<1>6. ASSUME UNCHANGED snapshotVars PROVE SnapshotInv'
  BY <1>6 DEF snapshotVars, SnapshotInv, SnapshotTypeOK, PageInv, Replied, RepliesInv, InHand,
              SuccessHasSnapshot, OneReplyPerHandling
<1> QED BY <1>1, <1>2, <1>3, <1>4, <1>5, <1>6, ForwardedInv, InvokeInv
        DEF SnapshotNext, LambdaStep, HandleRecord

\* The types of the lambda's state: no message is delivered once too often.
THEOREM SnapshotTypeCorrect == SnapshotSpec => []SnapshotTypeOK
<1>1. SnapshotInv => SnapshotTypeOK
  BY DEF SnapshotInv
<1> QED BY <1>1, SnapshotInitInv, SnapshotStepInv, PTL DEF SnapshotSpec

\* No record leaves the queue unanswered, whatever became of the others of its batch,
\* but for a send whose result was ignored.
THEOREM ConsumptionIsReplied == SnapshotSpec => []ConsumedIsReplied
<1>1. SnapshotInv => ConsumedIsReplied
  BY DEF SnapshotInv, PageInv, Replied, ConsumedIsReplied
<1> QED BY <1>1, SnapshotInitInv, SnapshotStepInv, PTL DEF SnapshotSpec

\* A requester that hears of a success finds the snapshot.
THEOREM SuccessesHaveSnapshots == SnapshotSpec => []SuccessHasSnapshot
<1>1. SnapshotInv => SuccessHasSnapshot
  BY DEF SnapshotInv
<1> QED BY <1>1, SnapshotInitInv, SnapshotStepInv, PTL DEF SnapshotSpec

\* Each handling of a message replies once.
THEOREM OneReplyEach == SnapshotSpec => []OneReplyPerHandling
<1>1. SnapshotInv => OneReplyPerHandling
  BY DEF SnapshotInv
<1> QED BY <1>1, SnapshotInitInv, SnapshotStepInv, PTL DEF SnapshotSpec

\* Each handling is replied to once, or its reply was refused, and truly.
THEOREM RepliesRight == SnapshotSpec => []RepliesAreRight
BY ConsumptionIsReplied, OneReplyEach, SuccessesHaveSnapshots, PTL DEF RepliesAreRight

----------------------------------------------------------------------------
(* The capacity manager.                                                    *)

Taken == {j \in Work : job[j] = "taken"}

\* A worker is at one job at most, and a run has counted what it saw.
CapacityInv ==
    /\ CapacityTypeOK
    /\ AtWork <= workers
    /\ \A r \in CapacityRuns : Cardinality(there[r]) <= counted[r]

LEMMA WorkSizes ==
    /\ Cardinality(Work) \in Nat
    /\ AtWork = Cardinality(Taken) /\ AtWork \in Nat /\ IsFiniteSet(Taken)
    /\ \A S \in SUBSET Work : IsFiniteSet(S) /\ Cardinality(S) \in 0..Cardinality(Work)
<1>1. IsFiniteSet(Work) /\ Cardinality(Work) \in Nat
  BY CapacityAssumption, FS_CardinalityType DEF CapacityAssumption
<1>2. ASSUME NEW S \in SUBSET Work
      PROVE  IsFiniteSet(S) /\ Cardinality(S) \in 0..Cardinality(Work)
  BY <1>1, FS_Subset, FS_CardinalityType
<1> QED BY <1>1, <1>2 DEF AtWork, Taken

LEMMA WantedBounds ==
    ASSUME NEW n \in Nat
    PROVE  Wanted(n) \in GroupMin..GroupMax /\ Wanted(n) >= Smaller(n, GroupMax)
BY CapacityAssumption DEF CapacityAssumption, Wanted, Larger, Smaller

LEMMA CapacityInitInv == CapacityInit => CapacityInv
<1> SUFFICES ASSUME CapacityInit PROVE CapacityInv
  OBVIOUS
<1>1. CapacityTypeOK
  BY WorkSizes, CapacityAssumption DEF CapacityAssumption, CapacityInit, CapacityTypeOK
<1>2. AtWork = 0
  <2>1. Taken = {}
    BY DEF CapacityInit, Taken
  <2> QED BY <2>1, WorkSizes, FS_EmptySet
<1>3. \A r \in CapacityRuns : Cardinality(there[r]) <= counted[r]
  BY FS_EmptySet DEF CapacityInit
<1> QED BY <1>1, <1>2, <1>3, CapacityAssumption DEF CapacityInv, CapacityAssumption, CapacityInit

\* Jobs only leave what a run has seen.
LEMMA MovesInv ==
    ASSUME CapacityInv, NEW j \in Work, NEW from, NEW to \in {"visible", "taken", "abandoned", "done"},
           Moves(j, from, to)
    PROVE  /\ job' \in [Work -> {"none", "visible", "taken", "abandoned", "done"}]
           /\ there' \in [CapacityRuns -> SUBSET Work]
           /\ \A r \in CapacityRuns : Cardinality(there'[r]) <= counted'[r]
           /\ from # "taken" /\ to # "taken" => AtWork' = AtWork
           /\ from # "taken" /\ to = "taken" => AtWork' = AtWork + 1
           /\ from = "taken" /\ to # "taken" => AtWork' = AtWork - 1
<1>1. /\ job \in [Work -> {"none", "visible", "taken", "abandoned", "done"}]
      /\ there \in [CapacityRuns -> SUBSET Work] /\ counted' = counted
      /\ counted \in [CapacityRuns -> 0..Cardinality(Work)]
      /\ job[j] = from /\ job' = [job EXCEPT ![j] = to]
      /\ there' = [r \in CapacityRuns |-> IF to = "done" THEN there[r] \ {j} ELSE there[r]]
  BY DEF CapacityInv, CapacityTypeOK, Moves
<1>2. ASSUME NEW r \in CapacityRuns PROVE Cardinality(there'[r]) <= counted'[r]
  <2>1. there[r] \in SUBSET Work /\ there'[r] \subseteq there[r] /\ counted[r] \in Nat
    BY <1>1, WorkSizes
  <2>2. Cardinality(there[r]) \in Nat /\ Cardinality(there'[r]) \in Nat
    BY <2>1, WorkSizes
  <2>3. Cardinality(there'[r]) <= Cardinality(there[r])
    BY <2>1, WorkSizes, FS_Subset
  <2> QED BY <1>1, <2>1, <2>2, <2>3 DEF CapacityInv
<1>3. AtWork' = Cardinality(Taken')
  BY DEF AtWork, Taken
<1>4. from # "taken" /\ to # "taken" => AtWork' = AtWork
  <2>1. from # "taken" /\ to # "taken" => Taken' = Taken
    BY <1>1 DEF Taken
  <2> QED BY <1>3, <2>1, WorkSizes
<1>5. from # "taken" /\ to = "taken" => AtWork' = AtWork + 1
  <2>1. from # "taken" /\ to = "taken" => Taken' = Taken \cup {j} /\ j \notin Taken
    BY <1>1 DEF Taken
  <2> QED BY <1>3, <2>1, WorkSizes, FS_AddElement
<1>6. from = "taken" /\ to # "taken" => AtWork' = AtWork - 1
  <2>1. from = "taken" /\ to # "taken" => Taken' = Taken \ {j} /\ j \in Taken
    BY <1>1 DEF Taken
  <2> QED BY <1>3, <2>1, WorkSizes, FS_RemoveElement
<1> QED BY <1>1, <1>2, <1>4, <1>5, <1>6

LEMMA MishapType ==
    ASSUME CapacityInv, NEW kind, Mishap(kind)
    PROVE  mishaps' \in 0..MaxMishaps
BY CapacityAssumption DEF CapacityAssumption, CapacityInv, CapacityTypeOK, Mishap

LEMMA WorkStepInv ==
    ASSUME CapacityInv, NEW j \in Work, WorkStep(j)
    PROVE  CapacityInv'
<1>1. /\ workers \in 0..GroupMax /\ AtWork \in Nat /\ AtWork <= workers
      /\ GroupMax \in Nat /\ mishaps \in 0..MaxMishaps
  BY WorkSizes, CapacityAssumption DEF CapacityAssumption, CapacityInv, CapacityTypeOK
<1>2. ASSUME NEW from, NEW to \in {"visible", "taken", "abandoned", "done"}, Moves(j, from, to),
             workers' \in 0..GroupMax, mishaps' \in 0..MaxMishaps, AtWork' <= workers'
      PROVE  CapacityInv'
  BY <1>2, MovesInv DEF CapacityInv, CapacityTypeOK, Moves
<1>3. ASSUME JobArrives(j) PROVE CapacityInv'
  <2>1. AtWork' = AtWork
    BY <1>3, MovesInv DEF JobArrives
  <2> QED BY <1>1, <1>2, <1>3, <2>1 DEF JobArrives
<1>4. ASSUME JobTaken(j) PROVE CapacityInv'
  <2>1. AtWork' = AtWork + 1
    BY <1>4, MovesInv DEF JobTaken
  <2> QED BY <1>1, <1>2, <1>4, <2>1 DEF JobTaken
<1>5. ASSUME JobDone(j) PROVE CapacityInv'
  <2>1. AtWork' = AtWork - 1
    BY <1>5, MovesInv DEF JobDone
  <2> QED BY <1>1, <1>2, <1>5, <2>1 DEF JobDone
<1>6. ASSUME WorkerLost(j) PROVE CapacityInv'
  <2>1. AtWork' = AtWork - 1 /\ AtWork' \in Nat
    <3>1. AtWork' \in Nat
      <4>1. Taken' \in SUBSET Work
        BY DEF Taken
      <4>2. AtWork' = Cardinality(Taken')
        BY DEF AtWork, Taken
      <4> QED BY <4>1, <4>2, WorkSizes
    <3> QED BY <1>6, <3>1, MovesInv DEF WorkerLost
  <2>2. workers' \in 0..GroupMax /\ AtWork' <= workers'
    BY <1>1, <1>6, <2>1 DEF WorkerLost
  <2> QED BY <1>2, <1>6, <2>2, MishapType DEF WorkerLost
<1>7. ASSUME JobReturns(j) PROVE CapacityInv'
  <2>1. AtWork' = AtWork
    BY <1>7, MovesInv DEF JobReturns
  <2> QED BY <1>1, <1>2, <1>7, <2>1 DEF JobReturns
<1> QED BY <1>3, <1>4, <1>5, <1>6, <1>7 DEF WorkStep, Progress

LEMMA GroupScalesInv ==
    ASSUME CapacityInv, GroupScales
    PROVE  CapacityInv'
<1>1. workers' \in 0..GroupMax /\ AtWork' <= workers'
  <2>1. AtWork' = AtWork /\ AtWork \in Nat
    BY WorkSizes DEF GroupScales, AtWork
  <2> QED BY <2>1, CapacityAssumption
          DEF CapacityAssumption, CapacityInv, CapacityTypeOK, GroupScales
<1> QED BY <1>1 DEF CapacityInv, CapacityTypeOK, GroupScales

\* A run that is over has forgotten what it counted.
LEMMA RunEndsInv ==
    ASSUME CapacityInv, NEW r \in CapacityRuns, RunEnds(r),
           UNCHANGED <<job, workers>>,
           desired' \in GroupMin..GroupMax, mishaps' \in 0..MaxMishaps
    PROVE  CapacityInv'
<1>1. CapacityTypeOK'
  BY WorkSizes DEF CapacityInv, CapacityTypeOK, RunEnds
<1>2. AtWork' = AtWork
  BY DEF AtWork
<1>3. \A q \in CapacityRuns : Cardinality(there'[q]) <= counted'[q]
  BY FS_EmptySet DEF CapacityInv, CapacityTypeOK, RunEnds
<1> QED BY <1>1, <1>2, <1>3 DEF CapacityInv

LEMMA ManagerStepInv ==
    ASSUME CapacityInv, NEW r \in CapacityRuns, ManagerStep(r)
    PROVE  CapacityInv'
<1>1. ASSUME CountQueue(r) PROVE CapacityInv'
  <2>1. OnQueue \in SUBSET Work /\ QueueLength \in 0..Cardinality(Work)
    BY WorkSizes DEF OnQueue, QueueLength
  <2>2. PICK n \in 0..Cardinality(Work), S \in SUBSET Work :
           /\ counted' = [counted EXCEPT ![r] = n] /\ there' = [there EXCEPT ![r] = S]
           /\ Cardinality(S) <= n
    <3>1. Cardinality({}) = 0
      BY FS_EmptySet
    <3> QED BY <1>1, <2>1, <3>1 DEF CountQueue, QueueLength
  <2>3. mishaps' \in 0..MaxMishaps
    BY <1>1, MishapType DEF CountQueue, CapacityInv, CapacityTypeOK
  <2>4. AtWork' = AtWork
    BY <1>1 DEF CountQueue, AtWork
  <2>5. CapacityTypeOK'
    BY <1>1, <2>2, <2>3 DEF CountQueue, CapacityInv, CapacityTypeOK
  <2>6. \A q \in CapacityRuns : Cardinality(there'[q]) <= counted'[q]
    BY <2>2 DEF CapacityInv, CapacityTypeOK
  <2> QED BY <1>1, <2>4, <2>5, <2>6 DEF CapacityInv, CountQueue
<1>2. ASSUME GetMax(r) PROVE CapacityInv'
  <2>1. CASE RunEnds(r) /\ Mishap("call")
    BY <1>2, <2>1, RunEndsInv, MishapType DEF GetMax, CapacityInv, CapacityTypeOK
  <2>2. CASE manager' = [manager EXCEPT ![r] = "set"] /\ UNCHANGED <<counted, there, mishaps>>
    <3>1. AtWork' = AtWork
      BY <1>2 DEF GetMax, AtWork
    <3> QED BY <1>2, <2>2, <3>1 DEF GetMax, CapacityInv, CapacityTypeOK
  <2> QED BY <1>2, <2>1, <2>2 DEF GetMax
<1>3. ASSUME SetDesired(r) PROVE CapacityInv'
  <2>1. mishaps' \in 0..MaxMishaps
    BY <1>3, MishapType DEF SetDesired, CapacityInv, CapacityTypeOK
  <2>2. desired' \in GroupMin..GroupMax
    BY <1>3 DEF SetDesired, CapacityInv, CapacityTypeOK
  <2> QED BY <1>3, <2>1, <2>2, RunEndsInv DEF SetDesired
<1> QED BY <1>1, <1>2, <1>3 DEF ManagerStep

LEMMA CapacityStepInv == CapacityInv /\ [CapacityNext]_capacityVars => CapacityInv'
<1> SUFFICES ASSUME CapacityInv, [CapacityNext]_capacityVars PROVE CapacityInv'
  OBVIOUS
<1>1. ASSUME UNCHANGED capacityVars PROVE CapacityInv'
  BY <1>1 DEF capacityVars, CapacityInv, CapacityTypeOK, AtWork
<1> QED BY <1>1, WorkStepInv, GroupScalesInv, ManagerStepInv DEF CapacityNext

\* The types of the manager's state: the group is never asked for a capacity beyond
\* its bounds, and there are never fewer workers than jobs that one is at.
THEOREM CapacityTypeCorrect == CapacitySpec => []CapacityTypeOK
<1>1. CapacityInv => CapacityTypeOK
  BY DEF CapacityInv
<1> QED BY <1>1, CapacityInitInv, CapacityStepInv, PTL DEF CapacitySpec

\* For any number of overlapping runs, what a run asks for is enough for the jobs that
\* it counted and that are still there.
THEOREM CapacityIsEnough == CapacitySpec => EnoughForTheQueue
<1>1. ASSUME CapacityInv, [CapacityNext]_capacityVars, NEW r \in CapacityRuns,
             manager[r] = "set", manager'[r] = "idle", desired' # desired
      PROVE  desired' >= Smaller(Cardinality(there[r]), GroupMax)
  <2>1. PICK q \in CapacityRuns : SetDesired(q)
    BY <1>1 DEF CapacityNext, GroupScales, WorkStep, Progress, JobArrives, JobTaken, JobDone,
                WorkerLost, JobReturns, Moves, ManagerStep, CountQueue, GetMax, capacityVars
  <2>2. q = r /\ desired' = Wanted(counted[r])
    BY <1>1, <2>1 DEF SetDesired, RunEnds, CapacityInv, CapacityTypeOK
  <2>3. counted[r] \in Nat /\ Cardinality(there[r]) \in Nat /\ Cardinality(there[r]) <= counted[r]
    BY <1>1, WorkSizes DEF CapacityInv, CapacityTypeOK
  <2> QED BY <2>2, <2>3, WantedBounds, CapacityAssumption
          DEF CapacityAssumption, Smaller
<1>2. CapacityInv /\ [CapacityNext]_capacityVars =>
         [\A r \in CapacityRuns :
            manager[r] = "set" /\ manager'[r] = "idle" /\ desired' # desired =>
                desired' >= Smaller(Cardinality(there[r]), GroupMax)]_capacityVars
  BY <1>1
<1> QED BY <1>2, CapacityInitInv, CapacityStepInv, PTL DEF CapacitySpec, EnoughForTheQueue

----------------------------------------------------------------------------
(* The prompt pages.                                                        *)

Accepted(n) == llmJob[n] # "none" \/ llmItem[n] = "LLM_SUCCESS"

RightOutput(n) == output[n] = IF backend[n] = "LOCAL" THEN "gzip" ELSE "plain"

\* What the POST handler, the job, the workers, the item and the output of a prompt
\* say of one another. The output of Bedrock and a job exclude each other.
PromptInv(n) ==
    /\ backend[n] = "none" => handler[n] = "none" /\ llmItem[n] = "none"
    /\ handler[n] \in Posting \cup {"none"} => llmJob[n] = "none"
    /\ handler[n] \in {"bedrock", "output", "item"} => backend[n] = "BEDROCK"
    /\ handler[n] = "send" => backend[n] = "LOCAL"
    /\ handler[n] = "item" => output[n] = "plain"
    /\ handler[n] = "200" => Accepted(n)
    /\ output[n] = "plain" => backend[n] = "BEDROCK"
    /\ llmJob[n] # "none" => backend[n] = "LOCAL"
    /\ llmJob[n] = "none" => \A t \in Tries : WorkerAt(n, t, "none")
    /\ \A t \in Tries : worker[n][t] \in {"publish", "delete"} => output[n] = "gzip"
    /\ llmItem[n] = "LLM_SUCCESS" => RightOutput(n)
    /\ llmItem[n] = "LLM_FAILURE" => WorkerAt(n, MaxTries, "over")

\* Each receive of a job is reported once at most: as a success that was uploaded,
\* or, if it is the last one, as a failure.
AttemptInv(r) ==
    /\ llmJob[r.id] # "none"
    /\ r.says = "LLM_SUCCESS" =>
          output[r.id] = "gzip" /\ worker[r.id][r.nth] \in {"delete", "over"}
    /\ r.says = "LLM_FAILURE" => r.nth = MaxTries /\ WorkerAt(r.id, r.nth, "over")
    /\ \A s \in attempts : r.id = s.id /\ r.nth = s.nth => r = s

\* A loop of the prompt runs, or its result is on the page.
OnPage(n) == displayed = n \/ \E l \in Loops : l[1] = n /\ Live(l)

\* Of two prompts that the page is about, unless one of them is late, neither is
\* posted any longer, and it is that of the URL which is on the page.
OneAtATime ==
    /\ \A m \in fetching, n \in Prompts :
          n # m /\ (n \in fetching \/ OnPage(n)) => m \in late \/ n \in late
    /\ \A n \in Prompts : n # promptId /\ OnPage(n) => n \in late \/ promptId \in late

LlmInv ==
    /\ LlmApiTypeOK
    /\ \A n \in Prompts : PromptInv(n)
    /\ \A r \in attempts : AttemptInv(r)
    /\ promptId # 0 => handler[promptId] = "200"
    /\ \A l \in Loops : Live(l) => handler[l[1]] = "200"
    /\ OneAtATime

LEMMA LlmInit == LlmApiInit => LlmInv
<1> SUFFICES ASSUME LlmApiInit PROVE LlmInv
  OBVIOUS
<1>1. LlmApiTypeOK
  <2>1. 0 \in 0..MaxPrompts /\ 0 \in 0..MaxUpsets
    BY LlmApiAssumption DEF LlmApiAssumption
  <2> QED BY <2>1 DEF LlmApiInit, LlmApiTypeOK
<1>2. \A n \in Prompts : PromptInv(n)
  BY DEF LlmApiInit, PromptInv, WorkerAt
<1> QED BY <1>1, <1>2 DEF LlmApiInit, LlmInv, OneAtATime, OnPage, Live, Prompts

LEMMA UpsetType ==
    ASSUME LlmInv, NEW kind, Upset(kind)
    PROVE  upsets' \in 0..MaxUpsets
BY LlmApiAssumption DEF LlmApiAssumption, LlmInv, LlmApiTypeOK, Upset

\* The page is as it was.
LEMMA BackKeepsPage ==
    ASSUME LlmInv, UNCHANGED promptPageVars,
           \A n \in Prompts : handler[n] = "200" => handler'[n] = "200"
    PROVE  /\ promptId' # 0 => handler'[promptId'] = "200"
           /\ \A l \in Loops : Live(l)' => handler'[l[1]] = "200"
           /\ OneAtATime'
<1>1. promptId \in 0..MaxPrompts /\ \A l \in Loops : l[1] \in Prompts
  BY DEF LlmInv, LlmApiTypeOK, Loops
<1> QED BY <1>1 DEF LlmInv, OneAtATime, OnPage, Live, promptPageVars, Prompts

\* The steps of a POST handler.
LEMMA PostStepInv ==
    ASSUME LlmInv, NEW n \in Prompts, PostStep(n)
    PROVE  LlmInv'
<1>1. /\ UNCHANGED <<promptPageVars, backend, worker, reports, attempts>>
      /\ handler \in [Prompts -> Posting \cup {"none", "200", "500"}]
      /\ output \in [Prompts -> {"none", "plain", "gzip"}]
      /\ llmItem \in [Prompts -> Verdicts \cup {"none"}]
      /\ llmJob \in [Prompts -> {"none", "queued", "deleted"}]
      /\ PromptInv(n) /\ handler[n] \in Posting
      /\ backend[n] \in {"none", "LOCAL", "BEDROCK"}
  BY LlmApiAssumption
     DEF LlmInv, LlmApiTypeOK, PostStep, PutPrompt, SendPromptToBedrock, PutOutput, SaveItem,
         SendLlmJob, storeVars, Handles, Posting, LlmApiAssumption
<1>2. upsets' \in 0..MaxUpsets
  BY UpsetType DEF PostStep, PutPrompt, SendPromptToBedrock, PutOutput, SaveItem, SendLlmJob,
                   LlmInv, LlmApiTypeOK
<1>3. PICK to \in Posting \cup {"200", "500"} : handler' = [handler EXCEPT ![n] = to]
  BY DEF PostStep, PutPrompt, SendPromptToBedrock, PutOutput, SaveItem, SendLlmJob, Replies,
         Posting
<1>4. /\ handler'[n] = to
      /\ \A m \in Prompts \ {n} : handler'[m] = handler[m]
  BY <1>1, <1>3
<1>5. /\ output' \in {output, [output EXCEPT ![n] = "plain"]}
      /\ llmItem' \in {llmItem, [llmItem EXCEPT ![n] = "LLM_SUCCESS"]}
      /\ llmJob' \in {llmJob, [llmJob EXCEPT ![n] = "queued"]}
  BY DEF PostStep, PutPrompt, SendPromptToBedrock, PutOutput, SaveItem, SendLlmJob, storeVars
<1>6. LlmApiTypeOK'
  <2>1. handler' \in [Prompts -> Posting \cup {"none", "200", "500"}]
    BY <1>1, <1>3
  <2>2. output' \in [Prompts -> {"none", "plain", "gzip"}]
    BY <1>1, <1>5
  <2>3. llmItem' \in [Prompts -> Verdicts \cup {"none"}]
    BY <1>1, <1>5 DEF Verdicts
  <2>4. llmJob' \in [Prompts -> {"none", "queued", "deleted"}]
    BY <1>1, <1>5
  <2> QED BY <1>1, <1>2, <2>1, <2>2, <2>3, <2>4 DEF LlmInv, LlmApiTypeOK, promptPageVars
<1>7. llmJob[n] = "none" /\ backend[n] # "none" /\ \A t \in Tries : WorkerAt(n, t, "none")
  BY <1>1 DEF PromptInv, Posting
<1>8. PromptInv(n)'
  <2>1. to \in {"bedrock", "output", "item"} => backend[n] = "BEDROCK"
    BY <1>1, <1>4 DEF PostStep, PutPrompt, SendPromptToBedrock, PutOutput, SaveItem, SendLlmJob,
              Replies, Handles, PromptInv
  <2>2. to = "send" => backend[n] = "LOCAL"
    BY <1>1, <1>4, <1>7 DEF PostStep, PutPrompt, SendPromptToBedrock, PutOutput, SaveItem,
              SendLlmJob, Replies, Handles
  <2>3. to = "item" => output'[n] = "plain"
    BY <1>1, <1>4 DEF PostStep, PutPrompt, SendPromptToBedrock, PutOutput, SaveItem, SendLlmJob,
              Replies, Handles
  <2>4. output'[n] # output[n] => output'[n] = "plain" /\ backend[n] = "BEDROCK"
    BY <1>1 DEF PostStep, PutPrompt, SendPromptToBedrock, PutOutput, SaveItem, SendLlmJob,
              Handles, storeVars, PromptInv
  <2>5. llmJob'[n] # "none" => /\ to \in {"200", "500"}
                               /\ backend[n] = "LOCAL"
    BY <1>1, <1>4, <1>7 DEF PostStep, PutPrompt, SendPromptToBedrock, PutOutput, SaveItem,
              SendLlmJob, Replies, Handles, storeVars, PromptInv
  <2>6. to = "200" => llmItem'[n] = "LLM_SUCCESS" \/ llmJob'[n] # "none"
    BY <1>1, <1>4 DEF PostStep, PutPrompt, SendPromptToBedrock, PutOutput, SaveItem, SendLlmJob,
              Replies, Handles
  <2>7. llmItem'[n] # llmItem[n] => /\ llmItem'[n] = "LLM_SUCCESS"
                                    /\ output'[n] = "plain" /\ backend[n] = "BEDROCK"
    BY <1>1 DEF PostStep, PutPrompt, SendPromptToBedrock, PutOutput, SaveItem, SendLlmJob,
              Handles, storeVars, PromptInv
  <2>8. llmItem[n] # "LLM_FAILURE"
    BY <1>1, <1>7, LlmApiAssumption DEF PromptInv, WorkerAt, Tries, LlmApiAssumption
  <2>9. WorkerAt(n, MaxTries, "over")' = WorkerAt(n, MaxTries, "over")
        /\ \A t \in Tries : WorkerAt(n, t, "none")' /\ worker'[n][t] = "none"
    BY <1>1, <1>7 DEF WorkerAt
  <2>10. llmItem'[n] \in {llmItem[n], "LLM_SUCCESS"} /\ backend'[n] = backend[n]
    BY <1>1, <1>5
  <2>11. llmItem'[n] = "LLM_SUCCESS" => RightOutput(n)'
    BY <1>1, <2>4, <2>7, <2>10 DEF PromptInv, RightOutput
  <2>12. handler'[n] \in Posting \cup {"none"} => llmJob'[n] = "none"
    BY <1>4, <2>5 DEF Posting
  <2>13. output'[n] = "plain" => backend'[n] = "BEDROCK"
    BY <1>1, <2>4, <2>10 DEF PromptInv
  <2>14. handler'[n] = "200" => Accepted(n)'
    BY <1>4, <2>6 DEF Accepted
  <2> QED BY <1>4, <1>7, <2>1, <2>2, <2>3, <2>5, <2>8, <2>9, <2>10, <2>11, <2>12, <2>13, <2>14
          DEF PromptInv
<1>9. ASSUME NEW m \in Prompts \ {n} PROVE PromptInv(m)'
  <2>1. PromptInv(m)
    BY DEF LlmInv
  <2>2. output'[m] = output[m] /\ llmItem'[m] = llmItem[m] /\ llmJob'[m] = llmJob[m]
    BY <1>1, <1>5
  <2> QED BY <1>1, <1>4, <2>1, <2>2 DEF PromptInv, Accepted, RightOutput, WorkerAt
<1>10. ASSUME NEW r \in attempts' PROVE AttemptInv(r)'
  <2>1. AttemptInv(r) /\ r.id \in Prompts
    BY <1>1, <1>10 DEF LlmInv, LlmApiTypeOK
  <2>2. r.id # n
    BY <1>7, <2>1 DEF AttemptInv
  <2>3. output'[r.id] = output[r.id] /\ llmJob'[r.id] = llmJob[r.id]
    BY <1>1, <1>5, <2>1, <2>2
  <2> QED BY <1>1, <2>1, <2>3 DEF AttemptInv, WorkerAt
<1>11. \A m \in Prompts : handler[m] = "200" => handler'[m] = "200"
  BY <1>1, <1>4 DEF Posting
<1> QED BY <1>1, <1>6, <1>8, <1>9, <1>10, <1>11, BackKeepsPage DEF LlmInv

\* What a step of a worker may do: where it comes from, and what it leaves behind.
LEMMA WorkerStepShape ==
    ASSUME LlmInv, NEW n \in Prompts, NEW t \in Tries, WorkerStep(n, t)
    PROVE  /\ UNCHANGED <<promptPageVars, backend, handler, llmItem>>
           /\ upsets' \in 0..MaxUpsets
           /\ llmJob[n] # "none"
           /\ llmJob' = llmJob \/ llmJob' = [llmJob EXCEPT ![n] = "deleted"]
           /\ output' = output \/ output' = [output EXCEPT ![n] = "gzip"]
           /\ \E p \in OnJob \cup {"over"} :
                 /\ worker' = [worker EXCEPT ![n][t] = p]
                 /\ worker[n][t] # "over"
                 /\ p = "publish" => output'[n] = "gzip"
                 /\ p = "delete" => worker[n][t] = "publish"
                 /\ worker[n][t] = "delete" => p = "over"
                 /\ \/ UNCHANGED <<reports, attempts>>
                    \/ \E says \in Verdicts :
                          /\ reports' = reports \cup {Report(n, t, says)}
                          /\ attempts' = attempts \cup {Report(n, t, says)}
                          /\ worker[n][t] \notin {"delete", "over"}
                          /\ says = "LLM_SUCCESS" => worker[n][t] = "publish" /\ p = "delete"
                          /\ says = "LLM_FAILURE" => t = MaxTries /\ p = "over"
<1>1. /\ output \in [Prompts -> {"none", "plain", "gzip"}]
      /\ llmJob \in [Prompts -> {"none", "queued", "deleted"}]
      /\ upsets \in 0..MaxUpsets
      /\ t \in 1..MaxTries /\ MaxTries \in Nat
      /\ llmJob[n] = "none" => worker[n][t] = "none"
  BY LlmApiAssumption
     DEF LlmInv, LlmApiTypeOK, PromptInv, WorkerAt, LlmApiAssumption, Tries
<1>2. CASE ReceiveJob(n, t)
  <2>1. upsets' \in 0..MaxUpsets
    BY <1>1, <1>2, UpsetType DEF ReceiveJob
  <2> QED BY <1>1, <1>2, <2>1 DEF ReceiveJob, Goes, WorkerAt, OnJob
<1>3. CASE UploadOutput(n, t)
  BY <1>1, <1>3 DEF UploadOutput, Goes, WorkerAt, OnJob
<1>4. CASE PublishSuccess(n, t)
  <2>1. upsets' \in 0..MaxUpsets
    BY <1>1, <1>4, UpsetType DEF PublishSuccess
  <2> QED BY <1>1, <1>4, <2>1
          DEF PublishSuccess, Goes, WorkerAt, OnJob, Tells, TellsNothing, Verdicts
<1>5. CASE DeleteJob(n, t)
  <2>1. upsets' \in 0..MaxUpsets
    BY <1>1, <1>5, UpsetType DEF DeleteJob
  <2> QED BY <1>1, <1>5, <2>1 DEF DeleteJob, Goes, WorkerAt, OnJob
<1>6. CASE GiveUp(n, t)
  <2>1. upsets' \in 0..MaxUpsets
    BY <1>1, <1>6, UpsetType DEF GiveUp
  <2>2. t >= MaxTries => t = MaxTries
    BY <1>1
  <2> QED BY <1>1, <1>6, <2>1, <2>2
          DEF GiveUp, Goes, WorkerAt, OnJob, Tells, TellsNothing, Verdicts
<1>7. CASE LoseWorker(n, t)
  <2>1. upsets' \in 0..MaxUpsets
    BY <1>1, <1>7, UpsetType DEF LoseWorker
  <2> QED BY <1>1, <1>7, <2>1 DEF LoseWorker, Goes, OnJob
<1> QED BY <1>2, <1>3, <1>4, <1>5, <1>6, <1>7 DEF WorkerStep

\* A worker has a job, so Bedrock had no part in the prompt, and what it reports is
\* the first and only report of this receive.
LEMMA WorkerStepInv ==
    ASSUME LlmInv, NEW n \in Prompts, NEW t \in Tries, WorkerStep(n, t)
    PROVE  LlmInv'
<1>1. /\ UNCHANGED <<promptPageVars, backend, handler, llmItem>>
      /\ upsets' \in 0..MaxUpsets
      /\ llmJob[n] # "none"
      /\ llmJob' = llmJob \/ llmJob' = [llmJob EXCEPT ![n] = "deleted"]
      /\ output' = output \/ output' = [output EXCEPT ![n] = "gzip"]
  BY WorkerStepShape
<1>2. PICK p \in OnJob \cup {"over"} :
                 /\ worker' = [worker EXCEPT ![n][t] = p]
                 /\ worker[n][t] # "over"
                 /\ p = "publish" => output'[n] = "gzip"
                 /\ p = "delete" => worker[n][t] = "publish"
                 /\ worker[n][t] = "delete" => p = "over"
                 /\ \/ UNCHANGED <<reports, attempts>>
                    \/ \E says \in Verdicts :
                          /\ reports' = reports \cup {Report(n, t, says)}
                          /\ attempts' = attempts \cup {Report(n, t, says)}
                          /\ worker[n][t] \notin {"delete", "over"}
                          /\ says = "LLM_SUCCESS" => worker[n][t] = "publish" /\ p = "delete"
                          /\ says = "LLM_FAILURE" => t = MaxTries /\ p = "over"
  BY WorkerStepShape
<1>3. /\ output \in [Prompts -> {"none", "plain", "gzip"}]
      /\ llmJob \in [Prompts -> {"none", "queued", "deleted"}]
      /\ worker \in [Prompts -> [Tries -> OnJob \cup {"none", "over"}]]
      /\ attempts \subseteq [id : Prompts, nth : Tries, says : Verdicts]
      /\ reports \subseteq attempts
      /\ MaxTries \in Tries
  BY LlmApiAssumption DEF LlmInv, LlmApiTypeOK, LlmApiAssumption, Tries
<1>4. /\ worker' \in [Prompts -> [Tries -> OnJob \cup {"none", "over"}]]
      /\ worker'[n][t] = p
      /\ \A m \in Prompts, u \in Tries : ~(m = n /\ u = t) => worker'[m][u] = worker[m][u]
  BY <1>2, <1>3
<1>5. /\ output' \in [Prompts -> {"none", "plain", "gzip"}]
      /\ llmJob' \in [Prompts -> {"none", "queued", "deleted"}]
      /\ llmJob'[n] # "none"
      /\ output'[n] \in {output[n], "gzip"}
      /\ \A m \in Prompts \ {n} : output'[m] = output[m] /\ llmJob'[m] = llmJob[m]
  BY <1>1, <1>3
<1>6. attempts \subseteq attempts' /\ reports' \subseteq attempts'
      /\ attempts' \subseteq [id : Prompts, nth : Tries, says : Verdicts]
  BY <1>2, <1>3 DEF Report
<1>7. LlmApiTypeOK'
  BY <1>1, <1>4, <1>5, <1>6 DEF LlmInv, LlmApiTypeOK, promptPageVars
<1>8. ASSUME NEW m \in Prompts \ {n} PROVE PromptInv(m)'
  <2>1. PromptInv(m)
    BY DEF LlmInv
  <2>2. \A u \in Tries : worker'[m][u] = worker[m][u]
    BY <1>4
  <2> QED BY <1>1, <1>3, <1>5, <2>1, <2>2 DEF PromptInv, Accepted, RightOutput, WorkerAt
<1>9. PromptInv(n)'
  <2>1. PromptInv(n)
    BY DEF LlmInv
  <2>2. backend[n] = "LOCAL" /\ output[n] # "plain"
    BY <1>1, <2>1 DEF PromptInv
  <2>3. \A u \in Tries : worker'[n][u] \in {"publish", "delete"} => output'[n] = "gzip"
    <3>1. ASSUME NEW u \in Tries, worker'[n][u] \in {"publish", "delete"}
          PROVE  output'[n] = "gzip"
      <4>1. CASE u = t
        <5>1. p = "delete" => output[n] = "gzip"
          BY <1>2, <2>1 DEF PromptInv
        <5> QED BY <1>2, <1>4, <1>5, <3>1, <4>1, <5>1
      <4>2. CASE u # t
        BY <1>4, <1>5, <2>1, <3>1, <4>2 DEF PromptInv
      <4> QED BY <4>1, <4>2
    <3> QED BY <3>1
  <2>4. WorkerAt(n, MaxTries, "over") => WorkerAt(n, MaxTries, "over")'
    BY <1>2, <1>3, <1>4 DEF WorkerAt
  <2>5. llmItem[n] = "LLM_SUCCESS" => output[n] = "gzip"
    BY <2>1, <2>2 DEF PromptInv, RightOutput
  <2>6. llmItem'[n] = "LLM_SUCCESS" => RightOutput(n)'
    BY <1>1, <1>5, <2>2, <2>5 DEF RightOutput
  <2>7. output'[n] # "plain" /\ Accepted(n)'
    BY <1>5, <2>2 DEF Accepted
  <2>8. handler[n] \notin Posting \cup {"none"}
    BY <1>1, <2>1 DEF PromptInv
  <2> QED BY <1>1, <1>5, <2>1, <2>2, <2>3, <2>4, <2>6, <2>7, <2>8 DEF PromptInv, Posting
<1>10. ASSUME NEW r \in attempts
       PROVE  /\ r \in [id : Prompts, nth : Tries, says : Verdicts] /\ AttemptInv(r)
              /\ r.id = n /\ r.nth = t => worker[n][t] \in {"delete", "over"}
              /\ output[r.id] = "gzip" => output'[r.id] = "gzip"
  <2>1. r \in [id : Prompts, nth : Tries, says : Verdicts] /\ AttemptInv(r)
    BY <1>3, <1>10 DEF LlmInv
  <2> QED BY <1>5, <2>1 DEF AttemptInv, Verdicts, WorkerAt
<1>11. ASSUME NEW r \in attempts, NEW s \in attempts', r.id = s.id, r.nth = s.nth
       PROVE  r = s
  <2>1. CASE s \in attempts
    BY <1>10, <1>11, <2>1 DEF AttemptInv
  <2>2. CASE s \notin attempts
    <3>1. s.id = n /\ s.nth = t /\ worker[n][t] \notin {"delete", "over"}
      BY <1>2, <2>2 DEF Report
    <3> QED BY <1>10, <1>11, <3>1
  <2> QED BY <2>1, <2>2
<1>12. ASSUME NEW r \in attempts PROVE AttemptInv(r)'
  <2>1. r \in [id : Prompts, nth : Tries, says : Verdicts] /\ AttemptInv(r)
    BY <1>10
  <2>2. worker[r.id][r.nth] = "over" => worker'[r.id][r.nth] = "over"
    BY <1>2, <1>4, <2>1
  <2>3. worker[r.id][r.nth] = "delete" => worker'[r.id][r.nth] \in {"delete", "over"}
    BY <1>2, <1>4, <2>1
  <2>4. llmJob'[r.id] # "none"
    BY <1>5, <2>1 DEF AttemptInv
  <2> QED BY <1>10, <1>11, <2>1, <2>2, <2>3, <2>4 DEF AttemptInv, WorkerAt
<1>13. ASSUME NEW r \in attempts' \ attempts PROVE AttemptInv(r)'
  <2>1. PICK says \in Verdicts :
             /\ r = Report(n, t, says)
             /\ attempts' = attempts \cup {r}
             /\ says = "LLM_SUCCESS" => worker[n][t] = "publish" /\ p = "delete"
             /\ says = "LLM_FAILURE" => t = MaxTries /\ p = "over"
    BY <1>2, <1>13
  <2>2. r.id = n /\ r.nth = t /\ r.says = says
    BY <2>1 DEF Report
  <2>3. says = "LLM_SUCCESS" => output'[n] = "gzip"
    BY <1>5, <2>1 DEF LlmInv, PromptInv
  <2>4. \A s \in attempts' : r.id = s.id /\ r.nth = s.nth => r = s
    BY <1>11, <2>1
  <2> QED BY <1>4, <1>5, <2>1, <2>2, <2>3, <2>4 DEF AttemptInv, WorkerAt
<1>14. \A r \in attempts' : AttemptInv(r)'
  BY <1>12, <1>13
<1> QED BY <1>1, <1>7, <1>8, <1>9, <1>14, BackKeepsPage DEF LlmInv

LEMMA HandleReportInv ==
    ASSUME LlmInv, NEW r \in reports, HandleReport(r)
    PROVE  LlmInv'
<1>1. /\ UNCHANGED <<promptPageVars, backend, handler, output, llmJob, worker, attempts>>
      /\ llmItem \in [Prompts -> Verdicts \cup {"none"}]
      /\ llmItem' = llmItem \/ llmItem' = [llmItem EXCEPT ![r.id] = r.says]
      /\ reports' = reports \ {r}
  BY DEF LlmInv, LlmApiTypeOK, HandleReport
<1>2. r \in attempts /\ r.id \in Prompts /\ r.says \in Verdicts /\ AttemptInv(r)
  BY DEF LlmInv, LlmApiTypeOK
<1>3. LlmApiTypeOK'
  <2>1. upsets' \in 0..MaxUpsets
    BY UpsetType DEF HandleReport, LlmInv, LlmApiTypeOK
  <2>2. llmItem' \in [Prompts -> Verdicts \cup {"none"}]
    BY <1>1, <1>2
  <2> QED BY <1>1, <2>1, <2>2 DEF LlmInv, LlmApiTypeOK, promptPageVars
<1>4. ASSUME NEW n \in Prompts PROVE PromptInv(n)'
  <2>1. PromptInv(n)
    BY DEF LlmInv
  <2>2. CASE n = r.id
    <3>1. /\ llmJob[n] # "none"
          /\ r.says = "LLM_SUCCESS" => output[n] = "gzip"
          /\ r.says = "LLM_FAILURE" => WorkerAt(n, MaxTries, "over")
      BY <1>2, <2>2 DEF AttemptInv
    <3>2. llmItem'[n] \in {llmItem[n], r.says}
      BY <1>1, <2>2
    <3>3. backend[n] = "LOCAL"
      BY <2>1, <3>1 DEF PromptInv
    <3> QED BY <1>1, <1>2, <2>1, <3>1, <3>2, <3>3
            DEF PromptInv, Accepted, RightOutput, WorkerAt, Verdicts
  <2>3. CASE n # r.id
    <3>1. llmItem'[n] = llmItem[n]
      BY <1>1, <2>3
    <3> QED BY <1>1, <2>1, <3>1 DEF PromptInv, Accepted, RightOutput, WorkerAt
  <2> QED BY <2>2, <2>3
<1>5. \A s \in attempts' : AttemptInv(s)'
  BY <1>1 DEF LlmInv, AttemptInv, WorkerAt
<1> QED BY <1>1, <1>3, <1>4, <1>5, BackKeepsPage DEF LlmInv

\* Nothing but the page and the number of upsets changes.
LEMMA PageKeepsBack ==
    ASSUME LlmInv, UNCHANGED <<backend, handler, storeVars>>
    PROVE  /\ \A n \in Prompts : PromptInv(n)'
           /\ \A r \in attempts' : AttemptInv(r)'
<1>1. \A n \in Prompts : PromptInv(n)'
  BY DEF LlmInv, PromptInv, Accepted, RightOutput, WorkerAt, storeVars
<1> QED BY <1>1 DEF LlmInv, AttemptInv, WorkerAt, storeVars

LEMMA SubmitPromptInv ==
    ASSUME LlmInv, NEW n \in Prompts, NEW b \in Backends, SubmitPrompt(n, b)
    PROVE  LlmInv'
<1>1. /\ UNCHANGED <<promptId, polls, storeVars, upsets>>
      /\ backend \in [Prompts -> Backends \cup {"none"}]
      /\ handler \in [Prompts -> Posting \cup {"none", "200", "500"}]
      /\ promptId \in 0..MaxPrompts /\ late \subseteq Prompts
      /\ backend' = [backend EXCEPT ![n] = b] /\ handler' = [handler EXCEPT ![n] = "put"]
      /\ form' = "InProgress" /\ displayed' = 0 /\ fetching' = fetching \cup {n}
      /\ late' = late \cup fetching \cup {m \in Prompts : \E l \in Loops : l[1] = m /\ Live(l)}
      /\ fetching \subseteq Prompts
      /\ backend[n] = "none"
  BY DEF LlmInv, LlmApiTypeOK, SubmitPrompt
<1>2. b # "none"
  BY LlmApiAssumption DEF LlmApiAssumption
<1>3. PromptInv(n) /\ handler[n] = "none"
  BY <1>1 DEF LlmInv, PromptInv
<1>4. LlmApiTypeOK'
  <2>1. 0 \in 0..MaxPrompts
    BY LlmApiAssumption DEF LlmApiAssumption
  <2>2. late' \subseteq Prompts
    BY <1>1
  <2> QED BY <1>1, <2>1, <2>2 DEF LlmInv, LlmApiTypeOK, storeVars, Posting
<1>5. ASSUME NEW m \in Prompts PROVE PromptInv(m)'
  <2>1. PromptInv(m)
    BY DEF LlmInv
  <2>2. llmItem[n] = "none" /\ llmJob[n] = "none" /\ output[n] # "plain"
    BY <1>1, <1>3 DEF PromptInv
  <2>3. m # n => handler'[m] = handler[m] /\ backend'[m] = backend[m]
    BY <1>1
  <2>4. handler'[n] = "put" /\ backend'[n] # "none"
    BY <1>1, <1>2
  <2> QED BY <1>1, <1>3, <2>1, <2>2, <2>3, <2>4 
          DEF PromptInv, Accepted, RightOutput, WorkerAt, Posting, storeVars
<1>6. \A r \in attempts' : AttemptInv(r)'
  BY <1>1 DEF LlmInv, AttemptInv, WorkerAt, storeVars
<1>7. /\ promptId' # 0 => handler'[promptId'] = "200"
      /\ \A l \in Loops : Live(l)' => handler'[l[1]] = "200"
  <2>1. \A m \in Prompts : handler[m] = "200" => handler'[m] = "200"
    BY <1>1, <1>3
  <2>2. promptId # 0 => promptId \in Prompts
    BY <1>1 DEF Prompts
  <2> QED BY <1>1, <2>1, <2>2 DEF LlmInv, Live, Loops
<1>8. OneAtATime'
  <2>1. ASSUME NEW m \in Prompts, m \in fetching \/ OnPage(m)' PROVE m \in late'
    <3>1. \A l \in Loops : Live(l)' = Live(l)
      BY <1>1 DEF Live
    <3> QED BY <1>1, <2>1, <3>1 DEF OnPage, Prompts
  <2>2. ASSUME NEW m \in fetching', NEW k \in Prompts, k # m, k \in fetching' \/ OnPage(k)'
        PROVE  m \in late' \/ k \in late'
    BY <1>1, <2>1, <2>2
  <2> QED BY <2>1, <2>2 DEF OneAtATime
<1> QED BY <1>4, <1>5, <1>6, <1>7, <1>8 DEF LlmInv

\* A prompt that was accepted is polled from now on.
LEMMA AnsweredInv ==
    ASSUME LlmInv, NEW n \in Prompts, Answered(n)
    PROVE  LlmInv'
<1>1. /\ UNCHANGED <<displayed, late, backend, handler, storeVars, upsets>>
      /\ fetching' = fetching \ {n} /\ n \in fetching
      /\ polls \in [Loops -> {"none", "wait", "result"}] /\ promptId \in 0..MaxPrompts
  BY DEF LlmInv, LlmApiTypeOK, Answered
<1>2. (\A m \in Prompts : PromptInv(m)') /\ (\A r \in attempts' : AttemptInv(r)')
  BY <1>1, PageKeepsBack
<1>3. CASE handler[n] # "200"
  <2>1. form' = "Failed" /\ UNCHANGED <<promptId, polls>>
    BY <1>3 DEF Answered
  <2> QED BY <1>1, <1>2, <2>1 DEF LlmInv, LlmApiTypeOK, OneAtATime, OnPage, Live, storeVars
<1>4. CASE handler[n] = "200"
  <2>1. /\ form' = "Waiting" /\ promptId' = n
        /\ polls' = [l \in Loops |-> IF l[1] = n THEN "wait" ELSE polls[l]]
    BY <1>4 DEF Answered
  <2>2. LlmApiTypeOK'
    BY <1>1, <2>1, LlmApiAssumption DEF LlmInv, LlmApiTypeOK, storeVars, Prompts, LlmApiAssumption
  <2>3. \A l \in Loops : Live(l)' => handler'[l[1]] = "200"
    BY <1>1, <1>4, <2>1 DEF LlmInv, Live
  <2>4. OneAtATime'
    <3>1. ASSUME NEW m \in Prompts, OnPage(m)' PROVE OnPage(m) \/ m = n
      BY <1>1, <2>1, <3>1 DEF OnPage, Live
    <3>2. ASSUME NEW m \in Prompts, m # n, OnPage(m)' PROVE m \in late \/ n \in late
      BY <1>1, <3>1, <3>2 DEF LlmInv, OneAtATime
    <3>3. ASSUME NEW m \in fetching', NEW k \in Prompts, k # m, k \in fetching' \/ OnPage(k)'
          PROVE  m \in late \/ k \in late
      <4>1. CASE k = n
        BY <1>1, <3>3, <4>1 DEF LlmInv, LlmApiTypeOK, OneAtATime
      <4>2. CASE k # n
        BY <1>1, <3>1, <3>3, <4>2 DEF LlmInv, OneAtATime
      <4> QED BY <4>1, <4>2
    <3> QED BY <1>1, <2>1, <3>2, <3>3 DEF OneAtATime
  <2> QED BY <1>1, <1>2, <1>4, <2>1, <2>2, <2>3, <2>4 DEF LlmInv
<1> QED BY <1>3, <1>4

LEMMA NoAnswerInv ==
    ASSUME LlmInv, NEW n \in Prompts, NoAnswer(n)
    PROVE  LlmInv'
<1>1. /\ UNCHANGED <<promptId, displayed, polls, late, backend, handler, storeVars>>
      /\ fetching' = fetching \ {n} /\ form' = "Failed" /\ upsets' \in 0..MaxUpsets
  BY UpsetType DEF NoAnswer
<1>2. (\A m \in Prompts : PromptInv(m)') /\ (\A r \in attempts' : AttemptInv(r)')
  BY <1>1, PageKeepsBack
<1> QED BY <1>1, <1>2 DEF LlmInv, LlmApiTypeOK, OneAtATime, OnPage, Live, storeVars

\* A loop that goes on, or ends, having displayed what it got.
LEMMA LoopStepInv ==
    ASSUME LlmInv, NEW k \in Loops, Get(k) \/ GetResult(k) \/ Breaks(k)
    PROVE  LlmInv'
<1>1. /\ UNCHANGED <<promptId, fetching, late, backend, handler, storeVars>>
      /\ polls \in [Loops -> {"none", "wait", "result"}] /\ k[1] \in Prompts
      /\ Live(k)
      /\ \E p \in {"none", "result"} : polls' = [polls EXCEPT ![k] = p]
      /\ upsets' \in 0..MaxUpsets
      /\ form' \in {form, "Success"} /\ displayed' \in {displayed, k[1]}
  BY UpsetType DEF LlmInv, LlmApiTypeOK, Get, GetResult, Breaks, Live, Loops
<1>2. (\A m \in Prompts : PromptInv(m)') /\ (\A r \in attempts' : AttemptInv(r)')
  BY <1>1, PageKeepsBack
<1>3. LlmApiTypeOK'
  BY <1>1 DEF LlmInv, LlmApiTypeOK, storeVars, Prompts
<1>4. \A l \in Loops : Live(l)' => Live(l)
  BY <1>1 DEF Live
<1>5. OneAtATime'
  <2>1. ASSUME NEW m \in Prompts, OnPage(m)' PROVE OnPage(m)
    BY <1>1, <1>4, <2>1 DEF OnPage
  <2> QED BY <1>1, <2>1 DEF LlmInv, OneAtATime
<1> QED BY <1>1, <1>2, <1>3, <1>4, <1>5 DEF LlmInv

LEMMA ReloadInv ==
    ASSUME LlmInv, Reload
    PROVE  LlmInv'
<1>1. /\ UNCHANGED <<promptId, late, backend, handler, storeVars>> /\ upsets' \in 0..MaxUpsets
      /\ form' = "Ready" /\ displayed' = 0 /\ fetching' = {}
      /\ polls' = [l \in Loops |-> IF l = <<promptId, "effect">> THEN "wait" ELSE "none"]
  BY UpsetType DEF Reload
<1>2. (\A m \in Prompts : PromptInv(m)') /\ (\A r \in attempts' : AttemptInv(r)')
  BY <1>1, PageKeepsBack
<1>3. LlmApiTypeOK'
  BY <1>1, LlmApiAssumption DEF LlmInv, LlmApiTypeOK, storeVars, LlmApiAssumption
<1>4. \A l \in Loops : Live(l)' => l = <<promptId, "effect">>
  BY <1>1 DEF Live
<1>5. \A l \in Loops : Live(l)' => l[1] = promptId /\ promptId # 0
  BY <1>4, LlmApiAssumption DEF LlmApiAssumption, Loops, Prompts
<1>6. \A m \in Prompts : OnPage(m)' => m = promptId
  BY <1>1, <1>5 DEF OnPage, Prompts
<1> QED BY <1>1, <1>2, <1>3, <1>5, <1>6 DEF LlmInv, OneAtATime

LEMMA LlmStep == LlmInv /\ [LlmApiNext]_llmApiVars => LlmInv'
<1> SUFFICES ASSUME LlmInv, [LlmApiNext]_llmApiVars PROVE LlmInv'
  OBVIOUS
<1>1. ASSUME UNCHANGED llmApiVars PROVE LlmInv'
  <2>1. (\A m \in Prompts : PromptInv(m)') /\ (\A r \in attempts' : AttemptInv(r)')
    BY <1>1, PageKeepsBack DEF llmApiVars
  <2> QED BY <1>1, <2>1 DEF llmApiVars, promptPageVars, storeVars, LlmInv, LlmApiTypeOK, OneAtATime, OnPage, Live
<1> QED BY <1>1, PostStepInv, WorkerStepInv, HandleReportInv, SubmitPromptInv, AnsweredInv,
           NoAnswerInv, LoopStepInv, ReloadInv
        DEF LlmApiNext, BackStep, PageStep

\* The inductive invariant: what the POST handler, the job, the workers, the item, the
\* output, the reports and the loops of a prompt say of one another.
THEOREM LlmInvariance == LlmApiSpec => []LlmInv
BY LlmInit, LlmStep, PTL DEF LlmApiSpec

\* The types of the state of the prompt pages and their back.
THEOREM LlmApiTypeCorrect == LlmApiSpec => []LlmApiTypeOK
<1>1. LlmInv => LlmApiTypeOK
  BY DEF LlmInv
<1> QED BY <1>1, LlmInvariance, PTL

\* Nothing that was not accepted is polled, whatever failed or was loaded again.
THEOREM OnlyAcceptedIsPolled == LlmApiSpec => []PolledIsAccepted
<1>1. LlmInv => PolledIsAccepted
  BY DEF LlmInv, PromptInv, Accepted, PolledIsAccepted, Loops
<1> QED BY <1>1, LlmInvariance, PTL

\* An item that says success has its output, in whatever order reports are handled.
THEOREM SuccessesHaveOutput == LlmApiSpec => []SuccessHasOutput
<1>1. LlmInv => SuccessHasOutput
  BY DEF LlmInv, PromptInv, RightOutput, SuccessHasOutput
<1> QED BY <1>1, LlmInvariance, PTL

\* An item that says failure is about a job whose last receive is over.
THEOREM FailuresAreFinal == LlmApiSpec => []FailureIsFinal
<1>1. LlmInv => FailureIsFinal
  BY DEF LlmInv, PromptInv, FailureIsFinal
<1> QED BY <1>1, LlmInvariance, PTL

\* Only a prompt that was left too early can put another result on the page.
THEOREM TheLastIsShown == LlmApiSpec => []ShownIsCurrent
<1>1. LlmInv => ShownIsCurrent
  BY DEF LlmInv, LlmApiTypeOK, OneAtATime, OnPage, ShownIsCurrent, Prompts
<1> QED BY <1>1, LlmInvariance, PTL

\* Only a later worker's failure can hide a success that was reported.
THEOREM HiddenSuccessesWereRepeated == LlmApiSpec => []HiddenSuccessWasRepeated
<1>1. ASSUME LlmInv, NEW r \in attempts, NEW s \in attempts, r.id = s.id,
             r.says = "LLM_FAILURE", s.says = "LLM_SUCCESS"
      PROVE  s.nth < r.nth
  <2>1. /\ AttemptInv(r) /\ AttemptInv(s)
        /\ s.nth \in 1..MaxTries /\ MaxTries \in Nat
    BY <1>1, LlmApiAssumption DEF LlmInv, LlmApiTypeOK, Tries, LlmApiAssumption
  <2>2. r.nth = MaxTries /\ r.nth # s.nth
    BY <1>1, <2>1 DEF AttemptInv
  <2> QED BY <2>1, <2>2
<1>2. LlmInv => HiddenSuccessWasRepeated
  BY <1>1 DEF HiddenSuccessWasRepeated
<1> QED BY <1>2, LlmInvariance, PTL

\* Items, outputs and reports belong together, whichever calls fail and whichever
\* receives and reports come last.
THEOREM ItemsAndOutputsAgree == LlmApiSpec => []ItemsTellOutputs
BY SuccessesHaveOutput, FailuresAreFinal, HiddenSuccessesWereRepeated, PTL DEF ItemsTellOutputs

----------------------------------------------------------------------------
(* The upload page.                                                         *)

Entries == Files \cup Urls
Statuses == {"InProgress", "Success", "Failed"}

\* What a handler knows: its entries are of one source, and those of a loop that is
\* over are all finished.
HandlerInv(n) ==
    /\ rest[n] \subseteq entries[n]
    /\ loop[n] \in {"sign", "put", "transcribe"} => entries[n] \subseteq Files
    /\ loop[n] = "over" => rest[n] = {}
    /\ loop[n] # "none" => entries[n] # {} /\ \A m \in Submits : m < n => loop[m] # "none"
    /\ loop[n] \in Waiting => InView(n) \/ n \in early

\* The list on the page is that of the submission in view: all its entries are on it,
\* those that are finished with a verdict, and none with a success that is not true.
InViewInv(n) ==
    InView(n) =>
        /\ source = SourceOf(n)
        /\ entries[n] \subseteq DOMAIN list[source]
        /\ \A k \in entries[n] : list[source][k] = "Success" => IsSubmitted(n, k)
        /\ \A k \in entries[n] \ rest[n] : list[source][k] \in {"Success", "Failed"}

\* A form is on the page only when every submission was left for it.
FormInv == /\ status = "Ready" => Used \subseteq back
           /\ back \subseteq Used

UploadInv ==
    /\ SubmissionTypeOK
    /\ ShownIsQueued
    /\ FormInv
    /\ \A n \in Submits : HandlerInv(n) /\ InViewInv(n)

LEMMA EmptyList == Empty \in Lists /\ DOMAIN Empty = {}
<1>1. Empty \in [{} -> Statuses] /\ DOMAIN Empty = {}
  BY DEF Empty
<1> QED BY <1>1 DEF Lists, Statuses

LEMMA ListOf ==
    ASSUME NEW S \in SUBSET Entries, NEW f \in [S -> Statuses]
    PROVE  f \in Lists
BY DEF Lists, Entries, Statuses

LEMMA ListType ==
    ASSUME NEW l \in Lists
    PROVE  DOMAIN l \in SUBSET Entries /\ l \in [DOMAIN l -> Statuses]
BY DEF Lists, Entries, Statuses

\* Setting one entry leaves the others alone.
LEMMA WithType ==
    ASSUME NEW l \in Lists, NEW k \in Entries, NEW s \in Statuses
    PROVE  /\ With(l, k, s) \in Lists
           /\ DOMAIN With(l, k, s) = DOMAIN l \cup {k}
           /\ With(l, k, s)[k] = s
           /\ \A e \in DOMAIN l : e # k => With(l, k, s)[e] = l[e]
<1> DEFINE w == [e \in DOMAIN l \cup {k} |-> IF e = k THEN s ELSE l[e]]
<1>1. With(l, k, s) = w
  BY DEF With
<1>2. DOMAIN l \in SUBSET Entries /\ l \in [DOMAIN l -> Statuses]
  BY ListType
<1>3. DOMAIN l \cup {k} \in SUBSET Entries /\ w \in [DOMAIN l \cup {k} -> Statuses]
  BY <1>2
<1>4. w \in Lists
  BY <1>3, ListOf
<1> QED BY <1>1, <1>4

LEMMA UploadInit == SubmissionInit => UploadInv
<1> SUFFICES ASSUME SubmissionInit PROVE UploadInv
  OBVIOUS
<1>1. SubmissionTypeOK
  BY EmptyList DEF SubmissionInit, SubmissionTypeOK, Sources
<1>2. ShownIsQueued
  BY EmptyList DEF SubmissionInit, ShownIsQueued, Sources
<1>3. FormInv /\ \A n \in Submits : HandlerInv(n) /\ InViewInv(n)
  BY DEF SubmissionInit, FormInv, HandlerInv, InViewInv, InView, IsNewest, Used, Waiting
<1> QED BY <1>1, <1>2, <1>3 DEF UploadInv

\* A new submission is in view, and a handler of another that runs was left early.
LEMMA SubmitInv ==
    ASSUME UploadInv, NEW n \in Submits, Submit(n)
    PROVE  UploadInv'
<1>0. PICK s \in Sources : \E S \in SUBSET EntriesOf(s) :
        /\ S # {} /\ source' = s
        /\ list' = [list EXCEPT ![s] = [k \in S |-> "InProgress"]]
        /\ rest' = [rest EXCEPT ![n] = S] /\ entries' = [entries EXCEPT ![n] = S]
        /\ loop' = [loop EXCEPT ![n] = IF s = "file" THEN "sign" ELSE "post"]
  BY DEF Submit
<1>1. PICK S \in SUBSET EntriesOf(s) :
        /\ S # {} /\ source' = s
        /\ list' = [list EXCEPT ![s] = [k \in S |-> "InProgress"]]
        /\ rest' = [rest EXCEPT ![n] = S] /\ entries' = [entries EXCEPT ![n] = S]
        /\ loop' = [loop EXCEPT ![n] = IF s = "file" THEN "sign" ELSE "post"]
  BY <1>0
<1>2. /\ status = "Ready" /\ status' = "InProgress" /\ UNCHANGED <<objects, queued, back, early>>
      /\ loop[n] = "none" /\ \A m \in Submits : m < n => loop[m] # "none"
      /\ loop \in [Submits -> Waiting \cup {"none", "thrown", "over"}]
      /\ rest \in [Submits -> SUBSET (Files \cup Urls)]
      /\ entries \in [Submits -> (SUBSET Files) \cup (SUBSET Urls)]
      /\ list \in [Sources -> Lists]
  BY DEF Submit, Used, UploadInv, SubmissionTypeOK
<1>3. /\ S \in (SUBSET Files) \cup (SUBSET Urls) /\ S \in SUBSET Entries
      /\ s = "file" => S \subseteq Files
      /\ s = "url" => S \subseteq Urls /\ ~(S \subseteq Files)
      /\ s \in {"file", "url"}
  BY <1>1, SubmissionAssumption DEF EntriesOf, Entries, Sources, SubmissionAssumption
<1> DEFINE l == [k \in S |-> "InProgress"]
<1>4. l \in Lists
  BY <1>3, ListOf DEF Statuses
<1>5. /\ loop'[n] \in {"sign", "post"} /\ (loop'[n] = "sign" => s = "file")
      /\ rest'[n] = S /\ entries'[n] = S /\ list'[s] = l
      /\ \A m \in Submits \ {n} : loop'[m] = loop[m] /\ rest'[m] = rest[m] /\ entries'[m] = entries[m]
      /\ \A t \in Sources \ {s} : list'[t] = list[t]
  BY <1>1, <1>2
<1>6. SubmissionTypeOK'
  BY <1>1, <1>2, <1>3, <1>4 DEF UploadInv, SubmissionTypeOK, Waiting, Entries
<1>7. ShownIsQueued'
  BY <1>1, <1>2, <1>5 DEF UploadInv, ShownIsQueued
<1>8. \A m \in Submits : loop'[m] # "none" => m <= n
  <2> SUFFICES ASSUME NEW m \in Submits, loop'[m] # "none", n < m PROVE FALSE
    BY DEF Submits
  <2>1. loop[m] # "none"
    BY <1>5 DEF Submits
  <2> QED BY <1>2, <2>1 DEF UploadInv, HandlerInv
<1>9. /\ Used' = Used \cup {n} /\ Used \subseteq back /\ back \subseteq Used
      /\ n \notin back /\ early \subseteq back
  BY <1>2, <1>5 DEF UploadInv, FormInv, SubmissionTypeOK, Used
<1>10. InView(n)' /\ FormInv'
  <2>1. IsNewest(n)'
    BY <1>5, <1>8 DEF IsNewest, Used
  <2> QED BY <1>2, <1>9, <2>1 DEF InView, FormInv
<1>11. ASSUME NEW m \in Submits, m # n PROVE HandlerInv(m)' /\ InViewInv(m)'
  <2>1. ~InView(m)'
    BY <1>5, <1>8, <1>11 DEF InView, IsNewest, Used, Submits
  <2>2. HandlerInv(m)
    BY DEF UploadInv
  <2>3. loop[m] \in Waiting => m \in early
    <3>1. loop[m] \in Waiting => m \in back
      BY <1>9 DEF Used, Waiting
    <3> QED BY <2>2, <3>1 DEF HandlerInv, InView
  <2>4. \A i \in Submits : loop[i] # "none" => loop'[i] # "none"
    BY <1>5
  <2> QED BY <1>2, <1>5, <1>11, <2>1, <2>2, <2>3, <2>4 DEF HandlerInv, InViewInv
<1>12. HandlerInv(n)'
  <2>1. \A m \in Submits : m < n => loop'[m] # "none"
    BY <1>2, <1>5 DEF Submits
  <2> QED BY <1>1, <1>2, <1>3, <1>5, <1>10, <2>1 DEF HandlerInv
<1>13. InViewInv(n)'
  <2>1. SourceOf(n)' = s
    BY <1>3, <1>5 DEF SourceOf
  <2>2. DOMAIN l = S /\ \A k \in S : l[k] = "InProgress"
    OBVIOUS
  <2> QED BY <1>1, <1>5, <2>1, <2>2 DEF InViewInv
<1> QED BY <1>6, <1>7, <1>10, <1>11, <1>12, <1>13 DEF UploadInv

LEMMA ResetInv ==
    ASSUME UploadInv, Reset
    PROVE  UploadInv'
<1>1. /\ UNCHANGED <<source, loop, rest, entries, objects, queued>> /\ status' = "Ready"
      /\ list' = [list EXCEPT !["file"] = Empty] /\ list \in [Sources -> Lists]
      /\ early' = early \cup {n \in Submits : loop[n] \in Waiting}
      /\ back' = Used /\ early \subseteq back /\ back \subseteq Used
  BY DEF Reset, UploadInv, SubmissionTypeOK, FormInv
<1>2. SubmissionTypeOK'
  <2>1. list' \in [Sources -> Lists]
    BY <1>1, EmptyList
  <2>2. early' \subseteq back' /\ back' \subseteq Submits
    BY <1>1 DEF Used, Waiting
  <2> QED BY <1>1, <2>1, <2>2 DEF UploadInv, SubmissionTypeOK
<1>3. ShownIsQueued'
  <2>1. list'["file"] = Empty /\ \A s \in Sources \ {"file"} : list'[s] = list[s]
    BY <1>1 DEF Sources
  <2> QED BY <1>1, <2>1, EmptyList DEF UploadInv, ShownIsQueued, Sources
<1>4. Used' = Used /\ \A n \in Submits : ~InView(n)'
  BY <1>1 DEF Used, InView, IsNewest
<1>5. FormInv'
  BY <1>1, <1>4 DEF FormInv
<1>6. \A n \in Submits : HandlerInv(n)' /\ InViewInv(n)'
  BY <1>1, <1>4 DEF UploadInv, HandlerInv, InViewInv
<1> QED BY <1>2, <1>3, <1>5, <1>6 DEF UploadInv

\* A handler goes to its next await, or is thrown out of its loop.
LEMMA GoesOnInv ==
    ASSUME UploadInv, NEW n \in Submits, loop[n] \in Waiting,
           NEW p \in {"put", "transcribe", "thrown"}, loop' = [loop EXCEPT ![n] = p],
           p # "thrown" => loop[n] \in {"sign", "put", "transcribe"},
           UNCHANGED <<status, source, list, rest, entries, back, early>>,
           queued \subseteq queued', queued' \subseteq Submits \X Entries,
           objects' \subseteq Submits \X Files
    PROVE  UploadInv'
<1>1. loop \in [Submits -> Waiting \cup {"none", "thrown", "over"}]
  BY DEF UploadInv, SubmissionTypeOK
<1>2. loop'[n] = p /\ \A m \in Submits \ {n} : loop'[m] = loop[m]
  BY <1>1
<1>3. SubmissionTypeOK'
  <2>1. loop' \in [Submits -> Waiting \cup {"none", "thrown", "over"}]
    BY <1>1 DEF Waiting
  <2> QED BY <2>1 DEF UploadInv, SubmissionTypeOK, Entries
<1>4. ShownIsQueued'
  BY DEF UploadInv, ShownIsQueued
<1>5. Used' = Used
  BY <1>2 DEF Used, Waiting
<1>6. \A m \in Submits : InView(m)' = InView(m) /\ SourceOf(m)' = SourceOf(m)
  BY <1>5 DEF InView, IsNewest, SourceOf
<1>7. \A m \in Submits : loop'[m] # "none" <=> loop[m] # "none"
  BY <1>2 DEF Waiting
<1>8. ASSUME NEW m \in Submits PROVE HandlerInv(m)' /\ InViewInv(m)'
  <2>1. HandlerInv(m) /\ InViewInv(m)
    BY DEF UploadInv
  <2>2. HandlerInv(m)'
    BY <1>2, <1>6, <1>7, <2>1 DEF HandlerInv, Waiting
  <2>3. \A k : IsSubmitted(m, k) => IsSubmitted(m, k)'
    BY DEF IsSubmitted
  <2>4. InViewInv(m)'
    BY <1>6, <2>1, <2>3 DEF InViewInv
  <2> QED BY <2>2, <2>4
<1>9. FormInv'
  BY <1>5 DEF UploadInv, FormInv
<1> QED BY <1>3, <1>4, <1>8, <1>9 DEF UploadInv

\* An entry is finished, and marked with success only if it is queued by now.
LEMMA EntryDoneInv ==
    ASSUME UploadInv, NEW n \in Submits, loop[n] \in Waiting, NEW k \in rest[n],
           NEW s \in {"Success", "Failed"}, EntryDone(n, k, s),
           UNCHANGED <<source, entries, back, early>>,
           queued \subseteq queued', queued' \subseteq Submits \X Entries,
           objects' \subseteq Submits \X Files,
           s = "Success" => <<n, k>> \in queued'
    PROVE  UploadInv'
<1> DEFINE src == SourceOf(n)
<1>1. /\ loop \in [Submits -> Waiting \cup {"none", "thrown", "over"}]
      /\ rest \in [Submits -> SUBSET Entries] /\ list \in [Sources -> Lists]
      /\ src \in Sources /\ list[src] \in Lists /\ k \in Entries /\ s \in Statuses
      /\ HandlerInv(n)
  BY DEF UploadInv, SubmissionTypeOK, Entries, SourceOf, Sources, Statuses
<1>2. PICK p \in {"over", "sign", "post"} :
        /\ loop' = [loop EXCEPT ![n] = p]
        /\ p = "over" => rest[n] = {k}
        /\ p = "sign" => src = "file"
  BY DEF EntryDone, EntryAwait
<1>3. /\ list' = [list EXCEPT ![src] = With(list[src], k, s)]
      /\ rest' = [rest EXCEPT ![n] = rest[n] \ {k}]
      /\ status' \in {status, "Success", "Failed"}
  BY DEF EntryDone
<1>4. /\ list'[src] = With(list[src], k, s)
      /\ \A t \in Sources \ {src} : list'[t] = list[t]
      /\ loop'[n] = p /\ rest'[n] = rest[n] \ {k}
      /\ \A m \in Submits \ {n} : loop'[m] = loop[m] /\ rest'[m] = rest[m]
  BY <1>1, <1>2, <1>3
<1> DEFINE after == list'[src]
           before == list[src]
<1>5. /\ after \in Lists /\ DOMAIN after = DOMAIN before \cup {k} /\ after[k] = s
      /\ \A e \in DOMAIN before : e # k => after[e] = before[e]
  <2>1. before \in Lists /\ after = With(before, k, s)
    BY <1>1, <1>4
  <2> HIDE DEF before, after
  <2> QED BY <1>1, <2>1, WithType
<1> HIDE DEF after, before
<1>6. SubmissionTypeOK'
  <2>1. list' \in [Sources -> Lists]
    BY <1>1, <1>3, WithType
  <2>2. loop' \in [Submits -> Waiting \cup {"none", "thrown", "over"}]
    BY <1>1, <1>2 DEF Waiting
  <2>3. rest' \in [Submits -> SUBSET Entries]
    BY <1>1, <1>3
  <2>4. status' \in {"Ready", "InProgress", "Failed", "Success"}
    BY <1>3 DEF UploadInv, SubmissionTypeOK
  <2> QED BY <2>1, <2>2, <2>3, <2>4 DEF UploadInv, SubmissionTypeOK, Entries
<1>7. ShownIsQueued'
  <2> SUFFICES ASSUME NEW t \in Sources, NEW e \in DOMAIN list'[t], list'[t][e] = "Success"
               PROVE  \E m \in Submits : <<m, e>> \in queued'
    BY DEF ShownIsQueued
  <2>1. CASE t = src /\ e = k
    <3>1. s = "Success"
      BY <1>5, <2>1 DEF after
    <3> QED BY <2>1, <3>1
  <2>2. CASE ~(t = src /\ e = k)
    <3>1. e \in DOMAIN list[t] /\ list[t][e] = "Success"
      <4>1. CASE t = src
        BY <1>5, <2>2, <4>1 DEF after, before
      <4>2. CASE t # src
        BY <1>4, <4>2
      <4> QED BY <4>1, <4>2
    <3> QED BY <3>1 DEF UploadInv, ShownIsQueued
  <2> QED BY <2>1, <2>2
<1>8. Used' = Used
  BY <1>2, <1>4 DEF Used, Waiting
<1>9. \A m \in Submits : InView(m)' = InView(m) /\ SourceOf(m)' = SourceOf(m)
  BY <1>8 DEF InView, IsNewest, SourceOf
<1>10. \A m \in Submits : loop'[m] # "none" <=> loop[m] # "none"
  BY <1>2, <1>4 DEF Waiting
<1>11. FormInv'
  <2>1. status' = "Ready" => status = "Ready"
    BY <1>3
  <2> QED BY <1>8, <2>1 DEF UploadInv, FormInv
<1>12. HandlerInv(n)'
  <2>1. src = "file" => entries[n] \subseteq Files
    BY DEF SourceOf
  <2>2. InView(n) \/ n \in early
    BY <1>1 DEF HandlerInv
  <2> QED BY <1>1, <1>2, <1>4, <1>9, <1>10, <2>1, <2>2 DEF HandlerInv
<1>13. ASSUME NEW m \in Submits, m # n PROVE HandlerInv(m)'
  <2>1. HandlerInv(m)
    BY DEF UploadInv
  <2> QED BY <1>4, <1>9, <1>10, <1>13, <2>1 DEF HandlerInv
<1>14. ASSUME NEW m \in Submits PROVE InViewInv(m)'
  <2> SUFFICES ASSUME InView(m)
               PROVE  /\ source' = SourceOf(m)'
                      /\ entries'[m] \subseteq DOMAIN list'[source]
                      /\ \A e \in entries'[m] : list'[source][e] = "Success" => IsSubmitted(m, e)'
                      /\ \A e \in entries'[m] \ rest'[m] : list'[source][e] \in {"Success", "Failed"}
    BY <1>9 DEF InViewInv
  <2>1. /\ source = SourceOf(m) /\ entries[m] \subseteq DOMAIN list[source]
        /\ \A e \in entries[m] : list[source][e] = "Success" => IsSubmitted(m, e)
        /\ \A e \in entries[m] \ rest[m] : list[source][e] \in {"Success", "Failed"}
    BY DEF UploadInv, InViewInv
  <2>2. n \in early \cup {m}
    BY <1>1 DEF HandlerInv, InView, IsNewest, Used, Waiting, Submits
  <2>3. s = "Success" => IsSubmitted(m, k)'
    BY <2>2 DEF IsSubmitted
  <2>4. \A e : IsSubmitted(m, e) => IsSubmitted(m, e)'
    BY DEF IsSubmitted
  <2>5. CASE source # src
    <3>1. list'[source] = list[source] /\ m # n
      BY <1>4, <2>1, <2>5 DEF UploadInv, SubmissionTypeOK
    <3> QED BY <1>4, <1>9, <2>1, <2>4, <3>1
  <2>6. CASE source = src
    <3>1. /\ DOMAIN list'[source] = DOMAIN list[source] \cup {k}
          /\ list'[source][k] = s
          /\ \A e \in DOMAIN list[source] : e # k => list'[source][e] = list[source][e]
      BY <1>5, <2>6 DEF after, before
    <3>2. \A e \in entries[m] : list'[source][e] = "Success" => IsSubmitted(m, e)'
      BY <2>1, <2>3, <2>4, <3>1
    <3>3. \A e \in entries[m] \ rest'[m] : list'[source][e] \in {"Success", "Failed"}
      BY <1>4, <2>1, <3>1
    <3> QED BY <1>9, <2>1, <3>1, <3>2, <3>3
  <2> QED BY <2>5, <2>6
<1> QED BY <1>6, <1>7, <1>11, <1>12, <1>13, <1>14 DEF UploadInv

LEMMA HandlerStepInv ==
    ASSUME UploadInv, NEW n \in Submits, HandlerStep(n)
    PROVE  UploadInv'
<1>1. PICK k \in rest[n] : SignUpload(n, k) \/ Put(n, k) \/ TranscribeFile(n, k) \/ TranscribeUrl(n, k)
  BY DEF HandlerStep
<1>2. /\ queued \subseteq Submits \X Entries /\ objects \subseteq Submits \X Files
      /\ k \in Entries /\ HandlerInv(n)
  BY DEF UploadInv, SubmissionTypeOK, Entries
<1>3. ASSUME SignUpload(n, k) PROVE UploadInv'
  <2>1. loop[n] = "sign" /\ UNCHANGED <<source, entries, objects, queued, back, early>>
    BY <1>3 DEF SignUpload
  <2>2. ASSUME GoesOnTo(n, "put") PROVE UploadInv'
    BY <1>2, <2>1, <2>2, GoesOnInv DEF GoesOnTo, Waiting
  <2>3. ASSUME EntryDone(n, k, "Failed") PROVE UploadInv'
    BY <1>2, <2>1, <2>3, EntryDoneInv DEF Waiting
  <2>4. ASSUME Throws(n) PROVE UploadInv'
    BY <1>2, <2>1, <2>4, GoesOnInv DEF Throws, Waiting
  <2> QED BY <1>3, <2>2, <2>3, <2>4 DEF SignUpload
<1>4. ASSUME Put(n, k) PROVE UploadInv'
  <2>1. loop[n] = "put" /\ UNCHANGED <<source, entries, queued, back, early>>
    BY <1>4 DEF Put
  <2>2. k \in Files /\ objects' \subseteq Submits \X Files
    <3>1. k \in Files
      BY <1>2, <2>1 DEF HandlerInv
    <3> QED BY <1>2, <1>4, <3>1 DEF Put
  <2>3. ASSUME GoesOnTo(n, "transcribe") PROVE UploadInv'
    BY <1>2, <2>1, <2>2, <2>3, GoesOnInv DEF GoesOnTo, Waiting
  <2>4. ASSUME EntryDone(n, k, "Failed") PROVE UploadInv'
    BY <1>2, <2>1, <2>2, <2>4, EntryDoneInv DEF Waiting
  <2> QED BY <1>4, <2>3, <2>4 DEF Put
<1>5. ASSUME TranscribeFile(n, k) \/ TranscribeUrl(n, k) PROVE UploadInv'
  <2>1. loop[n] \in Waiting /\ Request(n, k) /\ UNCHANGED <<source, entries, objects, back, early>>
    BY <1>5 DEF TranscribeFile, TranscribeUrl, Waiting, Request
  <2>2. queued \subseteq queued' /\ queued' \subseteq Submits \X Entries
    BY <1>2, <2>1 DEF Request
  <2>3. ASSUME EntryDone(n, k, "Success"), queued' = queued \cup {<<n, k>>} PROVE UploadInv'
    BY <1>2, <2>1, <2>2, <2>3, EntryDoneInv
  <2>4. ASSUME EntryDone(n, k, "Failed") PROVE UploadInv'
    BY <1>2, <2>1, <2>2, <2>4, EntryDoneInv
  <2>5. ASSUME Throws(n) PROVE UploadInv'
    BY <1>2, <2>1, <2>2, <2>5, GoesOnInv DEF Throws
  <2> QED BY <2>1, <2>3, <2>4, <2>5 DEF Request
<1> QED BY <1>1, <1>3, <1>4, <1>5

LEMMA UploadStep == UploadInv /\ [SubmissionNext]_submissionVars => UploadInv'
<1> SUFFICES ASSUME UploadInv, [SubmissionNext]_submissionVars PROVE UploadInv'
  OBVIOUS
<1>1. ASSUME UNCHANGED submissionVars PROVE UploadInv'
  BY <1>1 DEF submissionVars, UploadInv, SubmissionTypeOK, ShownIsQueued, HandlerInv, InViewInv,
              FormInv, InView, IsNewest, Used, SourceOf, IsSubmitted
<1> QED BY <1>1, SubmitInv, ResetInv, HandlerStepInv DEF SubmissionNext

\* The inductive invariant: each handler is that of the submission in view or was left
\* early, and the list on the page is the truth about the entries of the former.
THEOREM UploadInvariance == SubmissionSpec => []UploadInv
BY UploadInit, UploadStep, PTL DEF SubmissionSpec

\* The types of the upload page's state.
THEOREM SubmissionTypeCorrect == SubmissionSpec => []SubmissionTypeOK
<1>1. UploadInv => SubmissionTypeOK
  BY DEF UploadInv
<1> QED BY <1>1, UploadInvariance, PTL

\* For any number of handlers that set the same list, a success on it was queued.
THEOREM ShownWasQueued == SubmissionSpec => []ShownIsQueued
<1>1. UploadInv => ShownIsQueued
  BY DEF UploadInv
<1> QED BY <1>1, UploadInvariance, PTL

\* A page that shows success has submitted every entry of the submission in view,
\* for any number of handlers of earlier ones that set the same list.
THEOREM SuccessesAreComplete == SubmissionSpec => []SuccessIsComplete
<1>1. ASSUME UploadInv, ShowsSuccess, NEW n \in Submits, InView(n), NEW k \in entries[n]
      PROVE  IsSubmitted(n, k)
  <2>1. /\ k \in DOMAIN list[source]
        /\ list[source][k] = "Success" => IsSubmitted(n, k)
    BY <1>1 DEF UploadInv, InViewInv
  <2>2. list[source][k] \in Shown
    BY <2>1 DEF Shown
  <2> QED BY <1>1, <2>1, <2>2 DEF ShowsSuccess
<1>2. UploadInv => SuccessIsComplete
  BY <1>1 DEF SuccessIsComplete
<1> QED BY <1>2, UploadInvariance, PTL

\* What the page says was submitted is on a queue, for any number of entries.
THEOREM ShownTrue == SubmissionSpec => []ShownIsTrue
BY ShownWasQueued, SuccessesAreComplete, PTL DEF ShownIsTrue

\* A page that is done with the submission in view shows a failure if there was one,
\* whatever the handlers of earlier submissions set.
THEOREM NoFailureIsForgotten == SubmissionSpec => []FailuresAreShown
<1>1. ASSUME UploadInv, NEW n \in Submits, InView(n), loop[n] = "over",
             NEW k \in entries[n], ~IsSubmitted(n, k)
      PROVE  ShowsFailure /\ ~ShowsSuccess
  <2>1. rest[n] = {} /\ status # "Ready"
    BY <1>1 DEF UploadInv, HandlerInv, FormInv, InView, IsNewest
  <2>2. k \in DOMAIN list[source] /\ list[source][k] = "Failed"
    BY <1>1, <2>1 DEF UploadInv, InViewInv
  <2>3. "Failed" \in Shown
    BY <2>2 DEF Shown
  <2> QED BY <2>1, <2>3 DEF ShowsFailure, ShowsSuccess
<1>2. UploadInv => FailuresAreShown
  BY <1>1 DEF FailuresAreShown
<1> QED BY <1>2, UploadInvariance, PTL

----------------------------------------------------------------------------
(* The sum of the services.                                                 *)

\* A behaviour of the sum shows each service one of its own behaviours: the service
\* that was chosen moves, and the others stand still.
LEMMA SumOfServices ==
    /\ ServicesInit => /\ MediaInit /\ SnapshotInit /\ SubmissionInit
                       /\ CapacityInit /\ Init
    /\ [ServicesNext]_servicesVars =>
           /\ [MediaNext]_mediaVars /\ [SnapshotNext]_snapshotVars
           /\ [SubmissionNext]_submissionVars /\ [CapacityNext]_capacityVars
           /\ [Next]_vars
<1>1. ServicesInit => /\ MediaInit /\ SnapshotInit /\ SubmissionInit
                      /\ CapacityInit /\ Init
  BY DEF ServicesInit
<1>2. ASSUME ServicesNext
      PROVE  /\ [MediaNext]_mediaVars /\ [SnapshotNext]_snapshotVars
             /\ [SubmissionNext]_submissionVars /\ [CapacityNext]_capacityVars
             /\ [Next]_vars
  BY <1>2 DEF ServicesNext
<1>3. ASSUME UNCHANGED servicesVars
      PROVE  /\ UNCHANGED mediaVars /\ UNCHANGED snapshotVars
             /\ UNCHANGED submissionVars /\ UNCHANGED capacityVars
             /\ UNCHANGED vars
  BY <1>3 DEF servicesVars
<1>4. QED BY <1>1, <1>2, <1>3

\* What is proved of the services one by one holds of their sum, which is what TLC
\* checks.
THEOREM ServicesTypeCorrect == ServicesSpec => []ServicesTypeOK
<1>1. ServicesSpec => /\ MediaSpec /\ SnapshotSpec /\ SubmissionSpec
                      /\ CapacitySpec /\ Spec
  BY SumOfServices, PTL
     DEF ServicesSpec, MediaSpec, SnapshotSpec, SubmissionSpec, CapacitySpec, Spec
<1>2. QED
  BY <1>1, DownloadTypeCorrect, SnapshotTypeCorrect, SubmissionTypeCorrect,
     CapacityTypeCorrect, TypeCorrect, PTL DEF ServicesTypeOK

=============================================================================
