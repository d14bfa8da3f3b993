----------------------------- MODULE Submission -----------------------------
(***************************************************************************)
(* The upload page (UploadForm.tsx, SubmitResult.tsx) and the endpoints it *)
(* calls: POST /signed-url, /transcribe-file and /transcribe-url.          *)
(* handleSubmit works through the entries of the form one after the other  *)
(* and goes on after a failure. The page offers a new form as soon as one  *)
(* entry has failed, so the handler of an earlier submission may still run *)
(* beside the next one and set the state they share.                       *)
(***************************************************************************)
EXTENDS Naturals

CONSTANTS
    Files,       \* the entries of the form for files (index and name)
    Urls,        \* the URLs that may be entered
    MaxSubmits,  \* a bound: how often the form is submitted
    SubmitFaults \* network, api, storage, queue, impatient

ASSUME SubmissionAssumption ==
    /\ Files \cap Urls = {}
    /\ MaxSubmits \in Nat \ {0}
    /\ SubmitFaults \subseteq {"network", "api", "storage", "queue", "impatient"}

VARIABLES
    status,   \* the RequestStatus of the form
    source,   \* mediaSource, the tab of the form
    list,     \* [source -> the entries and the status each is shown with]
    loop,     \* [Submits -> the await its handleSubmit is at]
    rest,     \* [Submits -> the entries it has not finished]
    entries,  \* [Submits -> the entries it was given]
    objects,  \* the uploads in S3
    queued,   \* the entries whose job was put on a queue
    back,     \* the submissions whose page was left for another form
    early     \* those of them that were left while their handler was running

submissionVars == <<status, source, list, loop, rest, entries, objects, queued, back, early>>

Submits == 1..MaxSubmits
Sources == {"file", "url"}
EntriesOf(s) == IF s = "file" THEN Files ELSE Urls
Empty == [k \in {} |-> "none"]

\* A list is a function from some of the entries to their statuses.
Lists == UNION {[S -> {"InProgress", "Success", "Failed"}] : S \in SUBSET (Files \cup Urls)}

SubmissionInit ==
    /\ status = "Ready" /\ source = "file"
    /\ list = [s \in Sources |-> Empty]
    /\ loop = [n \in Submits |-> "none"]
    /\ rest = [n \in Submits |-> {}] /\ entries = [n \in Submits |-> {}]
    /\ objects = {} /\ queued = {}
    /\ back = {} /\ early = {}

Waiting == {"sign", "put", "transcribe", "post"}
Used == {n \in Submits : loop[n] # "none"}
\* The submission that was made last, once there is one.
IsNewest(n) == n \in Used /\ \A m \in Used : m <= n

----------------------------------------------------------------------------
(* What SubmitResult shows.                                                 *)

Shown == {list[source][k] : k \in DOMAIN list[source]}

\* Mutant of ShowsFailure: only the status of the form is looked at, which a later
\* setStatus(Success) overwrites.
ShowsFailureByStatus == status = "Failed"

ShowsFailure == status # "Ready" /\ (status = "Failed" \/ "Failed" \in Shown)
\* Mutant of ShowsSuccess: the same.
ShowsSuccessByStatus == status = "Success"

ShowsSuccess == status # "Ready" /\ Shown = {"Success"}

----------------------------------------------------------------------------
(* The form.                                                                *)

\* handleSubmit up to its first await.
Submit(n) ==
    /\ status = "Ready"
    /\ n \notin Used /\ \A m \in Submits : m < n => m \in Used
    /\ \E s \in Sources : \E S \in SUBSET EntriesOf(s) :
          /\ S # {}
          /\ source' = s
          /\ list' = [list EXCEPT ![s] = [k \in S |-> "InProgress"]]
          /\ rest' = [rest EXCEPT ![n] = S] /\ entries' = [entries EXCEPT ![n] = S]
          /\ loop' = [loop EXCEPT ![n] = IF s = "file" THEN "sign" ELSE "post"]
    /\ status' = "InProgress"
    /\ UNCHANGED <<objects, queued, back, early>>

\* The link to another form. The list of URLs is not cleared.
Reset ==
    /\ ShowsFailure \/ ShowsSuccess
    /\ LET busy == {n \in Submits : loop[n] \in Waiting}
       IN (busy # {} => "impatient" \in SubmitFaults) /\ early' = early \cup busy
    /\ back' = Used
    /\ status' = "Ready"
    /\ list' = [list EXCEPT !["file"] = Empty]
    /\ UNCHANGED <<source, loop, rest, entries, objects, queued>>

----------------------------------------------------------------------------
(* The handler of the n-th submission.                                      *)

\* The entry whose turn it is: the loop goes through the entries in a fixed order.
InTurn(n, k) == k \in rest[n] /\ k = CHOOSE e \in rest[n] : TRUE

SourceOf(n) == IF entries[n] \subseteq Files THEN "file" ELSE "url"
\* Mutant of EntryAwait: every entry is a file.
EntryAwaitOfFile(n) == "sign"

EntryAwait(n) == IF SourceOf(n) = "file" THEN "sign" ELSE "post"

\* Mutant of With: the list is set to what the handler saw when it began.
WithoutIt(l, k, s) == l

\* updateFileStatus, setMediaUrls: sets the entry in the list of today.
With(l, k, s) == [e \in DOMAIN l \cup {k} |-> IF e = k THEN s ELSE l[e]]

\* The entry is done, well or not. After the last one setStatus(Success) follows,
\* whatever became of the others.
EntryDone(n, k, s) ==
    /\ list' = [list EXCEPT ![SourceOf(n)] = With(@, k, s)]
    /\ rest' = [rest EXCEPT ![n] = @ \ {k}]
    /\ IF rest[n] = {k}
         THEN loop' = [loop EXCEPT ![n] = "over"] /\ status' = "Success"
         ELSE /\ loop' = [loop EXCEPT ![n] = EntryAwait(n)]
              /\ status' = IF s = "Failed" THEN "Failed" ELSE status

\* authFetch, or parsing the answer, rejects: so does handleSubmit, with nothing
\* to catch it.
Throws(n) ==
    /\ "network" \in SubmitFaults
    /\ loop' = [loop EXCEPT ![n] = "thrown"]
    /\ UNCHANGED <<status, list, rest>>

GoesOnTo(n, p) == loop' = [loop EXCEPT ![n] = p] /\ UNCHANGED <<status, list, rest>>

\* POST /signed-url: a fresh key, and a URL for the upload.
SignUpload(n, k) ==
    /\ loop[n] = "sign" /\ InTurn(n, k)
    /\ \/ GoesOnTo(n, "put")
       \/ "api" \in SubmitFaults /\ EntryDone(n, k, "Failed")
       \/ Throws(n)
    /\ UNCHANGED <<source, entries, objects, queued, back, early>>

\* uploadToS3 catches everything; the URL is valid for sixty seconds.
Put(n, k) ==
    /\ loop[n] = "put" /\ InTurn(n, k)
    /\ \/ GoesOnTo(n, "transcribe") /\ objects' = objects \cup {<<n, k>>}
       \/ /\ "storage" \in SubmitFaults
          /\ EntryDone(n, k, "Failed")
          /\ objects' \in {objects, objects \cup {<<n, k>>}}
    /\ UNCHANGED <<source, entries, queued, back, early>>

\* What /transcribe-file checks before it sends: the object is there, and is the
\* user's own. /transcribe-url checks nothing of the kind.
MayQueue(n, k) == SourceOf(n) = "file" => <<n, k>> \in objects

\* Mutant of Request: the page does not look at the status of the answer.
RequestUnchecked(n, k) ==
    /\ InTurn(n, k)
    /\ EntryDone(n, k, "Success")
    /\ queued' \in {queued, queued \cup {<<n, k>>}}
    /\ UNCHANGED <<source, entries, objects, back, early>>

\* A send that SQS seems to have refused may have been accepted, and an answer that
\* does not arrive leaves the job where it is.
Request(n, k) ==
    /\ InTurn(n, k)
    /\ LET sent == queued \cup {<<n, k>>}
       IN \/ MayQueue(n, k) /\ EntryDone(n, k, "Success") /\ queued' = sent
          \/ ~MayQueue(n, k) /\ EntryDone(n, k, "Failed") /\ UNCHANGED queued
          \/ "api" \in SubmitFaults /\ EntryDone(n, k, "Failed") /\ UNCHANGED queued
          \/ /\ "queue" \in SubmitFaults /\ MayQueue(n, k)
             /\ EntryDone(n, k, "Failed") /\ queued' \in {queued, sent}
          \/ Throws(n) /\ queued' \in {queued} \cup (IF MayQueue(n, k) THEN {sent} ELSE {})
    /\ UNCHANGED <<source, entries, objects, back, early>>

TranscribeFile(n, k) == loop[n] = "transcribe" /\ Request(n, k)
TranscribeUrl(n, k) == loop[n] = "post" /\ Request(n, k)

HandlerStep(n) ==
    \E k \in rest[n] : SignUpload(n, k) \/ Put(n, k) \/ TranscribeFile(n, k) \/ TranscribeUrl(n, k)

SubmissionNext == Reset \/ \E n \in Submits : Submit(n) \/ HandlerStep(n)

SubmissionSpec == SubmissionInit /\ [][SubmissionNext]_submissionVars

\* Requests are answered, or fail.
SubmissionFairness ==
    \A n \in Submits : WF_submissionVars(HandlerStep(n))

SubmissionFairSpec == SubmissionSpec /\ SubmissionFairness

----------------------------------------------------------------------------
(* Properties.                                                              *)

\* Every variable has its type.
SubmissionTypeOK ==
    /\ status \in {"Ready", "InProgress", "Failed", "Success"}
    /\ source \in Sources
    /\ list \in [Sources -> Lists]
    /\ loop \in [Submits -> Waiting \cup {"none", "thrown", "over"}]
    /\ rest \in [Submits -> SUBSET (Files \cup Urls)]
    /\ entries \in [Submits -> (SUBSET Files) \cup (SUBSET Urls)]
    /\ objects \subseteq Submits \X Files
    /\ queued \subseteq Submits \X (Files \cup Urls)
    /\ early \subseteq back /\ back \subseteq Submits

\* An entry is shown as submitted only if a job for it is on a queue, even when
\* handlers of several submissions set the same list.
ShownIsQueued ==
    \A s \in Sources : \A k \in DOMAIN list[s] :
        list[s][k] = "Success" => \E n \in Submits : <<n, k>> \in queued

\* The submission the page is about: the last one, unless its page was left.
InView(n) == IsNewest(n) /\ n \notin back

\* A job for the entry is on a queue, from this submission or from one that was left
\* early, whose handler sets entries of the same name in the list of today.
IsSubmitted(n, k) == \E m \in early \cup {n} : <<m, k>> \in queued

\* A page that says that everything was submitted has submitted every entry of the
\* submission in view, also while handlers of earlier ones set entries of its list.
SuccessIsComplete ==
    ShowsSuccess => \A n \in Submits : InView(n) => \A k \in entries[n] : IsSubmitted(n, k)

\* A failure is not forgotten: a submission that ends with an entry not submitted ends
\* with the failure on the page, though the handler's last word is Success
\* (UploadForm.tsx:310, 348) and handlers of earlier ones go on beside it.
FailuresAreShown ==
    \A n \in Submits :
        /\ InView(n) /\ loop[n] = "over"
        /\ \E k \in entries[n] : ~IsSubmitted(n, k)
        => ShowsFailure /\ ~ShowsSuccess

\* A submission gets a verdict, unless its handler was thrown out of its loop: then
\* the page shows it as in progress for ever.
SubmissionsAnswered ==
    status = "InProgress" ~> ShowsFailure \/ ShowsSuccess \/ \E n \in Submits : loop[n] = "thrown"

\* What the page says was submitted is on a queue: each entry it marks, and all of
\* those of the submission in view when it says so. While handlers of several
\* submissions set one list, an entry may be marked for a job of one left early.
ShownIsTrue == ShownIsQueued /\ SuccessIsComplete

=============================================================================
