------------------------------- MODULE Export -------------------------------
(***************************************************************************)
(* Exporting a transcript to Google Drive: the export page of the client,   *)
(* the API's /export/export handler and the media export lambda all write   *)
(* or read one field, exportStatuses, of one DynamoDB item, and every write *)
(* replaces the whole item. One action is one stretch of code between two   *)
(* awaits.                                                                  *)
(***************************************************************************)
EXTENDS Integers

CONSTANTS
    Pages,    \* open export pages (tabs) for the transcript; each exports once
    Docs,     \* the document export types ('text', 'srt', ...)
    Media,    \* the export type 'source-media'
    Choices,  \* the selections of export types a user may make
    MaxRuns,  \* how often Lambda runs one asynchronous invocation
    Faults    \* the kinds of faults the environment may produce

FaultKinds ==
    { "work",    \* an S3, Google or DynamoDB call for the page or a doc fails
      "api",     \* the API handler throws or is stopped
      "gateway", \* the page gets no answer although the handler goes on
      "invoke",  \* the invocation of the media lambda is reported as failed
      "media",   \* the media lambda throws, is stopped or is run again
      "repeat",  \* the transcript's success message is handled again
      "stale" }  \* an eventually consistent read misses the last write

ASSUME ConstantsAssumption ==
    /\ Media \notin Docs
    /\ Choices \subseteq (SUBSET (Docs \cup {Media})) \ {{}}
    /\ MaxRuns \in Nat \ {0}
    /\ Faults \subseteq FaultKinds

VARIABLES
    statuses, \* exportStatuses of the item
    previous, \* what it was before the last write
    drive,    \* files on Google Drive, with the page whose request made them
    copies,   \* [Pages -> how often the source media was uploaded]
    page,     \* [Pages -> state of the export form]
    request,  \* [Pages -> the export types asked for]
    shown,    \* [Pages -> the statuses the form shows]
    api,      \* [Pages -> the await the API handler is at]
    doing,    \* [Pages -> the handler's local exportStatuses]
    media,    \* [Pages -> the await the media lambda is at]
    seen,     \* [Pages -> exportStatuses of the item the lambda read]
    result,   \* [Pages -> what its export came to]
    runs      \* [Pages -> how often Lambda has run the invocation]

itemVars == <<statuses, previous>>
driveVars == <<drive, copies>>
pageVars == <<page, request, shown>>
apiVars == <<api, doing>>
mediaVars == <<media, seen, result, runs>>
vars == <<itemVars, driveVars, pageVars, apiVars, mediaVars>>

Exports == Docs \cup {Media}
Status == [state : {"in-progress", "success", "failure"}, by : Pages]

\* exportStatuses: an entry for each export type of the request that wrote it.
Statuses == UNION {[S -> Status] : S \in SUBSET Exports}
\* The item of a transcript nobody has exported has no exportStatuses.
NoStatuses == [t \in {} |-> "none"]

Files == [by : Pages, type : Exports]

Ended == {"success", "partial", "failed", "stuck"}
Handling == {"get", "announce", "combined", "docs", "invoke", "mediaFailed", "reply"}

Init ==
    /\ statuses = NoStatuses /\ previous = NoStatuses
    /\ drive = {} /\ copies = [p \in Pages |-> 0]
    /\ page = [p \in Pages |-> "ready"]
    /\ request = [p \in Pages |-> {}]
    /\ shown = [p \in Pages |-> NoStatuses]
    /\ api = [p \in Pages |-> "idle"]
    /\ doing = [p \in Pages |-> NoStatuses]
    /\ media = [p \in Pages |-> "none"]
    /\ seen = [p \in Pages |-> NoStatuses]
    /\ result = [p \in Pages |-> "none"]
    /\ runs = [p \in Pages |-> 0]

----------------------------------------------------------------------------
(* DynamoDB: a put replaces the item, a get need not see the last put.      *)

Write(s) == statuses' = s /\ previous' = statuses
Readable == {statuses} \cup (IF "stale" \in Faults THEN {previous} ELSE {})

\* The output handler writes the item anew, without exportStatuses.
RepeatOutput ==
    /\ "repeat" \in Faults
    /\ statuses # NoStatuses
    /\ Write(NoStatuses)
    /\ UNCHANGED <<driveVars, pageVars, apiVars, mediaVars>>

Set(p, state) == [state |-> state, by |-> p]
States(s) == {s[t].state : t \in DOMAIN s}

\* initializeExportStatuses
Initialised(p, S) == [t \in S |-> Set(p, "in-progress")]

\* updateStatuses: replaces the entry of t if there is one, and adds none.
Updated(s, t, new) == [u \in DOMAIN s |-> IF u = t THEN new ELSE s[u]]

----------------------------------------------------------------------------
(* The export page (ExportForm.tsx).                                        *)

\* exportHandler: token, folder, then POST /export/export.
Request(p) ==
    /\ page[p] = "ready"
    /\ \/ \E S \in Choices :
             /\ page' = [page EXCEPT ![p] = "exporting"]
             /\ request' = [request EXCEPT ![p] = S]
             /\ shown' = [shown EXCEPT ![p] = Initialised(p, S)]
             /\ api' = [api EXCEPT ![p] = "get"]
       \/ /\ "work" \in Faults
          /\ page' = [page EXCEPT ![p] = "failed"]
          /\ UNCHANGED <<request, shown, api>>
    /\ UNCHANGED <<itemVars, driveVars, doing, mediaVars>>

\* Mutant of Verdict: what is still in progress is not looked at.
VerdictTooEarly(s) == IF "failure" \in States(s) THEN "partial" ELSE "success"

\* What updateStatuses makes of the item's statuses. A body that is no list of
\* statuses ends the polling without a word.
Verdict(s) ==
    CASE s = NoStatuses -> "stuck"
      [] "in-progress" \in States(s) -> "polling"
      [] "failure" \in States(s) /\ "in-progress" \notin States(s) -> "partial"
      [] OTHER -> "success"

\* updateStatuses: GET /export/status, every two seconds while it must.
Poll(p) ==
    /\ page[p] \in {"answered", "polling"}
    /\ \E s \in Readable :
          /\ page' = [page EXCEPT ![p] = Verdict(s)]
          /\ shown' = [shown EXCEPT ![p] = IF s = NoStatuses THEN @ ELSE s]
    /\ UNCHANGED <<itemVars, driveVars, request, apiVars, mediaVars>>

\* An error ends the polling; the form hears only of one the first call throws.
PollFails(p) ==
    /\ "work" \in Faults
    /\ page[p] \in {"answered", "polling"}
    /\ \/ page' = [page EXCEPT ![p] = "stuck"]
       \/ page[p] = "answered" /\ page' = [page EXCEPT ![p] = "failed"]
    /\ UNCHANGED <<itemVars, driveVars, request, shown, apiVars, mediaVars>>

\* API Gateway answers after its timeout; the handler does not notice.
GatewayTimeout(p) ==
    /\ "gateway" \in Faults
    /\ page[p] = "exporting"
    /\ page' = [page EXCEPT ![p] = "failed"]
    /\ UNCHANGED <<itemVars, driveVars, request, shown, apiVars, mediaVars>>

----------------------------------------------------------------------------
(* The API's /export/export handler.                                        *)

GetItem(p) ==
    /\ api[p] = "get"
    /\ api' = [api EXCEPT ![p] = "announce"]
    /\ UNCHANGED <<itemVars, driveVars, pageVars, doing, mediaVars>>

Announce(p) ==
    /\ api[p] = "announce"
    /\ api' = [api EXCEPT ![p] = "combined"]
    /\ doing' = [doing EXCEPT ![p] = Initialised(p, request[p])]
    /\ Write(Initialised(p, request[p]))
    /\ UNCHANGED <<driveVars, pageVars, mediaVars>>

\* getCombinedOutput: without the transcript every document export fails.
CombinedOutput(p) ==
    /\ api[p] = "combined"
    /\ api' = [api EXCEPT ![p] = "docs"]
    /\ \/ UNCHANGED doing
       \/ /\ "work" \in Faults
          /\ doing' = [doing EXCEPT ![p] =
                          [t \in DOMAIN @ |-> IF t \in Docs THEN Set(p, "failure") ELSE @[t]]]
    /\ UNCHANGED <<itemVars, driveVars, pageVars, mediaVars>>

\* exportTranscriptToDoc, for all documents at once (Promise.all); it never
\* throws. A failed call may have made the file.
ExportDoc(p, d) ==
    /\ api[p] = "docs"
    /\ d \in DOMAIN doing[p] /\ doing[p][d].state = "in-progress"
    /\ \/ /\ doing' = [doing EXCEPT ![p][d] = Set(p, "success")]
          /\ drive' = drive \cup {[by |-> p, type |-> d]}
       \/ /\ "work" \in Faults
          /\ doing' = [doing EXCEPT ![p][d] = Set(p, "failure")]
          /\ drive' \in {drive, drive \cup {[by |-> p, type |-> d]}}
    /\ UNCHANGED <<itemVars, copies, pageVars, api, mediaVars>>

DocsSettled(p) ==
    \A d \in Docs \cap request[p] : doing[p][d].state # "in-progress"

\* Mutant of RecordDocs: the results are returned but not written.
RecordDocsNowhere(p) ==
    /\ api[p] = "docs" /\ DocsSettled(p)
    /\ api' = [api EXCEPT ![p] = IF Media \in request[p] THEN "invoke" ELSE "reply"]
    /\ UNCHANGED <<itemVars, driveVars, pageVars, doing, mediaVars>>

RecordDocs(p) ==
    /\ api[p] = "docs" /\ DocsSettled(p)
    /\ api' = [api EXCEPT ![p] = IF Media \in request[p] THEN "invoke" ELSE "reply"]
    /\ Write(doing[p])
    /\ UNCHANGED <<driveVars, pageVars, doing, mediaVars>>

\* Mutant of Invoke: an invocation that seems to have failed is repeated.
InvokeRetrying(p) ==
    /\ api[p] = "invoke" /\ media[p] \in {"none", "done"}
    /\ media' = [media EXCEPT ![p] = "queued"]
    /\ \/ api' = [api EXCEPT ![p] = "reply"]
       \/ "invoke" \in Faults /\ UNCHANGED api
    /\ UNCHANGED <<itemVars, driveVars, pageVars, doing, seen, result, runs>>

\* invokeLambda, asynchronously. An invocation whose answer is an error may
\* have been accepted.
Invoke(p) ==
    /\ api[p] = "invoke"
    /\ \/ /\ api' = [api EXCEPT ![p] = "reply"]
          /\ media' = [media EXCEPT ![p] = "queued"]
       \/ /\ "invoke" \in Faults
          /\ api' = [api EXCEPT ![p] = "mediaFailed"]
          /\ media' \in {media, [media EXCEPT ![p] = "queued"]}
    /\ UNCHANGED <<itemVars, driveVars, pageVars, doing, seen, result, runs>>

\* The catch block of the invocation, given the handler's statuses.
RecordMediaFailureIn(p, s) ==
    /\ api[p] = "mediaFailed"
    /\ api' = [api EXCEPT ![p] = "reply"]
    /\ doing' = [doing EXCEPT ![p] = Updated(s, Media, Set(p, "failure"))]
    /\ Write(Updated(s, Media, Set(p, "failure")))
    /\ UNCHANGED <<driveVars, pageVars, mediaVars>>

\* Mutant of RecordMediaFailure: exportStatuses was not reassigned.
RecordMediaFailureAfresh(p) == RecordMediaFailureIn(p, Initialised(p, request[p]))

RecordMediaFailure(p) == RecordMediaFailureIn(p, doing[p])

\* The handler's variables go with it.
HandlerEnds(p) ==
    /\ api' = [api EXCEPT ![p] = "done"]
    /\ doing' = [doing EXCEPT ![p] = NoStatuses]

\* The page shows the statuses of the answer and starts to poll.
Reply(p) ==
    /\ api[p] = "reply"
    /\ HandlerEnds(p)
    /\ IF page[p] = "exporting"
         THEN /\ page' = [page EXCEPT ![p] = "answered"]
              /\ shown' = [shown EXCEPT ![p] = doing[p]]
         ELSE UNCHANGED <<page, shown>>
    /\ UNCHANGED <<itemVars, driveVars, request, mediaVars>>

ApiFails(p) ==
    /\ "api" \in Faults
    /\ api[p] \in Handling
    /\ HandlerEnds(p)
    /\ page' = [page EXCEPT ![p] = IF @ = "exporting" THEN "failed" ELSE @]
    /\ UNCHANGED <<itemVars, driveVars, request, shown, mediaVars>>

----------------------------------------------------------------------------
(* The media export lambda.                                                 *)

\* A run of the lambda ends, with its variables.
RunEnds(p, next) ==
    /\ media' = [media EXCEPT ![p] = next]
    /\ seen' = [seen EXCEPT ![p] = NoStatuses]
    /\ result' = [result EXCEPT ![p] = "none"]

\* Mutant of Rerun: Lambda never gives up.
RerunForEver(p) == RunEnds(p, "queued")

\* An invocation that threw runs again, a bounded number of times.
Rerun(p) == RunEnds(p, IF runs[p] < MaxRuns THEN "queued" ELSE "done")

MediaStart(p) ==
    /\ media[p] = "queued"
    /\ media' = [media EXCEPT ![p] = "exporting"]
    /\ runs' = [runs EXCEPT ![p] = @ + 1]
    /\ seen' \in {[seen EXCEPT ![p] = s] : s \in Readable}
    /\ UNCHANGED <<itemVars, driveVars, pageVars, apiVars, result>>

\* Mutant of MediaExport: an upload that did not end well counts as a success.
MediaExportUnchecked(p) ==
    /\ media[p] = "exporting"
    /\ media' = [media EXCEPT ![p] = "recording"]
    /\ result' = [result EXCEPT ![p] = "success"]
    /\ UNCHANGED <<itemVars, driveVars, pageVars, apiVars, seen, runs>>

\* exportMediaToDrive: upload the file, or refuse one that is too large.
MediaExport(p) ==
    /\ media[p] = "exporting"
    /\ media' = [media EXCEPT ![p] = "recording"]
    /\ \/ /\ result' = [result EXCEPT ![p] = "success"]
          /\ drive' = drive \cup {[by |-> p, type |-> Media]}
          /\ copies' = [copies EXCEPT ![p] = @ + 1]
       \/ /\ result' = [result EXCEPT ![p] = "failure"]
          /\ UNCHANGED driveVars
    /\ UNCHANGED <<itemVars, pageVars, apiVars, seen, runs>>

\* The status is recorded in the item as it was when the lambda started; without
\* exportStatuses the lambda throws, though the file has been uploaded. Lambda may
\* run an invocation again that ended well.
MediaRecord(p) ==
    /\ media[p] = "recording"
    /\ IF seen[p] = NoStatuses
         THEN Rerun(p) /\ UNCHANGED itemVars
         ELSE /\ Write(Updated(seen[p], Media, Set(p, result[p])))
              /\ RunEnds(p, "done") \/ ("media" \in Faults /\ Rerun(p))
    /\ UNCHANGED <<driveVars, pageVars, apiVars, runs>>

MediaThrows(p) ==
    /\ "media" \in Faults
    /\ media[p] \in {"exporting", "recording"}
    /\ Rerun(p)
    /\ UNCHANGED <<itemVars, driveVars, pageVars, apiVars, runs>>

----------------------------------------------------------------------------
ApiStep(p) ==
    \/ GetItem(p) \/ Announce(p) \/ CombinedOutput(p) \/ RecordDocs(p)
    \/ Invoke(p) \/ RecordMediaFailure(p) \/ Reply(p)
    \/ \E d \in Docs : ExportDoc(p, d)

MediaStep(p) == MediaStart(p) \/ MediaExport(p) \/ MediaRecord(p)

Next ==
    \/ RepeatOutput
    \/ \E p \in Pages :
          \/ Request(p) \/ Poll(p) \/ PollFails(p) \/ GatewayTimeout(p)
          \/ ApiStep(p) \/ ApiFails(p)
          \/ MediaStep(p) \/ MediaThrows(p)

Spec == Init /\ [][Next]_vars

\* The handler, the lambda and the form's timer go on; Lambda starts what it
\* has accepted.
FairSpec ==
    /\ Spec
    /\ \A p \in Pages :
          /\ WF_vars(ApiStep(p)) /\ WF_vars(Poll(p))
          /\ WF_vars(MediaStep(p) \/ MediaThrows(p))

----------------------------------------------------------------------------
(* Properties.                                                              *)

\* Every variable has its type; Lambda runs an invocation at most MaxRuns times.
TypeOK ==
    /\ statuses \in Statuses /\ previous \in Statuses
    /\ drive \subseteq Files
    /\ copies \in [Pages -> 0..MaxRuns]
    /\ page \in [Pages -> Ended \cup {"ready", "exporting", "answered", "polling"}]
    /\ request \in [Pages -> SUBSET Exports]
    /\ shown \in [Pages -> Statuses]
    /\ api \in [Pages -> Handling \cup {"idle", "done"}]
    /\ doing \in [Pages -> Statuses]
    /\ media \in [Pages -> {"none", "queued", "exporting", "recording", "done"}]
    /\ seen \in [Pages -> Statuses]
    /\ result \in [Pages -> {"none", "success", "failure"}]
    /\ runs \in [Pages -> 0..MaxRuns]

Real(s) ==
    \A t \in DOMAIN s :
        s[t].state = "success" => [by |-> s[t].by, type |-> t] \in drive

\* A success that the item records or a page shows has its file on the Drive,
\* however the writes of several handlers and lambdas overtake each other.
SuccessIsOnDrive == Real(statuses) /\ \A p \in Pages : Real(shown[p])

\* A page that says all exports are complete (ExportForm.tsx:76) has got all the
\* files it asked for.
SuccessMeansDone ==
    \A p \in Pages :
        page[p] = "success" =>
            \A t \in request[p] : [by |-> p, type |-> t] \in drive

\* With one page, no stale read and no success message handled again, the result of
\* a document stays in the item as it was recorded: the media lambda, which writes
\* back the whole item it read, was started late enough to have read the results,
\* and the handler's last write repeats them.
DocResultsAreKept ==
    [][\A d \in Docs \cap DOMAIN statuses :
          statuses[d].state # "in-progress" =>
              d \in DOMAIN statuses' /\ statuses'[d] = statuses[d]]_vars

\* While no lambda fails and no success message is handled again, the source media
\* is uploaded once: the lambda finds the exportStatuses it needs to end well.
MediaIsCopiedOnce == \A p \in Pages : copies[p] <= 1

\* An export comes to an end on the page: it does not poll for ever.
ExportsEnd == \A p \in Pages : page[p] = "exporting" ~> page[p] \in Ended

=============================================================================
