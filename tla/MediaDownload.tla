--------------------------- MODULE MediaDownload ---------------------------
(***************************************************************************)
(* The media download service: its queue, the EventBridge pipe that starts *)
(* an ECS task for each message, and the task itself (media-download/src). *)
(* A task downloads through its proxies one after the other, then with     *)
(* cookies, then directly; records how YouTube took it; and either asks    *)
(* for a transcription, or tells its requester of the success or failure.  *)
(* The pipe starts a task and forgets it: a task that dies is not retried. *)
(***************************************************************************)
EXTENDS Naturals, FiniteSets

CONSTANTS
    Downloads,   \* the messages of the media download queue
    External,    \* those of another service (client EXTERNAL)
    Youtube,     \* those with a YouTube URL
    Malformed,   \* those whose body is no UrlJob
    Proxies,     \* the number of proxies
    Cookies,     \* whether cookies are configured
    MaxStarts,   \* MAX_RECEIVE_COUNT of the queue
    MaxArrivals, \* a bound: how many of the messages arrive in one behaviour
    DownloadFaults

DownloadFaultKinds ==
    {"pipe", "duplicate", "setup", "signal", "metric", "event", "upload", "send", "crash"}

ASSUME DownloadAssumption ==
    /\ External \subseteq Downloads /\ Youtube \subseteq Downloads /\ Malformed \subseteq Downloads
    /\ Proxies \in Nat /\ Cookies \in BOOLEAN
    /\ MaxStarts \in Nat \ {0} /\ MaxArrivals \in Nat
    /\ DownloadFaults \subseteq DownloadFaultKinds

VARIABLES
    message,  \* [Downloads -> where the message is]
    starts,   \* [Downloads -> how often the pipe has received the message]
    task,     \* [Tasks -> the await the task is at]
    route,    \* [Tasks -> the route of the next attempt]
    failures, \* [Tasks -> the attempts that failed]
    result,   \* [Tasks -> the result of the last attempt]
    stored,   \* the jobs whose media is in S3
    event,    \* the youtube event in the events table
    answers,  \* what the tasks told their requesters
    muted     \* the tasks whose answer may not have been sent

taskVars == <<task, route, failures, result>>
mediaVars == <<message, starts, taskVars, stored, event, answers, muted>>

\* The task that the n-th receive of a message starts.
Tasks == Downloads \X (1..MaxStarts)

CookieRoute == Proxies + 1
DirectRoute == Proxies + 2
Routes == 1..DirectRoute

\* MediaDownloadFailureReason
Reasons == {"INVALID_URL", "BOT_BLOCKED", "FAILURE"}

Results == Reasons \cup {"SUCCESS", "HOLLOW"}

Running == {"started", "download", "metric", "event", "tell", "upload", "forward"}

MediaInit ==
    /\ message = [j \in Downloads |-> "none"]
    /\ starts = [j \in Downloads |-> 0]
    /\ task = [t \in Tasks |-> "none"]
    /\ route = [t \in Tasks |-> 1]
    /\ failures = [t \in Tasks |-> {}]
    /\ result = [t \in Tasks |-> "none"]
    /\ stored = {}
    /\ event = "none"
    /\ answers = {}
    /\ muted = {}

----------------------------------------------------------------------------
(* The queue and the pipe.                                                  *)

\* The API, or another service through SNS, puts a message on the queue.
Arrive(j) ==
    /\ message[j] = "none"
    /\ Cardinality({k \in Downloads : message[k] # "none"}) < MaxArrivals
    /\ message' = [message EXCEPT ![j] = "visible"]
    /\ UNCHANGED <<starts, taskVars, stored, event, answers, muted>>

\* The pipe receives a message, starts an execution for it and deletes it. A
\* message that stays comes back, at most MaxStarts times in all.
PipeTakes(j) ==
    /\ message[j] = "visible"
    /\ starts' = [starts EXCEPT ![j] = @ + 1]
    /\ LET return == IF starts[j] + 1 < MaxStarts THEN "visible" ELSE "dead"
           begun == [task EXCEPT ![<<j, starts[j] + 1>>] = "started"]
       IN \/ task' = begun /\ message' = [message EXCEPT ![j] = "gone"]
          \/ /\ "duplicate" \in DownloadFaults
             /\ task' = begun /\ message' = [message EXCEPT ![j] = return]
          \/ /\ "pipe" \in DownloadFaults
             /\ task' = task /\ message' = [message EXCEPT ![j] = return]
    /\ UNCHANGED <<route, failures, result, stored, event, answers, muted>>

----------------------------------------------------------------------------
(* The task.                                                                *)

At(t, p) == task[t] = p
Reaches(t, p) == task' = [task EXCEPT ![t] = p]
IsYoutube(t) == t[1] \in Youtube
IsExternal(t) == t[1] \in External

\* The route after r: proxies, cookies if there are any to use, direct.
After(t, r) ==
    IF r = Proxies /\ ~(IsYoutube(t) /\ Cookies) THEN DirectRoute ELSE r + 1

\* One tunnel that does not start ends the task.
StartProxyTunnels(t) ==
    \/ Reaches(t, "download")
    \/ "setup" \in DownloadFaults /\ Reaches(t, "died")

\* UrlJob.safeParse, getConfig, startProxyTunnels.
Begin(t) ==
    /\ At(t, "started")
    /\ IF t[1] \in Malformed THEN Reaches(t, "done") ELSE StartProxyTunnels(t)
    /\ route' = [route EXCEPT ![t] = After(t, 0)]
    /\ UNCHANGED <<message, starts, failures, result, stored, event, answers, muted>>

\* Hollow is a success without a file: runSpawnCommand reports no code for a
\* yt-dlp that a signal ended, which downloadMedia takes for the code zero.
Signalled == IF "signal" \in DownloadFaults THEN {"HOLLOW"} ELSE {}

\* downloadMedia: only YouTube can be seen to block.
Outcomes(t) ==
    {"SUCCESS", "INVALID_URL", "FAILURE"}
        \cup (IF IsYoutube(t) THEN {"BOT_BLOCKED"} ELSE {})
        \cup Signalled

\* Mutant of GoesOn: a block of one proxy ends the attempts.
GoesOnWithCookiesOnly(r, o) == r = CookieRoute /\ o \in Reasons

\* Mutant of GoesOn: a block of the last route has it try one more.
GoesOnAfterLast(r, o) == o = "BOT_BLOCKED" \/ (r = CookieRoute /\ o \in Reasons)

\* Whether downloadMediaWithRetry tries another route: after a block of a proxy,
\* and after any failure with cookies.
GoesOn(r, o) ==
    \/ r \in 1..Proxies /\ o = "BOT_BLOCKED"
    \/ r = CookieRoute /\ o \in Reasons

Attempt(t) ==
    /\ At(t, "download")
    /\ \E o \in Outcomes(t) :
          /\ failures' = [failures EXCEPT ![t] =
                IF o \in Reasons THEN @ \cup {[route |-> route[t], reason |-> o]} ELSE @]
          /\ result' = [result EXCEPT ![t] = o]
          /\ IF GoesOn(route[t], o)
               THEN route' = [route EXCEPT ![t] = After(t, @)] /\ UNCHANGED task
               ELSE Reaches(t, "metric") /\ UNCHANGED route
    /\ UNCHANGED <<message, starts, stored, event, answers, muted>>

PutMetric(t) ==
    /\ At(t, "metric")
    /\ \/ Reaches(t, "event")
       \/ "metric" \in DownloadFaults /\ Reaches(t, "died")
    /\ UNCHANGED <<message, starts, route, failures, result, stored, event, answers, muted>>

\* The status that updateYoutubeEvent stores: only a success or a block counts.
EventStatus(t) == IF result[t] = "HOLLOW" THEN "SUCCESS" ELSE result[t]

\* Mutant of WritesEvent: any site counts.
WritesEventOfAnySite(t) == EventStatus(t) \in {"SUCCESS", "BOT_BLOCKED"}

WritesEvent(t) == IsYoutube(t) /\ EventStatus(t) \in {"SUCCESS", "BOT_BLOCKED"}

\* A write that fails ends the task before anybody was told; it may have
\* reached the table.
UpdateYoutubeEvent(t) ==
    /\ At(t, "event")
    /\ LET next == IF result[t] \in Reasons THEN "tell" ELSE "upload"
           stale == IF WritesEvent(t) THEN EventStatus(t) ELSE event
       IN \/ Reaches(t, next) /\ event' = stale
          \/ /\ "event" \in DownloadFaults /\ WritesEvent(t)
             /\ Reaches(t, "died") /\ event' \in {event, stale}
    /\ UNCHANGED <<message, starts, route, failures, result, stored, answers, muted>>

\* Mutant of Answer: no failure is thrown.
AnswerUnchecked(t, says) ==
    LET told == answers \cup {[from |-> t, says |-> says]}
    IN /\ Reaches(t, "done")
       /\ \/ answers' = told /\ UNCHANGED muted
          \/ /\ "send" \in DownloadFaults
             /\ answers' \in {answers, told}
             /\ muted' = IF IsExternal(t) THEN muted \cup {t} ELSE muted

\* sendMessage: one that failed may have arrived. For a job of this service the
\* failure is thrown, for another service it is ignored.
Answer(t, says) ==
    LET told == answers \cup {[from |-> t, says |-> says]}
    IN \/ Reaches(t, "done") /\ answers' = told /\ UNCHANGED muted
       \/ /\ "send" \in DownloadFaults
          /\ answers' \in {answers, told}
          /\ IF IsExternal(t)
               THEN Reaches(t, "done") /\ muted' = muted \cup {t}
               ELSE Reaches(t, "died") /\ UNCHANGED muted

\* Mutant of TellFailure: the task goes on to tell of a success.
TellFailureAndGoOn(t) ==
    /\ At(t, "tell")
    /\ answers' = answers \cup {[from |-> t, says |-> result[t]]}
    /\ Reaches(t, "forward")
    /\ UNCHANGED <<message, starts, route, failures, result, stored, event, muted>>

\* reportDownloadFailure and reportExternalFailure.
TellFailure(t) ==
    /\ At(t, "tell")
    /\ Answer(t, result[t])
    /\ UNCHANGED <<message, starts, route, failures, result, stored, event>>

\* Mutant of Stores: an upload that fails is logged and not thrown.
StoresUnchecked(t) ==
    /\ At(t, "upload")
    /\ Reaches(t, "forward")
    /\ stored' \in {stored, stored \cup {t[1]}}
    /\ UNCHANGED <<message, starts, route, failures, result, event, answers, muted>>

\* There is no file to upload after a hollow success.
Stores(t) ==
    /\ At(t, "upload")
    /\ \/ /\ result[t] = "SUCCESS"
          /\ Reaches(t, "forward") /\ stored' = stored \cup {t[1]}
       \/ /\ "upload" \in DownloadFaults \/ result[t] = "HOLLOW"
          /\ Reaches(t, "died") /\ UNCHANGED stored
    /\ UNCHANGED <<message, starts, route, failures, result, event, answers, muted>>

\* Both uploads throw what fails; uploadToS3 is under the job's key.
UploadToS3(t) == ~IsExternal(t) /\ Stores(t)
UploadObjectWithPresignedUrl(t) == IsExternal(t) /\ Stores(t)

\* requestTranscription and reportExternalJob.
Forward(t) ==
    /\ At(t, "forward")
    /\ Answer(t, "SUCCESS")
    /\ UNCHANGED <<message, starts, route, failures, result, stored, event>>

\* The task is stopped: its two hours are over, or the container is lost.
Stop(t) ==
    /\ "crash" \in DownloadFaults
    /\ task[t] \in Running
    /\ Reaches(t, "died")
    /\ UNCHANGED <<message, starts, route, failures, result, stored, event, answers, muted>>

\* GET /youtube-status, for the upload page.
YoutubeStatus == CASE event = "none" -> "500" [] event = "SUCCESS" -> "LIVE" [] OTHER -> "WARN"

----------------------------------------------------------------------------
TaskStep(t) ==
    \/ Begin(t) \/ Attempt(t) \/ PutMetric(t) \/ UpdateYoutubeEvent(t)
    \/ TellFailure(t) \/ UploadToS3(t) \/ UploadObjectWithPresignedUrl(t) \/ Forward(t)

\* Everything but the arrival of messages.
ServiceStep ==
    \/ \E j \in Downloads : PipeTakes(j)
    \/ \E t \in Tasks : TaskStep(t) \/ Stop(t)

MediaNext == ServiceStep \/ \E j \in Downloads : Arrive(j)

MediaSpec == MediaInit /\ [][MediaNext]_mediaVars

----------------------------------------------------------------------------
(* Properties.                                                              *)

Answers == [from : Tasks, says : Reasons \cup {"SUCCESS"}]

\* Every variable has its type.
MediaTypeOK ==
    /\ message \in [Downloads -> {"none", "visible", "gone", "dead"}]
    /\ starts \in [Downloads -> 0..MaxStarts]
    /\ task \in [Tasks -> Running \cup {"none", "done", "died"}]
    /\ route \in [Tasks -> Routes]
    /\ failures \in [Tasks -> SUBSET [route : Routes, reason : Reasons]]
    /\ result \in [Tasks -> Results \cup {"none"}]
    /\ stored \subseteq Downloads
    /\ event \in {"none", "SUCCESS", "BOT_BLOCKED"}
    /\ answers \subseteq Answers
    /\ muted \subseteq Tasks

\* A transcription that is requested, or a success that another service hears
\* of, has its media in S3, whichever attempt or repeated task said so.
SuccessHasMedia ==
    \A a \in answers : a.says = "SUCCESS" => a.from[1] \in stored

\* A requester is told of a bot block only when no way is left to get the media:
\* each proxy and the direct download were blocked, and cookies did not help.
BlockedMeansEveryRoute ==
    \A a \in answers :
        a.says = "BOT_BLOCKED" =>
            /\ \A r \in 1..Proxies \cup {DirectRoute} :
                  [route |-> r, reason |-> "BOT_BLOCKED"] \in failures[a.from]
            /\ Cookies => \E o \in Reasons : [route |-> CookieRoute, reason |-> o] \in failures[a.from]

\* A task that exits as if all were well has told its requester: the only ways out
\* are a body nobody can answer and the ignored result of a send (index.ts:123, 143).
NoSilentExit ==
    \A t \in Tasks :
        task[t] = "done" => \/ t[1] \in Malformed
                          \/ t \in muted
                          \/ \E a \in answers : a.from = t

\* A requester hears at most one thing from a task. Being told twice, or both of a
\* failure and of a success, takes a message that the pipe has started twice.
OneAnswerPerStart ==
    \A a, b \in answers :
        /\ a.from = b.from => a = b
        /\ a.from[2] <= starts[a.from[1]]

\* The upload page warns that YouTube blocks, or does not, because of what became
\* of some YouTube download, and no requester is told before the event is there.
EventIsBacked ==
    /\ YoutubeStatus = "LIVE" => \E t \in Tasks : IsYoutube(t) /\ EventStatus(t) = "SUCCESS"
    /\ YoutubeStatus = "WARN" => \E t \in Tasks : IsYoutube(t) /\ result[t] = "BOT_BLOCKED"
    /\ \A a \in answers :
          IsYoutube(a.from) /\ a.says \in {"SUCCESS", "BOT_BLOCKED"} => YoutubeStatus # "500"

\* What the service says is true: a success has its media, a block means that every
\* route was tried, and the event that the upload page reads is some download's.
ReportsAreTrue == SuccessHasMedia /\ BlockedMeansEveryRoute /\ EventIsBacked

\* A requester hears of each start of its task that ends as if all were well, and
\* hears of it once: the four reports of main exclude each other and leave no gap.
AnsweredOnce == NoSilentExit /\ OneAnswerPerStart

=============================================================================
