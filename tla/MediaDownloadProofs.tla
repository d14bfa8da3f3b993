-------------------------- MODULE MediaDownloadProofs --------------------------
(***************************************************************************)
(* The safety of the media download service, for any number of downloads, *)
(* proxies and starts of a message, and for every fault.                   *)
(***************************************************************************)
EXTENDS MediaDownload, TLAPS

Over == {"done", "died"}

\* From the last attempt on the result of a task stays as it is.
Settled(t) == task[t] \notin {"none", "started", "download"}

\* The blocks on the way to the route in hand.
Trail(t) ==
    /\ \A r \in 1..Proxies :
          r < route[t] => [route |-> r, reason |-> "BOT_BLOCKED"] \in failures[t]
    /\ route[t] = DirectRoute /\ IsYoutube(t) /\ Cookies =>
          \E o \in Reasons : [route |-> CookieRoute, reason |-> o] \in failures[t]

EveryRoute(t) ==
    /\ \A r \in 1..Proxies \cup {DirectRoute} :
          [route |-> r, reason |-> "BOT_BLOCKED"] \in failures[t]
    /\ Cookies => \E o \in Reasons : [route |-> CookieRoute, reason |-> o] \in failures[t]

ToldBy(t) == t[1] \in Malformed \/ t \in muted \/ \E a \in answers : a.from = t

\* An event is there for a YouTube download whose outcome counts.
Recorded(t) ==
    IsYoutube(t) /\ EventStatus(t) \in {"SUCCESS", "BOT_BLOCKED"} => event # "none"

TaskInv(t) ==
    /\ task[t] # "none" => t[2] <= starts[t[1]]
    /\ task[t] = "download" => Trail(t)
    /\ task[t] \in {"metric", "event", "tell"} /\ result[t] = "BOT_BLOCKED" => EveryRoute(t)
    /\ task[t] \in {"metric", "event"} => result[t] \in Results
    /\ task[t] = "tell" => result[t] \in Reasons /\ Recorded(t)
    /\ task[t] = "upload" => result[t] \in {"SUCCESS", "HOLLOW"} /\ Recorded(t)
    /\ task[t] = "forward" => result[t] = "SUCCESS" /\ Recorded(t) /\ t[1] \in stored
    /\ task[t] = "done" => ToldBy(t)

AnswerInv(a) ==
    /\ task[a.from] \in Over
    /\ a.says = "SUCCESS" => a.from[1] \in stored
    /\ a.says = "BOT_BLOCKED" => EveryRoute(a.from)
    /\ IsYoutube(a.from) /\ a.says \in {"SUCCESS", "BOT_BLOCKED"} => event # "none"
    /\ \A b \in answers : a.from = b.from => a = b

EventInv ==
    /\ event = "SUCCESS" =>
          \E t \in Tasks : IsYoutube(t) /\ EventStatus(t) = "SUCCESS" /\ Settled(t)
    /\ event = "BOT_BLOCKED" =>
          \E t \in Tasks : IsYoutube(t) /\ result[t] = "BOT_BLOCKED" /\ Settled(t)

\* A message that can still be received has a start left.
StartsLeft == \A j \in Downloads : message[j] \in {"none", "visible"} => starts[j] < MaxStarts

MediaInv ==
    /\ MediaTypeOK /\ StartsLeft
    /\ \A t \in Tasks : TaskInv(t)
    /\ \A a \in answers : AnswerInv(a)
    /\ EventInv

----------------------------------------------------------------------------
(* What a step of one task may do to the rest.                              *)

\* A step of task t.
Framed(t) ==
    /\ \A u \in Tasks \ {t} :
          /\ task'[u] = task[u] /\ route'[u] = route[u]
          /\ failures'[u] = failures[u] /\ result'[u] = result[u]
    /\ starts' = starts
    /\ stored \subseteq stored' /\ muted \subseteq muted' /\ answers \subseteq answers'
    /\ event # "none" => event' # "none"

LEMMA RouteAfter ==
    ASSUME NEW t, NEW r \in 0..CookieRoute
    PROVE  /\ After(t, r) \in Routes
           /\ After(t, r) # r + 1 => r = Proxies /\ After(t, r) = DirectRoute
           /\ After(t, r) = CookieRoute => IsYoutube(t) /\ Cookies
           /\ After(t, r) = DirectRoute =>
                 r = CookieRoute \/ (r = Proxies /\ ~(IsYoutube(t) /\ Cookies))
BY DownloadAssumption DEF DownloadAssumption, After, CookieRoute, DirectRoute, Routes

LEMMA OthersKeep ==
    ASSUME MediaInv, NEW t \in Tasks, Framed(t), NEW u \in Tasks \ {t}
    PROVE  TaskInv(u)'
<1>1. TaskInv(u)
  BY DEF MediaInv
<1>2. /\ task'[u] = task[u] /\ route'[u] = route[u]
      /\ failures'[u] = failures[u] /\ result'[u] = result[u]
      /\ starts' = starts /\ stored \subseteq stored'
      /\ event # "none" => event' # "none"
  BY DEF Framed
<1>3. ToldBy(u) => ToldBy(u)'
  BY DEF Framed, ToldBy
<1>4. (Trail(u) => Trail(u)') /\ (EveryRoute(u) => EveryRoute(u)')
  BY <1>2 DEF Trail, EveryRoute, IsYoutube
<1>5. Recorded(u) => Recorded(u)'
  BY <1>2 DEF Recorded, IsYoutube, EventStatus
<1> QED BY <1>1, <1>2, <1>3, <1>4, <1>5 DEF TaskInv

\* An answer stands while the task that gave it is over.
LEMMA AnswersKeep ==
    ASSUME MediaInv, NEW t \in Tasks, Framed(t), task[t] \notin Over,
           answers' = answers
    PROVE  \A a \in answers' : AnswerInv(a)'
<1> SUFFICES ASSUME NEW a \in answers PROVE AnswerInv(a)'
  OBVIOUS
<1>1. AnswerInv(a) /\ a.from \in Tasks
  BY DEF MediaInv, MediaTypeOK, Answers
<1>2. a.from # t
  BY <1>1 DEF AnswerInv
<1>3. task'[a.from] = task[a.from] /\ failures'[a.from] = failures[a.from]
  BY <1>1, <1>2 DEF Framed
<1>4. EveryRoute(a.from) => EveryRoute(a.from)'
  BY <1>3 DEF EveryRoute
<1> QED BY <1>1, <1>3, <1>4 DEF AnswerInv, Framed, IsYoutube

\* The download that an event stands for keeps its result.
LEMMA EventKeeps ==
    ASSUME MediaInv, NEW t \in Tasks, Framed(t), event' = event,
           Settled(t) => Settled(t)' /\ result'[t] = result[t]
    PROVE  EventInv'
<1>1. ASSUME NEW u \in Tasks, Settled(u)
      PROVE  Settled(u)' /\ result'[u] = result[u]
  BY <1>1 DEF Framed, Settled
<1> QED BY <1>1 DEF MediaInv, EventInv, EventStatus, IsYoutube

----------------------------------------------------------------------------
(* The invariant.                                                           *)

LEMMA InitInv == MediaInit => MediaInv
<1> SUFFICES ASSUME MediaInit PROVE MediaInv
  OBVIOUS
<1>1. MediaTypeOK
  BY DownloadAssumption
     DEF DownloadAssumption, MediaInit, MediaTypeOK, Routes, DirectRoute, Running, Tasks
<1>2. ASSUME NEW t \in Tasks PROVE TaskInv(t)
  BY <1>2 DEF MediaInit, TaskInv
<1>3. StartsLeft
  BY DownloadAssumption DEF DownloadAssumption, MediaInit, StartsLeft
<1> QED BY <1>1, <1>2, <1>3 DEF MediaInit, MediaInv, EventInv

LEMMA ArriveInv ==
    ASSUME MediaInv, NEW j \in Downloads, Arrive(j)
    PROVE  MediaInv'
<1>1. MediaTypeOK' /\ StartsLeft'
  BY DEF MediaInv, MediaTypeOK, StartsLeft, Arrive, taskVars
<1>2. \A t \in Tasks : TaskInv(t)'
  BY DEF MediaInv, TaskInv, Trail, EveryRoute, ToldBy, Recorded, IsYoutube, EventStatus,
         Arrive, taskVars
<1>3. (\A a \in answers : AnswerInv(a)') /\ answers' = answers
  BY DEF MediaInv, AnswerInv, EveryRoute, IsYoutube, Arrive, taskVars
<1>4. EventInv'
  BY DEF MediaInv, EventInv, Settled, IsYoutube, EventStatus, Arrive, taskVars
<1> QED BY <1>1, <1>2, <1>3, <1>4 DEF MediaInv

\* The task that a receive starts has not run before.
LEMMA PipeTakesInv ==
    ASSUME MediaInv, NEW j \in Downloads, PipeTakes(j)
    PROVE  MediaInv'
<1> DEFINE t == <<j, starts[j] + 1>>
<1>1. /\ starts \in [Downloads -> 0..MaxStarts] /\ starts[j] + 1 \in 1..MaxStarts
      /\ message \in [Downloads -> {"none", "visible", "gone", "dead"}]
      /\ task \in [Tasks -> Running \cup {"none", "done", "died"}]
  BY DownloadAssumption
     DEF DownloadAssumption, MediaInv, MediaTypeOK, StartsLeft, PipeTakes
<1>2. t \in Tasks
  BY <1>1 DEF Tasks
<1>3. task[t] = "none"
  <2>1. task[t] # "none" => starts[j] + 1 <= starts[j]
    BY <1>2 DEF MediaInv, TaskInv
  <2> QED BY <2>1, <1>1, DownloadAssumption DEF DownloadAssumption
<1>4. /\ starts' = [starts EXCEPT ![j] = @ + 1]
      /\ UNCHANGED <<route, failures, result, stored, event, answers, muted>>
      /\ task' = task \/ task' = [task EXCEPT ![t] = "started"]
  BY DEF PipeTakes
<1>5. /\ message' \in [Downloads -> {"none", "visible", "gone", "dead"}]
      /\ \A i \in Downloads \ {j} : message'[i] = message[i]
      /\ message'[j] = "visible" => starts[j] + 1 < MaxStarts
      /\ message'[j] # "none"
  BY <1>1 DEF PipeTakes
<1>6. MediaTypeOK'
  <2>1. task' \in [Tasks -> Running \cup {"none", "done", "died"}]
    BY <1>1, <1>4 DEF Running
  <2>2. starts' \in [Downloads -> 0..MaxStarts]
    BY <1>1, <1>4, DownloadAssumption DEF DownloadAssumption
  <2> QED BY <2>1, <2>2, <1>4, <1>5 DEF MediaInv, MediaTypeOK
<1>7. StartsLeft'
  BY <1>1, <1>4, <1>5 DEF MediaInv, StartsLeft
<1>8. ASSUME NEW u \in Tasks PROVE TaskInv(u)'
  <2>1. starts[u[1]] \in Nat /\ starts'[u[1]] \in Nat /\ starts[u[1]] <= starts'[u[1]]
    BY <1>1, <1>4, <1>8, DownloadAssumption DEF Tasks, DownloadAssumption
  <2>2. CASE task'[u] = task[u]
    <3>1. TaskInv(u) /\ u[2] \in Nat
      BY <1>8 DEF MediaInv, Tasks
    <3>2. UNCHANGED <<Trail(u), EveryRoute(u), ToldBy(u), Recorded(u)>>
      BY <1>4 DEF Trail, EveryRoute, ToldBy, Recorded, IsYoutube, EventStatus
    <3> QED BY <1>4, <2>1, <2>2, <3>1, <3>2 DEF TaskInv
  <2>3. CASE task'[u] # task[u]
    <3>1. u = t /\ task'[u] = "started"
      BY <1>1, <1>2, <1>4, <2>3
    <3>2. u[2] <= starts'[u[1]]
      BY <1>1, <1>4, <3>1
    <3> QED BY <3>1, <3>2 DEF TaskInv
  <2> QED BY <2>2, <2>3
<1>9. ASSUME NEW a \in answers' PROVE AnswerInv(a)'
  <2>1. AnswerInv(a) /\ a.from \in Tasks
    BY <1>4, <1>9 DEF MediaInv, MediaTypeOK, Answers
  <2>2. task'[a.from] = task[a.from]
    BY <1>1, <1>3, <1>4, <2>1 DEF AnswerInv, Over
  <2>3. EveryRoute(a.from)' = EveryRoute(a.from)
    BY <1>4 DEF EveryRoute
  <2> QED BY <1>4, <2>1, <2>2, <2>3 DEF AnswerInv, IsYoutube
<1>10. EventInv'
  <2>1. \A u \in Tasks : Settled(u) => Settled(u)'
    BY <1>1, <1>3, <1>4 DEF Settled
  <2> QED BY <1>4, <2>1 DEF MediaInv, EventInv, EventStatus, IsYoutube
<1> QED BY <1>6, <1>7, <1>8, <1>9, <1>10 DEF MediaInv

\* Every action of task t but Forward and TellFailure leaves the answers alone.
LEMMA QuietStep ==
    ASSUME MediaInv, NEW t \in Tasks, Framed(t), task[t] \notin Over,
           UNCHANGED <<message, answers>>,
           MediaTypeOK', TaskInv(t)', EventInv'
    PROVE  MediaInv'
<1>1. \A u \in Tasks : TaskInv(u)'
  BY OthersKeep
<1>2. \A a \in answers' : AnswerInv(a)'
  BY AnswersKeep
<1>3. StartsLeft'
  BY DEF MediaInv, StartsLeft, Framed
<1> QED BY <1>1, <1>2, <1>3 DEF MediaInv

LEMMA BeginInv ==
    ASSUME MediaInv, NEW t \in Tasks, Begin(t)
    PROVE  MediaInv'
<1>1. /\ task \in [Tasks -> Running \cup {"none", "done", "died"}]
      /\ route \in [Tasks -> Routes] /\ task[t] = "started" /\ TaskInv(t)
  BY DEF MediaInv, MediaTypeOK, Begin, At
<1>2. 0 \in 0..CookieRoute
  BY DownloadAssumption DEF DownloadAssumption, CookieRoute
<1>3. /\ UNCHANGED <<message, starts, failures, result, stored, event, answers, muted>>
      /\ route' = [route EXCEPT ![t] = After(t, 0)]
      /\ \/ task' = [task EXCEPT ![t] = "done"] /\ t[1] \in Malformed
         \/ task' = [task EXCEPT ![t] = "download"]
         \/ task' = [task EXCEPT ![t] = "died"]
  BY DEF Begin, Reaches, StartProxyTunnels
<1>4. MediaTypeOK'
  <2>1. After(t, 0) \in Routes
    BY <1>2, RouteAfter
  <2> QED BY <1>1, <1>3, <2>1 DEF MediaInv, MediaTypeOK, Running
<1>5. Framed(t)
  BY <1>1, <1>3 DEF Framed
<1>6. Trail(t)'
  <2>1. /\ \A r \in 1..Proxies : ~(r < After(t, 0))
        /\ ~(After(t, 0) = DirectRoute /\ IsYoutube(t) /\ Cookies)
    BY <1>2, RouteAfter, DownloadAssumption DEF DownloadAssumption, CookieRoute, DirectRoute
  <2>2. route'[t] = After(t, 0)
    BY <1>1, <1>3
  <2> QED BY <2>1, <2>2 DEF Trail, IsYoutube
<1>7. TaskInv(t)'
  BY <1>1, <1>3, <1>6 DEF TaskInv, ToldBy
<1>8. EventInv'
  BY <1>1, <1>3, <1>5, EventKeeps DEF Settled
<1> QED BY <1>1, <1>3, <1>4, <1>5, <1>7, <1>8, QuietStep DEF Over

\* The last attempt of a task that reports a block was the direct one.
LEMMA TryRouteInv ==
    ASSUME MediaInv, NEW t \in Tasks, Attempt(t)
    PROVE  MediaInv'
<1>1. /\ task \in [Tasks -> Running \cup {"none", "done", "died"}]
      /\ route \in [Tasks -> Routes] /\ result \in [Tasks -> Results \cup {"none"}]
      /\ failures \in [Tasks -> SUBSET [route : Routes, reason : Reasons]]
      /\ task[t] = "download" /\ TaskInv(t) /\ Trail(t)
  BY DEF MediaInv, MediaTypeOK, Attempt, At, TaskInv
<1>2. PICK o \in Outcomes(t) :
        /\ failures' = [failures EXCEPT ![t] =
              IF o \in Reasons THEN @ \cup {[route |-> route[t], reason |-> o]} ELSE @]
        /\ result' = [result EXCEPT ![t] = o]
        /\ IF GoesOn(route[t], o)
             THEN route' = [route EXCEPT ![t] = After(t, @)] /\ UNCHANGED task
             ELSE Reaches(t, "metric") /\ UNCHANGED route
  BY DEF Attempt
<1>3. UNCHANGED <<message, starts, stored, event, answers, muted>>
  BY DEF Attempt
<1>4. o \in Results /\ (o = "BOT_BLOCKED" => IsYoutube(t))
  BY DEF Outcomes, Signalled, Results, Reasons
<1>5. /\ route[t] \in Routes
      /\ failures[t] \in SUBSET [route : Routes, reason : Reasons]
  BY <1>1
<1>6. GoesOn(route[t], o) => route[t] \in 0..CookieRoute /\ o \in Reasons
  BY DownloadAssumption, <1>5
     DEF GoesOn, DownloadAssumption, CookieRoute, DirectRoute, Routes, Reasons
<1>7. /\ failures'[t] = IF o \in Reasons
                          THEN failures[t] \cup {[route |-> route[t], reason |-> o]}
                          ELSE failures[t]
      /\ result'[t] = o
      /\ failures[t] \subseteq failures'[t]
  BY <1>1, <1>2
<1>8. MediaTypeOK'
  <2>1. route' \in [Tasks -> Routes]
    BY <1>1, <1>2, <1>6, RouteAfter
  <2>2. failures' \in [Tasks -> SUBSET [route : Routes, reason : Reasons]]
    BY <1>1, <1>2, <1>5
  <2>3. result' \in [Tasks -> Results \cup {"none"}]
    BY <1>1, <1>2, <1>4
  <2>4. task' \in [Tasks -> Running \cup {"none", "done", "died"}]
    BY <1>1, <1>2 DEF Reaches, Running
  <2> QED BY <1>3, <2>1, <2>2, <2>3, <2>4 DEF MediaInv, MediaTypeOK
<1>9. Framed(t)
  BY <1>1, <1>2, <1>3 DEF Framed, Reaches
<1>10. TaskInv(t)'
  <2>1. CASE GoesOn(route[t], o)
    <3>1. task'[t] = "download" /\ route'[t] = After(t, route[t])
      BY <1>1, <1>2, <2>1
    <3>2. [route |-> route[t], reason |-> o] \in failures'[t] /\ o \in Reasons
      BY <1>6, <1>7, <2>1
    <3>3. ASSUME NEW r \in 1..Proxies, r < After(t, route[t])
          PROVE  [route |-> r, reason |-> "BOT_BLOCKED"] \in failures'[t]
      <4>1. r < route[t] \/ r = route[t]
        BY <1>5, <1>6, <2>1, <3>3, RouteAfter, DownloadAssumption
           DEF DownloadAssumption, CookieRoute, DirectRoute, Routes
      <4>2. r = route[t] => o = "BOT_BLOCKED"
        BY <2>1, DownloadAssumption DEF DownloadAssumption, GoesOn, CookieRoute
      <4> QED BY <1>1, <1>7, <3>2, <4>1, <4>2 DEF Trail
    <3>4. After(t, route[t]) = DirectRoute /\ IsYoutube(t) /\ Cookies =>
             [route |-> CookieRoute, reason |-> o] \in failures'[t]
      BY <1>6, <2>1, <3>2, RouteAfter
    <3>5. Trail(t)'
      BY <3>1, <3>2, <3>3, <3>4 DEF Trail, IsYoutube
    <3> QED BY <1>1, <1>3, <3>1, <3>5 DEF TaskInv
  <2>2. CASE ~GoesOn(route[t], o)
    <3>1. task'[t] = "metric" /\ route'[t] = route[t]
      BY <1>1, <1>2, <2>2 DEF Reaches
    <3>2. o = "BOT_BLOCKED" => EveryRoute(t)'
      <4> SUFFICES ASSUME o = "BOT_BLOCKED" PROVE EveryRoute(t)'
        OBVIOUS
      <4>1. route[t] = DirectRoute
        BY <1>5, <2>2, DownloadAssumption
           DEF DownloadAssumption, GoesOn, Reasons, CookieRoute, DirectRoute, Routes
      <4>2. [route |-> DirectRoute, reason |-> "BOT_BLOCKED"] \in failures'[t]
        BY <1>7, <4>1 DEF Reasons
      <4>3. \A r \in 1..Proxies : r < DirectRoute
        BY DownloadAssumption DEF DownloadAssumption, DirectRoute
      <4> QED BY <1>1, <1>4, <1>7, <4>1, <4>2, <4>3 DEF Trail, EveryRoute
    <3> QED BY <1>1, <1>3, <1>4, <1>7, <3>1, <3>2 DEF TaskInv
  <2> QED BY <2>1, <2>2
<1>11. EventInv'
  BY <1>1, <1>3, <1>9, EventKeeps DEF Settled
<1> QED BY <1>1, <1>3, <1>8, <1>9, <1>10, <1>11, QuietStep DEF Over

LEMMA PutMetricInv ==
    ASSUME MediaInv, NEW t \in Tasks, PutMetric(t)
    PROVE  MediaInv'
<1>1. /\ task \in [Tasks -> Running \cup {"none", "done", "died"}]
      /\ task[t] = "metric" /\ TaskInv(t)
  BY DEF MediaInv, MediaTypeOK, PutMetric, At
<1>2. /\ UNCHANGED <<message, starts, route, failures, result, stored, event, answers, muted>>
      /\ \/ task' = [task EXCEPT ![t] = "event"]
         \/ task' = [task EXCEPT ![t] = "died"]
  BY DEF PutMetric, Reaches
<1>3. MediaTypeOK'
  BY <1>1, <1>2 DEF MediaInv, MediaTypeOK, Running
<1>4. Framed(t)
  BY <1>1, <1>2 DEF Framed
<1>5. TaskInv(t)'
  BY <1>1, <1>2 DEF TaskInv, EveryRoute
<1>6. EventInv'
  BY <1>1, <1>2, <1>4, EventKeeps DEF Settled
<1> QED BY <1>1, <1>2, <1>3, <1>4, <1>5, <1>6, QuietStep DEF Over

LEMMA UpdateYoutubeEventInv ==
    ASSUME MediaInv, NEW t \in Tasks, UpdateYoutubeEvent(t)
    PROVE  MediaInv'
<1>1. /\ task \in [Tasks -> Running \cup {"none", "done", "died"}]
      /\ task[t] = "event" /\ TaskInv(t) /\ result[t] \in Results
      /\ event \in {"none", "SUCCESS", "BOT_BLOCKED"}
  BY DEF MediaInv, MediaTypeOK, UpdateYoutubeEvent, At, TaskInv
<1> DEFINE next == IF result[t] \in Reasons THEN "tell" ELSE "upload"
           stale == IF WritesEvent(t) THEN EventStatus(t) ELSE event
<1>2. /\ UNCHANGED <<message, starts, route, failures, result, stored, answers, muted>>
      /\ \/ task' = [task EXCEPT ![t] = next] /\ event' = stale
         \/ task' = [task EXCEPT ![t] = "died"] /\ event' \in {event, stale}
  BY DEF UpdateYoutubeEvent, Reaches
<1>3. stale \in {"none", "SUCCESS", "BOT_BLOCKED"} /\ (event # "none" => stale # "none")
  BY <1>1 DEF WritesEvent
<1>4. MediaTypeOK'
  <2>1. task' \in [Tasks -> Running \cup {"none", "done", "died"}]
    BY <1>1, <1>2 DEF Running
  <2> QED BY <1>2, <1>3, <2>1 DEF MediaInv, MediaTypeOK
<1>5. Framed(t)
  BY <1>1, <1>2, <1>3 DEF Framed
<1>6. /\ task'[t] \in {next, "died"} /\ Settled(t)' /\ result'[t] = result[t]
      /\ task'[t] = next => event' = stale
  BY <1>1, <1>2 DEF Settled
<1>7. TaskInv(t)'
  <2>1. IsYoutube(t) /\ EventStatus(t) \in {"SUCCESS", "BOT_BLOCKED"} => stale # "none"
    BY DEF WritesEvent
  <2>2. task'[t] = next => Recorded(t)'
    BY <1>2, <1>6, <2>1 DEF Recorded, IsYoutube, EventStatus
  <2>3. EveryRoute(t) => EveryRoute(t)'
    BY <1>2 DEF EveryRoute
  <2>4. result[t] \notin Reasons => result[t] \in {"SUCCESS", "HOLLOW"}
    BY <1>1 DEF Results
  <2> QED BY <1>1, <1>2, <1>6, <2>2, <2>3, <2>4 DEF TaskInv
<1>8. EventInv'
  <2>1. CASE event' = event
    BY <1>5, <1>6, <2>1, EventKeeps
  <2>2. CASE event' # event
    <3>1. WritesEvent(t) /\ event' = EventStatus(t)
      BY <1>2, <2>2
    <3>2. IsYoutube(t)' /\ EventStatus(t)' = event'
      BY <1>6, <3>1 DEF WritesEvent, IsYoutube, EventStatus
    <3>3. event' = "BOT_BLOCKED" => result'[t] = "BOT_BLOCKED"
      BY <3>2 DEF EventStatus
    <3> QED BY <1>6, <3>2, <3>3 DEF EventInv
  <2> QED BY <2>1, <2>2
<1> QED BY <1>1, <1>2, <1>4, <1>5, <1>7, <1>8, QuietStep DEF Over

LEMMA StoresInv ==
    ASSUME MediaInv, NEW t \in Tasks, Stores(t)
    PROVE  MediaInv'
<1>1. /\ task \in [Tasks -> Running \cup {"none", "done", "died"}]
      /\ task[t] = "upload" /\ TaskInv(t)
  BY DEF MediaInv, MediaTypeOK, Stores, At
<1>2. /\ UNCHANGED <<message, starts, route, failures, result, event, answers, muted>>
      /\ \/ /\ result[t] = "SUCCESS" /\ stored' = stored \cup {t[1]}
            /\ task' = [task EXCEPT ![t] = "forward"]
         \/ task' = [task EXCEPT ![t] = "died"] /\ stored' = stored
  BY DEF Stores, Reaches
<1>3. MediaTypeOK'
  <2>1. t[1] \in Downloads
    BY DEF Tasks
  <2>2. task' \in [Tasks -> Running \cup {"none", "done", "died"}]
    BY <1>1, <1>2 DEF Running
  <2> QED BY <1>2, <2>1, <2>2 DEF MediaInv, MediaTypeOK
<1>4. Framed(t)
  BY <1>1, <1>2 DEF Framed
<1>5. TaskInv(t)'
  BY <1>1, <1>2 DEF TaskInv, Recorded, IsYoutube, EventStatus
<1>6. EventInv'
  BY <1>1, <1>2, <1>4, EventKeeps DEF Settled
<1> QED BY <1>1, <1>2, <1>3, <1>4, <1>5, <1>6, QuietStep DEF Over

LEMMA StopInv ==
    ASSUME MediaInv, NEW t \in Tasks, Stop(t)
    PROVE  MediaInv'
<1>1. /\ task \in [Tasks -> Running \cup {"none", "done", "died"}]
      /\ task[t] \in Running /\ TaskInv(t)
  BY DEF MediaInv, MediaTypeOK, Stop
<1>2. /\ UNCHANGED <<message, starts, route, failures, result, stored, event, answers, muted>>
      /\ task' = [task EXCEPT ![t] = "died"]
  BY DEF Stop, Reaches
<1>3. MediaTypeOK'
  BY <1>1, <1>2 DEF MediaInv, MediaTypeOK, Running
<1>4. Framed(t)
  BY <1>1, <1>2 DEF Framed
<1>5. TaskInv(t)'
  BY <1>1, <1>2 DEF TaskInv, Running
<1>6. EventInv'
  BY <1>1, <1>2, <1>4, EventKeeps DEF Settled
<1> QED BY <1>1, <1>2, <1>3, <1>4, <1>5, <1>6, QuietStep DEF Over, Running

\* The one answer of a task, which is what its last attempt came to.
LEMMA AnswerInvStep ==
    ASSUME MediaInv, NEW t \in Tasks, task[t] \in {"tell", "forward"},
           Answer(t, result[t]),
           UNCHANGED <<message, starts, route, failures, result, stored, event>>
    PROVE  MediaInv'
<1> DEFINE own == [from |-> t, says |-> result[t]]
<1>1. /\ task \in [Tasks -> Running \cup {"none", "done", "died"}]
      /\ TaskInv(t) /\ result[t] \in Reasons \cup {"SUCCESS"} /\ Recorded(t)
  BY DEF MediaInv, MediaTypeOK, TaskInv
<1>2. /\ answers' = answers \/ answers' = answers \cup {own}
      /\ muted' = muted \/ muted' = muted \cup {t}
      /\ task' = [task EXCEPT ![t] = "done"] \/ task' = [task EXCEPT ![t] = "died"]
      /\ task' = [task EXCEPT ![t] = "done"] => t \in muted' \/ own \in answers'
  BY <1>1 DEF Answer, Reaches
<1>3. task'[t] \in Over /\ (task'[t] = "done" => ToldBy(t)')
  BY <1>1, <1>2 DEF Over, ToldBy
<1>4. MediaTypeOK'
  <2>1. own \in Answers
    BY <1>1 DEF Answers
  <2>2. task' \in [Tasks -> Running \cup {"none", "done", "died"}]
    BY <1>1, <1>2
  <2> QED BY <1>2, <2>1, <2>2 DEF MediaInv, MediaTypeOK
<1>5. Framed(t)
  BY <1>1, <1>2 DEF Framed
<1>6. \A u \in Tasks : TaskInv(u)'
  <2>1. TaskInv(t)'
    BY <1>1, <1>3 DEF TaskInv, Over
  <2> QED BY <1>5, <2>1, OthersKeep
<1>7. ASSUME NEW a \in answers PROVE AnswerInv(a)' /\ a.from # t
  <2>1. AnswerInv(a) /\ a.from \in Tasks
    BY <1>7 DEF MediaInv, MediaTypeOK, Answers
  <2>2. a.from # t
    BY <2>1 DEF AnswerInv, Over
  <2>3. task'[a.from] = task[a.from] /\ EveryRoute(a.from)' = EveryRoute(a.from)
    BY <1>5, <2>1, <2>2 DEF Framed, EveryRoute
  <2>4. \A b \in answers' : a.from = b.from => a = b
    BY <1>2, <2>1, <2>2 DEF AnswerInv
  <2> QED BY <2>1, <2>2, <2>3, <2>4 DEF AnswerInv, IsYoutube
<1>8. own \in answers' => AnswerInv(own)'
  <2>1. result[t] = "SUCCESS" => t[1] \in stored
    BY <1>1 DEF TaskInv, Reasons
  <2>2. result[t] = "BOT_BLOCKED" => EveryRoute(t)'
    BY <1>1 DEF TaskInv, EveryRoute
  <2>3. IsYoutube(t) /\ result[t] \in {"SUCCESS", "BOT_BLOCKED"} => event # "none"
    BY <1>1 DEF Recorded, EventStatus
  <2>4. \A b \in answers' : own.from = b.from => own = b
    BY <1>2, <1>7
  <2> QED BY <1>3, <2>1, <2>2, <2>3, <2>4 DEF AnswerInv, IsYoutube
<1>9. \A a \in answers' : AnswerInv(a)'
  BY <1>2, <1>7, <1>8
<1>10. EventInv'
  BY <1>3, <1>5, EventKeeps DEF Settled, Over
<1>11. StartsLeft'
  BY DEF MediaInv, StartsLeft
<1> QED BY <1>4, <1>6, <1>9, <1>10, <1>11 DEF MediaInv

LEMMA StepInv == MediaInv /\ [MediaNext]_mediaVars => MediaInv'
<1> SUFFICES ASSUME MediaInv, [MediaNext]_mediaVars PROVE MediaInv'
  OBVIOUS
<1>1. ASSUME NEW j \in Downloads, Arrive(j) \/ PipeTakes(j) PROVE MediaInv'
  BY <1>1, ArriveInv, PipeTakesInv
<1>2. ASSUME NEW t \in Tasks, TaskStep(t) \/ Stop(t) PROVE MediaInv'
  <2>1. ASSUME TellFailure(t) PROVE MediaInv'
    BY <2>1, AnswerInvStep DEF TellFailure, At
  <2>2. ASSUME Forward(t) PROVE MediaInv'
    <3>1. task[t] = "forward" /\ result[t] = "SUCCESS"
      BY <2>2 DEF Forward, At, MediaInv, TaskInv
    <3> QED BY <2>2, <3>1, AnswerInvStep DEF Forward
  <2> QED BY <1>2, <2>1, <2>2, BeginInv, TryRouteInv, PutMetricInv, UpdateYoutubeEventInv,
             StoresInv, StopInv
          DEF TaskStep, UploadToS3, UploadObjectWithPresignedUrl
<1>3. ASSUME UNCHANGED mediaVars PROVE MediaInv'
  <2>1. MediaTypeOK' /\ StartsLeft'
    BY <1>3 DEF MediaInv, MediaTypeOK, StartsLeft, mediaVars, taskVars
  <2>2. \A t \in Tasks : TaskInv(t)'
    BY <1>3 DEF MediaInv, TaskInv, Trail, EveryRoute, ToldBy, Recorded, IsYoutube, EventStatus,
                mediaVars, taskVars
  <2>3. \A a \in answers' : AnswerInv(a)'
    BY <1>3 DEF MediaInv, AnswerInv, EveryRoute, IsYoutube, mediaVars, taskVars
  <2>4. EventInv'
    BY <1>3 DEF MediaInv, EventInv, Settled, IsYoutube, EventStatus, mediaVars, taskVars
  <2> QED BY <2>1, <2>2, <2>3, <2>4 DEF MediaInv
<1> QED BY <1>1, <1>2, <1>3 DEF MediaNext, ServiceStep

\* The inductive invariant holds of every behaviour: it says what a task at each
\* await knows and has done, and that what it has told stays true.
THEOREM DownloadInvariance == MediaSpec => []MediaInv
BY InitInv, StepInv, PTL DEF MediaSpec

----------------------------------------------------------------------------
(* The properties.                                                          *)

\* The types of the service's state; no message is received once too often.
THEOREM DownloadTypeCorrect == MediaSpec => []MediaTypeOK
<1>1. MediaInv => MediaTypeOK
  BY DEF MediaInv
<1> QED BY <1>1, DownloadInvariance, PTL

\* Whoever is told of a success finds the media in S3.
THEOREM SuccessesHaveMedia == MediaSpec => []SuccessHasMedia
<1>1. MediaInv => SuccessHasMedia
  BY DEF MediaInv, AnswerInv, SuccessHasMedia
<1> QED BY <1>1, DownloadInvariance, PTL

\* For any number of proxies a block is reported only when each of them, and the
\* direct download, was blocked, and cookies failed if there are any.
THEOREM BlocksAreTrue == MediaSpec => []BlockedMeansEveryRoute
<1>1. MediaInv => BlockedMeansEveryRoute
  BY DEF MediaInv, AnswerInv, BlockedMeansEveryRoute, EveryRoute
<1> QED BY <1>1, DownloadInvariance, PTL

\* A task that ends well has answered, or its body was malformed, or the result of
\* its send was ignored.
THEOREM ExitsAreTold == MediaSpec => []NoSilentExit
<1>1. MediaInv => NoSilentExit
  BY DEF MediaInv, TaskInv, ToldBy, NoSilentExit
<1> QED BY <1>1, DownloadInvariance, PTL

\* A task answers once, and answers of one message come from receives of it.
THEOREM OneAnswerEach == MediaSpec => []OneAnswerPerStart
<1>1. ASSUME MediaInv PROVE OneAnswerPerStart
  <2>1. ASSUME NEW a \in answers PROVE a.from[2] <= starts[a.from[1]]
    <3>1. a.from \in Tasks /\ task[a.from] \in Over
      BY <1>1, <2>1 DEF MediaInv, MediaTypeOK, Answers, AnswerInv
    <3> QED BY <1>1, <3>1 DEF MediaInv, TaskInv, Over
  <2>2. \A a, b \in answers : a.from = b.from => a = b
    BY <1>1 DEF MediaInv, AnswerInv
  <2> QED BY <2>1, <2>2 DEF OneAnswerPerStart
<1> QED BY <1>1, DownloadInvariance, PTL

\* What the upload page says of YouTube comes from some download, and is there
\* before anybody hears of that download.
THEOREM EventsAreBacked == MediaSpec => []EventIsBacked
<1>1. ASSUME MediaInv PROVE EventIsBacked
  <2>1. event \in {"none", "SUCCESS", "BOT_BLOCKED"}
    BY <1>1 DEF MediaInv, MediaTypeOK
  <2>2. /\ YoutubeStatus = "LIVE" => event = "SUCCESS"
        /\ YoutubeStatus = "WARN" => event = "BOT_BLOCKED"
        /\ event # "none" => YoutubeStatus # "500"
    BY <2>1 DEF YoutubeStatus
  <2> QED BY <1>1, <2>2 DEF MediaInv, EventInv, AnswerInv, EventIsBacked
<1> QED BY <1>1, DownloadInvariance, PTL

\* All that the service says of a download is true, for any number of requests,
\* proxies and starts, and under every fault.
THEOREM ReportsTrue == MediaSpec => []ReportsAreTrue
BY SuccessesHaveMedia, BlocksAreTrue, EventsAreBacked, PTL DEF ReportsAreTrue

\* A requester hears of each start that ends well, and once.
THEOREM OneReportEach == MediaSpec => []AnsweredOnce
BY ExitsAreTold, OneAnswerEach, PTL DEF AnsweredOnce

=============================================================================
