---------------------------- MODULE ExportProofs ----------------------------
(***************************************************************************)
(* Whatever DynamoDB, Lambda, Google and the user's tabs do, no success is  *)
(* recorded or shown whose file is not on the Drive. The invariant follows  *)
(* a status from the handler's or the lambda's local variable into the      *)
(* item, through stale reads back into a lambda, and on to the pages.       *)
(***************************************************************************)
EXTENDS Export, TLAPS

\* A page asks once. The handler builds its statuses from the request, and starts
\* the lambda last.
Announced == {"combined", "docs", "invoke", "mediaFailed", "reply"}
BeforeInvoke == {"idle", "get", "announce", "combined", "docs", "invoke"}

HandlerKeepsRequest ==
    \A p \in Pages :
        /\ page[p] = "ready" => api[p] = "idle"
        /\ api[p] \in Announced => DOMAIN doing[p] = request[p]
        /\ api[p] \in BeforeInvoke => media[p] = "none"

\* Lambda counts every run, and a run uploads at most once.
RunsAreCounted ==
    \A p \in Pages :
        /\ copies[p] <= runs[p]
        /\ media[p] = "none" => runs[p] = 0
        /\ media[p] = "queued" => runs[p] < MaxRuns
        /\ media[p] = "exporting" => copies[p] < runs[p]
        /\ media[p] = "recording" => result[p] # "none"

\* Wherever a status is kept, its success has a file.
EverySuccessIsReal ==
    /\ Real(statuses) /\ Real(previous)
    /\ \A p \in Pages : Real(shown[p]) /\ Real(doing[p]) /\ Real(seen[p])
    /\ \A p \in Pages :
          media[p] = "recording" /\ result[p] = "success" =>
              [by |-> p, type |-> Media] \in drive

IInv == TypeOK /\ HandlerKeepsRequest /\ RunsAreCounted /\ EverySuccessIsReal

----------------------------------------------------------------------------
(* Statuses.                                                                *)

LEMMA StatusesIntro ==
    ASSUME NEW S \in SUBSET Exports, NEW f \in [S -> Status]
    PROVE  f \in Statuses
BY DEF Statuses

LEMMA StatusesElim ==
    ASSUME NEW s \in Statuses
    PROVE  DOMAIN s \in SUBSET Exports /\ s \in [DOMAIN s -> Status]
BY DEF Statuses

LEMMA NoStatusesType == NoStatuses \in Statuses
<1>1. NoStatuses \in [{} -> Status]
  BY DEF NoStatuses
<1> QED BY <1>1, StatusesIntro

LEMMA SetType ==
    ASSUME NEW p \in Pages, NEW state \in {"in-progress", "success", "failure"}
    PROVE  Set(p, state) \in Status
BY DEF Set, Status

LEMMA InitialisedType ==
    ASSUME NEW p \in Pages, NEW S \in SUBSET Exports
    PROVE  Initialised(p, S) \in Statuses /\ DOMAIN Initialised(p, S) = S
<1>1. Initialised(p, S) \in [S -> Status]
  BY SetType DEF Initialised
<1> QED BY <1>1, StatusesIntro

\* Replacing an entry keeps the list of export types.
LEMMA UpdatedType ==
    ASSUME NEW s \in Statuses, NEW t, NEW new \in Status
    PROVE  Updated(s, t, new) \in Statuses /\ DOMAIN Updated(s, t, new) = DOMAIN s
<1>1. Updated(s, t, new) \in [DOMAIN s -> Status]
  BY StatusesElim DEF Updated
<1> QED BY <1>1, StatusesElim, StatusesIntro

\* What a read returns is the last value written or, if stale, the one before.
LEMMA ReadableValues == \A s \in Readable : s = statuses \/ s = previous
BY DEF Readable

LEMMA VerdictType == \A s : Verdict(s) \in {"stuck", "polling", "partial", "success"}
BY DEF Verdict

----------------------------------------------------------------------------
LEMMA InitInvariant ==
    ASSUME Init
    PROVE  IInv
<1> USE DEF Init
<1>1. TypeOK
  BY ConstantsAssumption, NoStatusesType DEF ConstantsAssumption, TypeOK, Handling, Ended
<1>2. HandlerKeepsRequest
  BY DEF HandlerKeepsRequest, Announced
<1>3. RunsAreCounted
  <2> USE DEF RunsAreCounted
  <2> TAKE p \in Pages
  <2>1. copies[p] = 0 /\ runs[p] = 0 /\ media[p] = "none"
    OBVIOUS
  <2> QED BY <2>1
<1>4. EverySuccessIsReal
  BY DEF EverySuccessIsReal, Real, NoStatuses
<1> QED BY <1>1, <1>2, <1>3, <1>4 DEF IInv

----------------------------------------------------------------------------
(* Every step keeps the types and the counts.                               *)

LEMMA HandlerStep ==
    ASSUME TypeOK, HandlerKeepsRequest, [Next]_vars
    PROVE  HandlerKeepsRequest'
<1> USE DEF TypeOK, HandlerKeepsRequest, Announced, BeforeInvoke
<1>1. CASE UNCHANGED vars
  BY <1>1 DEF vars, itemVars, driveVars, pageVars, apiVars, mediaVars
<1>2. CASE RepeatOutput
  BY <1>2, NoStatusesType DEF RepeatOutput, Write, itemVars, driveVars, pageVars, apiVars, mediaVars
<1>3. ASSUME NEW p \in Pages, Request(p)
      PROVE  HandlerKeepsRequest'
  BY <1>3 DEF Request, itemVars, driveVars, pageVars, apiVars, mediaVars, Write
<1>4. ASSUME NEW p \in Pages, Poll(p)
      PROVE  HandlerKeepsRequest'
  BY <1>4, VerdictType DEF Poll, itemVars, driveVars, pageVars, apiVars, mediaVars, Write
<1>4a. ASSUME NEW p \in Pages, PollFails(p)
      PROVE  HandlerKeepsRequest'
  BY <1>4a DEF PollFails, itemVars, driveVars, apiVars, mediaVars
<1>5. ASSUME NEW p \in Pages, GatewayTimeout(p)
      PROVE  HandlerKeepsRequest'
  BY <1>5 DEF GatewayTimeout, itemVars, driveVars, pageVars, apiVars, mediaVars, Write
<1>6. ASSUME NEW p \in Pages, GetItem(p)
      PROVE  HandlerKeepsRequest'
  BY <1>6 DEF GetItem, itemVars, driveVars, pageVars, apiVars, mediaVars, Write
<1>7. ASSUME NEW p \in Pages, Announce(p)
      PROVE  HandlerKeepsRequest'
  BY <1>7, InitialisedType DEF Announce, Write, itemVars, driveVars, pageVars, apiVars, mediaVars
<1>8. ASSUME NEW p \in Pages, CombinedOutput(p)
      PROVE  HandlerKeepsRequest'
  BY <1>8 DEF CombinedOutput, itemVars, driveVars, pageVars, apiVars, mediaVars, Write
<1>9. ASSUME NEW p \in Pages, NEW d \in Docs, ExportDoc(p, d)
      PROVE  HandlerKeepsRequest'
  BY <1>9 DEF ExportDoc, itemVars, driveVars, pageVars, apiVars, mediaVars
<1>10. ASSUME NEW p \in Pages, RecordDocs(p)
      PROVE  HandlerKeepsRequest'
  BY <1>10 DEF RecordDocs, itemVars, driveVars, pageVars, apiVars, mediaVars, Write
<1>11. ASSUME NEW p \in Pages, Invoke(p)
      PROVE  HandlerKeepsRequest'
  BY <1>11 DEF Invoke, itemVars, driveVars, pageVars, apiVars, mediaVars, Write
<1>12. ASSUME NEW p \in Pages, RecordMediaFailure(p)
      PROVE  HandlerKeepsRequest'
  BY <1>12, UpdatedType, SetType DEF RecordMediaFailure, RecordMediaFailureIn, Write, itemVars, driveVars, pageVars, apiVars, mediaVars
<1>13. ASSUME NEW p \in Pages, Reply(p)
      PROVE  HandlerKeepsRequest'
  BY <1>13 DEF Reply, HandlerEnds, itemVars, driveVars, pageVars, apiVars, mediaVars, Write
<1>14. ASSUME NEW p \in Pages, ApiFails(p)
      PROVE  HandlerKeepsRequest'
  BY <1>14 DEF ApiFails, HandlerEnds, Handling, itemVars, driveVars, pageVars, apiVars, mediaVars
<1>15. ASSUME NEW p \in Pages, MediaStart(p)
      PROVE  HandlerKeepsRequest'
  BY <1>15 DEF MediaStart, itemVars, driveVars, pageVars, apiVars, mediaVars, Write
<1>16. ASSUME NEW p \in Pages, MediaExport(p)
      PROVE  HandlerKeepsRequest'
  BY <1>16 DEF MediaExport, itemVars, driveVars, pageVars, apiVars, mediaVars, Write
<1>17. ASSUME NEW p \in Pages, MediaRecord(p)
      PROVE  HandlerKeepsRequest'
  BY <1>17 DEF MediaRecord, Rerun, RunEnds, Write, itemVars, driveVars, pageVars, apiVars, mediaVars
<1>18. ASSUME NEW p \in Pages, MediaThrows(p)
      PROVE  HandlerKeepsRequest'
  BY <1>18 DEF MediaThrows, Rerun, RunEnds, itemVars, driveVars, pageVars, apiVars, mediaVars
<1> QED
  BY <1>1, <1>2, <1>3, <1>4, <1>4a, <1>5, <1>6, <1>7, <1>8, <1>9, <1>10, <1>11,
     <1>12, <1>13, <1>14, <1>15, <1>16, <1>17, <1>18
  DEF Next, ApiStep, MediaStep

LEMMA CountStep ==
    ASSUME TypeOK, HandlerKeepsRequest, RunsAreCounted, [Next]_vars
    PROVE  RunsAreCounted'
<1> USE ConstantsAssumption DEF ConstantsAssumption, TypeOK, HandlerKeepsRequest, RunsAreCounted, BeforeInvoke
<1>1. CASE UNCHANGED vars
  BY <1>1 DEF vars, itemVars, driveVars, pageVars, apiVars, mediaVars
<1>2. CASE RepeatOutput
  BY <1>2, NoStatusesType DEF RepeatOutput, Write, itemVars, driveVars, pageVars, apiVars, mediaVars
<1>3. ASSUME NEW p \in Pages, Request(p)
      PROVE  RunsAreCounted'
  BY <1>3 DEF Request, itemVars, driveVars, pageVars, apiVars, mediaVars, Write
<1>4. ASSUME NEW p \in Pages, Poll(p)
      PROVE  RunsAreCounted'
  BY <1>4 DEF Poll, itemVars, driveVars, pageVars, apiVars, mediaVars, Write
<1>4a. ASSUME NEW p \in Pages, PollFails(p)
      PROVE  RunsAreCounted'
  BY <1>4a DEF PollFails, itemVars, driveVars, apiVars, mediaVars
<1>5. ASSUME NEW p \in Pages, GatewayTimeout(p)
      PROVE  RunsAreCounted'
  BY <1>5 DEF GatewayTimeout, itemVars, driveVars, pageVars, apiVars, mediaVars, Write
<1>6. ASSUME NEW p \in Pages, GetItem(p)
      PROVE  RunsAreCounted'
  BY <1>6 DEF GetItem, itemVars, driveVars, pageVars, apiVars, mediaVars, Write
<1>7. ASSUME NEW p \in Pages, Announce(p)
      PROVE  RunsAreCounted'
  BY <1>7 DEF Announce, itemVars, driveVars, pageVars, apiVars, mediaVars, Write
<1>8. ASSUME NEW p \in Pages, CombinedOutput(p)
      PROVE  RunsAreCounted'
  BY <1>8 DEF CombinedOutput, itemVars, driveVars, pageVars, apiVars, mediaVars, Write
<1>9. ASSUME NEW p \in Pages, NEW d \in Docs, ExportDoc(p, d)
      PROVE  RunsAreCounted'
  BY <1>9 DEF ExportDoc, itemVars, driveVars, pageVars, apiVars, mediaVars, Write
<1>10. ASSUME NEW p \in Pages, RecordDocs(p)
      PROVE  RunsAreCounted'
  BY <1>10 DEF RecordDocs, itemVars, driveVars, pageVars, apiVars, mediaVars, Write
<1>11. ASSUME NEW p \in Pages, Invoke(p)
      PROVE  RunsAreCounted'
  BY <1>11 DEF Invoke, itemVars, driveVars, pageVars, apiVars, mediaVars, Write
<1>12. ASSUME NEW p \in Pages, RecordMediaFailure(p)
      PROVE  RunsAreCounted'
  BY <1>12 DEF RecordMediaFailure, RecordMediaFailureIn, Write, itemVars, driveVars, pageVars, apiVars, mediaVars
<1>13. ASSUME NEW p \in Pages, Reply(p)
      PROVE  RunsAreCounted'
  BY <1>13 DEF Reply, HandlerEnds, itemVars, driveVars, pageVars, apiVars, mediaVars, Write
<1>14. ASSUME NEW p \in Pages, ApiFails(p)
      PROVE  RunsAreCounted'
  BY <1>14 DEF ApiFails, HandlerEnds, itemVars, driveVars, pageVars, apiVars, mediaVars, Write
<1>15. ASSUME NEW p \in Pages, MediaStart(p)
      PROVE  RunsAreCounted'
  BY <1>15 DEF MediaStart, itemVars, driveVars, pageVars, apiVars, mediaVars, Write
<1>16. ASSUME NEW p \in Pages, MediaExport(p)
      PROVE  RunsAreCounted'
  BY <1>16 DEF MediaExport, itemVars, driveVars, pageVars, apiVars, mediaVars, Write
<1>17. ASSUME NEW p \in Pages, MediaRecord(p)
      PROVE  RunsAreCounted'
  BY <1>17 DEF MediaRecord, Rerun, RunEnds, Write, itemVars, driveVars, pageVars, apiVars, mediaVars
<1>18. ASSUME NEW p \in Pages, MediaThrows(p)
      PROVE  RunsAreCounted'
  BY <1>18 DEF MediaThrows, Rerun, RunEnds, itemVars, driveVars, pageVars, apiVars, mediaVars
<1> QED
  BY <1>1, <1>2, <1>3, <1>4, <1>4a, <1>5, <1>6, <1>7, <1>8, <1>9, <1>10, <1>11,
     <1>12, <1>13, <1>14, <1>15, <1>16, <1>17, <1>18
  DEF Next, ApiStep, MediaStep

LEMMA TypeStep ==
    ASSUME IInv, [Next]_vars
    PROVE  TypeOK'
<1> USE ConstantsAssumption DEF ConstantsAssumption, IInv, TypeOK, Ended, Handling
<1>1. CASE UNCHANGED vars
  BY <1>1 DEF vars, itemVars, driveVars, pageVars, apiVars, mediaVars
<1>2. CASE RepeatOutput
  BY <1>2, NoStatusesType DEF RepeatOutput, Write, itemVars, driveVars, pageVars, apiVars, mediaVars, Write
<1>3. ASSUME NEW p \in Pages, Request(p)
      PROVE  TypeOK'
  BY <1>3, InitialisedType DEF Request, Exports, itemVars, driveVars, pageVars, apiVars, mediaVars
<1>4. ASSUME NEW p \in Pages, Poll(p)
      PROVE  TypeOK'
  BY <1>4, VerdictType, ReadableValues DEF Poll, itemVars, driveVars, pageVars, apiVars, mediaVars
<1>4a. ASSUME NEW p \in Pages, PollFails(p)
      PROVE  TypeOK'
  BY <1>4a DEF PollFails, itemVars, driveVars, apiVars, mediaVars
<1>5. ASSUME NEW p \in Pages, GatewayTimeout(p)
      PROVE  TypeOK'
  BY <1>5 DEF GatewayTimeout, itemVars, driveVars, pageVars, apiVars, mediaVars, Write
<1>6. ASSUME NEW p \in Pages, GetItem(p)
      PROVE  TypeOK'
  BY <1>6 DEF GetItem, itemVars, driveVars, pageVars, apiVars, mediaVars, Write
<1>7. ASSUME NEW p \in Pages, Announce(p)
      PROVE  TypeOK'
  BY <1>7, InitialisedType DEF Announce, Write, itemVars, driveVars, pageVars, apiVars, mediaVars
<1>8. ASSUME NEW p \in Pages, CombinedOutput(p)
      PROVE  TypeOK'
  <2>1. DOMAIN doing[p] \in SUBSET Exports /\ doing[p] \in [DOMAIN doing[p] -> Status]
    BY StatusesElim
  <2> DEFINE failed == [t \in DOMAIN doing[p] |->
                          IF t \in Docs THEN Set(p, "failure") ELSE doing[p][t]]
  <2>2. failed \in [DOMAIN doing[p] -> Status]
    BY <2>1, SetType
  <2>3. failed \in Statuses
    BY <2>1, <2>2, StatusesIntro
  <2>4. doing' = doing \/ doing' = [doing EXCEPT ![p] = failed]
    BY <1>8 DEF CombinedOutput
  <2> HIDE DEF failed
  <2>5. doing' \in [Pages -> Statuses]
    BY <2>3, <2>4
  <2> QED
    BY <1>8, <2>5 DEF CombinedOutput, itemVars, driveVars, pageVars, apiVars, mediaVars
<1>9. ASSUME NEW p \in Pages, NEW d \in Docs, ExportDoc(p, d)
      PROVE  TypeOK'
  <2>1. DOMAIN doing[p] \in SUBSET Exports /\ doing[p] \in [DOMAIN doing[p] -> Status]
    BY StatusesElim
  <2>2. PICK state \in {"success", "failure"} :
           doing' = [doing EXCEPT ![p][d] = Set(p, state)]
    BY <1>9 DEF ExportDoc
  <2>3. [doing[p] EXCEPT ![d] = Set(p, state)] \in Statuses
    BY <2>1, SetType, StatusesIntro
  <2>4. doing' \in [Pages -> Statuses]
    BY <2>2, <2>3
  <2>5. drive' \subseteq Files
    BY <1>9 DEF ExportDoc, Files, Exports
  <2> QED
    BY <1>9, <2>4, <2>5 DEF ExportDoc, itemVars, driveVars, pageVars, apiVars, mediaVars
<1>10. ASSUME NEW p \in Pages, RecordDocs(p)
      PROVE  TypeOK'
  BY <1>10 DEF RecordDocs, itemVars, driveVars, pageVars, apiVars, mediaVars, Write
<1>11. ASSUME NEW p \in Pages, Invoke(p)
      PROVE  TypeOK'
  BY <1>11 DEF Invoke, itemVars, driveVars, pageVars, apiVars, mediaVars, Write
<1>12. ASSUME NEW p \in Pages, RecordMediaFailure(p)
      PROVE  TypeOK'
  BY <1>12, UpdatedType, SetType DEF RecordMediaFailure, RecordMediaFailureIn, Write, itemVars, driveVars, pageVars, apiVars, mediaVars
<1>13. ASSUME NEW p \in Pages, Reply(p)
      PROVE  TypeOK'
  BY <1>13, NoStatusesType DEF Reply, HandlerEnds, itemVars, driveVars, pageVars, apiVars, mediaVars, Write
<1>14. ASSUME NEW p \in Pages, ApiFails(p)
      PROVE  TypeOK'
  BY <1>14, NoStatusesType DEF ApiFails, HandlerEnds, itemVars, driveVars, pageVars, apiVars, mediaVars, Write
<1>15. ASSUME NEW p \in Pages, MediaStart(p)
      PROVE  TypeOK'
  BY <1>15, ReadableValues DEF MediaStart, RunsAreCounted, itemVars, driveVars, pageVars, apiVars, mediaVars
<1>16. ASSUME NEW p \in Pages, MediaExport(p)
      PROVE  TypeOK'
  BY <1>16 DEF MediaExport, RunsAreCounted, Files, Exports, itemVars, driveVars, pageVars, apiVars, mediaVars
<1>17. ASSUME NEW p \in Pages, MediaRecord(p)
      PROVE  TypeOK'
  <2>1. media' \in [Pages -> {"none", "queued", "exporting", "recording", "done"}]
    BY <1>17 DEF MediaRecord, Rerun, RunEnds
  <2>2. statuses' \in Statuses /\ previous' \in Statuses
    <3>1. CASE seen[p] = NoStatuses
      BY <1>17, <3>1 DEF MediaRecord, itemVars
    <3>2. CASE seen[p] # NoStatuses
      <4>1. result[p] \in {"success", "failure"}
        BY <1>17 DEF MediaRecord, RunsAreCounted
      <4>2. Set(p, result[p]) \in Status
        BY <4>1, SetType
      <4>3. Updated(seen[p], Media, Set(p, result[p])) \in Statuses
        BY <4>2, UpdatedType
      <4> QED
        BY <1>17, <3>2, <4>3 DEF MediaRecord, Write
    <3> QED BY <3>1, <3>2
  <2> QED
    BY <1>17, <2>1, <2>2, NoStatusesType DEF MediaRecord, Rerun, RunEnds, driveVars, pageVars, apiVars
<1>18. ASSUME NEW p \in Pages, MediaThrows(p)
      PROVE  TypeOK'
  BY <1>18, NoStatusesType DEF MediaThrows, Rerun, RunEnds, itemVars, driveVars, pageVars, apiVars, mediaVars
<1> QED
  BY <1>1, <1>2, <1>3, <1>4, <1>4a, <1>5, <1>6, <1>7, <1>8, <1>9, <1>10, <1>11,
     <1>12, <1>13, <1>14, <1>15, <1>16, <1>17, <1>18
  DEF Next, ApiStep, MediaStep

----------------------------------------------------------------------------
(* Success: a file never leaves the Drive, so a real status stays real.     *)

Backed(s, D) ==
    \A t \in DOMAIN s : s[t].state = "success" => [by |-> s[t].by, type |-> t] \in D

LEMMA RealIsBacked ==
    /\ \A s : Real(s) <=> Backed(s, drive)
    /\ \A s : Real(s)' <=> Backed(s, drive')
BY DEF Real, Backed

\* What is announced and what is marked as failed claims no success.
LEMMA InitialisedBacked ==
    \A p, S, D : Backed(Initialised(p, S), D)
BY DEF Initialised, Set, Backed

LEMMA UpdatedBacked ==
    ASSUME NEW s, NEW D, NEW t, NEW p, NEW state,
           Backed(s, D), state = "success" => [by |-> p, type |-> t] \in D
    PROVE  Backed(Updated(s, t, Set(p, state)), D)
BY DEF Updated, Set, Backed

Uploaded(D) ==
    \A p \in Pages :
        media[p] = "recording" /\ result[p] = "success" => [by |-> p, type |-> Media] \in D

LEMMA DriveGrows ==
    ASSUME [Next]_vars
    PROVE  drive \subseteq drive'
<1> USE DEF vars, itemVars, driveVars, pageVars, apiVars, mediaVars
<1>1. ASSUME NEW p \in Pages, NEW d \in Docs, ExportDoc(p, d)
      PROVE  drive \subseteq drive'
  BY <1>1 DEF ExportDoc
<1>2. ASSUME NEW p \in Pages, MediaExport(p)
      PROVE  drive \subseteq drive'
  BY <1>2 DEF MediaExport
<1>3. ASSUME NEW p \in Pages,
             \/ Request(p) \/ Poll(p) \/ PollFails(p) \/ GatewayTimeout(p) \/ GetItem(p)
             \/ Announce(p) \/ CombinedOutput(p) \/ RecordDocs(p) \/ Invoke(p)
             \/ RecordMediaFailure(p) \/ Reply(p) \/ ApiFails(p) \/ MediaStart(p)
             \/ MediaRecord(p) \/ MediaThrows(p)
      PROVE  drive' = drive
  BY <1>3 DEF Request, Poll, PollFails, GatewayTimeout, GetItem, Announce, CombinedOutput,
     RecordDocs, Invoke, RecordMediaFailure, RecordMediaFailureIn, Reply, ApiFails,
     MediaStart, MediaRecord, MediaThrows
<1>4. CASE RepeatOutput
  BY <1>4 DEF RepeatOutput
<1>5. CASE UNCHANGED vars
  BY <1>5
<1> QED
  BY <1>1, <1>2, <1>3, <1>4, <1>5 DEF Next, ApiStep, MediaStep

\* With the files of before the step, what was real is real; the steps that claim
\* a new success put the file there first.
LEMMA RealStep ==
    ASSUME IInv, [Next]_vars
    PROVE  EverySuccessIsReal'
<1> DEFINE Carried(s) == Backed(s, drive')
<1>1. /\ Carried(statuses) /\ Carried(previous) /\ Carried(NoStatuses)
      /\ \A p \in Pages : Carried(shown[p]) /\ Carried(doing[p]) /\ Carried(seen[p])
      /\ Uploaded(drive')
  BY DriveGrows, RealIsBacked DEF IInv, EverySuccessIsReal, Backed, NoStatuses, Uploaded
<1>2. SUFFICES
        /\ Carried(statuses') /\ Carried(previous')
        /\ \A q \in Pages : Carried(shown'[q]) /\ Carried(doing'[q]) /\ Carried(seen'[q])
        /\ Uploaded(drive)'
  BY RealIsBacked DEF EverySuccessIsReal, Backed, Real, Uploaded
<1>3. TypeOK
  BY DEF IInv
<1>4. \A p, S : Carried(Initialised(p, S))
  BY InitialisedBacked
<1> HIDE DEF Carried
<1> DEFINE Goal ==
        /\ Carried(statuses') /\ Carried(previous')
        /\ \A q \in Pages : Carried(shown'[q]) /\ Carried(doing'[q]) /\ Carried(seen'[q])
        /\ Uploaded(drive)'
<1> USE <1>1, <1>3 DEF TypeOK, Uploaded, Write, itemVars, driveVars, pageVars, apiVars, mediaVars
<1>5. CASE UNCHANGED vars
  BY <1>5 DEF vars
<1>6. CASE RepeatOutput
  BY <1>6 DEF RepeatOutput
<1>7. ASSUME NEW p \in Pages, Request(p)
      PROVE  Goal
  BY <1>7, <1>4 DEF Request
<1>8. ASSUME NEW p \in Pages, Poll(p)
      PROVE  Goal
  BY <1>8, ReadableValues DEF Poll
<1>8a. ASSUME NEW p \in Pages, PollFails(p)
      PROVE  Goal
  BY <1>8a DEF PollFails
<1>9. ASSUME NEW p \in Pages, GatewayTimeout(p)
      PROVE  Goal
  BY <1>9 DEF GatewayTimeout
<1>10. ASSUME NEW p \in Pages, GetItem(p)
      PROVE  Goal
  BY <1>10 DEF GetItem
<1>11. ASSUME NEW p \in Pages, Announce(p)
      PROVE  Goal
  BY <1>11, <1>4 DEF Announce
<1>12. ASSUME NEW p \in Pages, CombinedOutput(p)
      PROVE  Goal
  <2> DEFINE failed == [t \in DOMAIN doing[p] |->
                          IF t \in Docs THEN Set(p, "failure") ELSE doing[p][t]]
  <2>1. Carried(failed)
    BY DEF Carried, Backed, Set
  <2>2. doing' = doing \/ doing' = [doing EXCEPT ![p] = failed]
    BY <1>12 DEF CombinedOutput
  <2> HIDE DEF failed
  <2>3. \A q \in Pages : Carried(doing'[q])
    BY <2>1, <2>2
  <2> QED
    BY <1>12, <2>3 DEF CombinedOutput
<1>13. ASSUME NEW p \in Pages, NEW d \in Docs, ExportDoc(p, d)
      PROVE  Goal
  <2>1. PICK state \in {"success", "failure"} :
           /\ doing' = [doing EXCEPT ![p][d] = Set(p, state)]
           /\ state = "success" => [by |-> p, type |-> d] \in drive'
    BY <1>13 DEF ExportDoc
  <2> DEFINE done == [doing[p] EXCEPT ![d] = Set(p, state)]
  <2>2. Carried(done)
    BY <2>1 DEF Carried, Backed, Set
  <2>3. doing' = [doing EXCEPT ![p] = done]
    BY <2>1
  <2> HIDE DEF done
  <2>4. \A q \in Pages : Carried(doing'[q])
    BY <2>2, <2>3
  <2> QED
    BY <1>13, <2>4, DriveGrows DEF ExportDoc
<1>14. ASSUME NEW p \in Pages, RecordDocs(p)
      PROVE  Goal
  BY <1>14 DEF RecordDocs
<1>15. ASSUME NEW p \in Pages, Invoke(p)
      PROVE  Goal
  BY <1>15 DEF Invoke
<1>16. ASSUME NEW p \in Pages, RecordMediaFailure(p)
      PROVE  Goal
  <2>1. Carried(Updated(doing[p], Media, Set(p, "failure")))
    BY UpdatedBacked DEF Carried
  <2> QED
    BY <1>16, <2>1 DEF RecordMediaFailure, RecordMediaFailureIn
<1>17. ASSUME NEW p \in Pages, Reply(p)
      PROVE  Goal
  BY <1>17 DEF Reply, HandlerEnds
<1>18. ASSUME NEW p \in Pages, ApiFails(p)
      PROVE  Goal
  BY <1>18 DEF ApiFails, HandlerEnds
<1>19. ASSUME NEW p \in Pages, MediaStart(p)
      PROVE  Goal
  BY <1>19, ReadableValues DEF MediaStart
<1>20. ASSUME NEW p \in Pages, MediaExport(p)
      PROVE  Goal
  <2>1. Uploaded(drive)'
    BY <1>20, DriveGrows DEF MediaExport
  <2> QED
    BY <1>20, <2>1 DEF MediaExport
<1>21. ASSUME NEW p \in Pages, MediaRecord(p)
      PROVE  Goal
  <2>1. Carried(Updated(seen[p], Media, Set(p, result[p])))
    BY <1>21, UpdatedBacked DEF Carried, MediaRecord
  <2>2. Carried(statuses') /\ Carried(previous')
    BY <1>21, <2>1 DEF MediaRecord
  <2> QED
    BY <1>21, <2>2 DEF MediaRecord, Rerun, RunEnds
<1>22. ASSUME NEW p \in Pages, MediaThrows(p)
      PROVE  Goal
  BY <1>22 DEF MediaThrows, Rerun, RunEnds
<1> QED
  BY <1>2, <1>5, <1>6, <1>7, <1>8, <1>8a, <1>9, <1>10, <1>11, <1>12, <1>13,
     <1>14, <1>15, <1>16, <1>17, <1>18, <1>19, <1>20, <1>21, <1>22
  DEF Next, ApiStep, MediaStep

----------------------------------------------------------------------------
\* IInv is an inductive invariant of Export.
THEOREM Invariance == Spec => []IInv
<1>1. IInv /\ [Next]_vars => IInv'
  <2> SUFFICES ASSUME IInv, [Next]_vars
               PROVE  IInv'
    OBVIOUS
  <2>1. TypeOK'
    BY TypeStep
  <2>2. HandlerKeepsRequest' /\ RunsAreCounted'
    BY HandlerStep, CountStep DEF IInv
  <2> QED
    BY <2>1, <2>2, RealStep DEF IInv
<1> QED
  BY InitInvariant, <1>1, PTL DEF Spec

\* However often Lambda runs an invocation, every variable keeps its type; a run
\* uploads the media at most once.
THEOREM TypeCorrect == Spec => []TypeOK
BY Invariance, PTL DEF IInv

\* For any number of pages, documents and runs, and every mix of faults: a
\* success that is recorded or shown has its file on the Drive.
THEOREM SuccessesAreReal == Spec => []SuccessIsOnDrive
<1>1. IInv => SuccessIsOnDrive
  BY DEF IInv, EverySuccessIsReal, SuccessIsOnDrive
<1> QED
  BY Invariance, <1>1, PTL

----------------------------------------------------------------------------
(* What one page can count on. Some results hold for one tab only, or while *)
(* Lambda runs an invocation once.                                          *)

Seeing == {"exporting", "recording"}

LEMMA NoStatusesDomain ==
    /\ DOMAIN NoStatuses = {}
    /\ \A s \in Statuses : DOMAIN s = {} => s = NoStatuses
<1>1. DOMAIN NoStatuses = {}
  BY DEF NoStatuses
<1>2. ASSUME NEW s \in Statuses, DOMAIN s = {} PROVE s = NoStatuses
  <2>1. s = [t \in DOMAIN s |-> s[t]]
    BY StatusesElim
  <2> QED BY <1>2, <2>1 DEF NoStatuses
<1> QED BY <1>1, <1>2

LEMMA InitialisedDomain ==
    \A p, S : /\ DOMAIN Initialised(p, S) = S
              /\ \A t \in S : Initialised(p, S)[t].state = "in-progress"
BY DEF Initialised, Set

LEMMA UpdatedEntries ==
    \A s, t, new : /\ DOMAIN Updated(s, t, new) = DOMAIN s
                   /\ \A u \in DOMAIN s \ {t} : Updated(s, t, new)[u] = s[u]
BY DEF Updated

\* The steps that neither write the item nor touch a lambda or a handler.
LEMMA PageSteps ==
    ASSUME NEW p \in Pages, Poll(p) \/ PollFails(p) \/ GatewayTimeout(p)
    PROVE  UNCHANGED <<itemVars, driveVars, request, apiVars, mediaVars>>
BY DEF Poll, PollFails, GatewayTimeout

----------------------------------------------------------------------------
(* One upload. A lambda that is not run again finds exportStatuses, because  *)
(* the handler wrote them twice before it started the lambda.               *)

Invoking == {"invoke", "mediaFailed", "reply"}

CopyInv ==
    \A p \in Pages :
        /\ api[p] \in {"get", "announce"} \cup Announced => request[p] # {}
        /\ api[p] \in Announced => DOMAIN statuses # {}
        /\ api[p] \in Invoking \/ media[p] # "none" =>
              DOMAIN statuses # {} /\ DOMAIN previous # {}
        /\ media[p] \in Seeing => DOMAIN seen[p] # {}
        /\ media[p] \in {"none", "queued", "exporting"} => copies[p] = 0
        /\ copies[p] <= 1

LEMMA InitCopyInv == Init => CopyInv
<1> SUFFICES ASSUME Init PROVE CopyInv
  OBVIOUS
<1> USE DEF CopyInv
<1> TAKE p \in Pages
<1>1. api[p] = "idle" /\ media[p] = "none" /\ copies[p] = 0
  BY DEF Init
<1>2. /\ api[p] \notin {"get", "announce"} \cup Announced /\ api[p] \notin Announced
      /\ api[p] \notin Invoking /\ media[p] \notin Seeing
  BY <1>1 DEF Announced, Invoking, Seeing
<1>3. copies[p] <= 1
  BY <1>1
<1> QED BY <1>1, <1>2, <1>3

LEMMA CopyStep ==
    ASSUME "media" \notin Faults, "repeat" \notin Faults, IInv, CopyInv, [Next]_vars
    PROVE  CopyInv'
<1> USE DEF IInv, TypeOK, HandlerKeepsRequest, BeforeInvoke, CopyInv, Announced, Invoking,
        Seeing, Write, itemVars, driveVars, pageVars, apiVars, mediaVars
<1>1. CASE UNCHANGED vars
  BY <1>1 DEF vars
<1>2. ASSUME NEW p \in Pages, Request(p)
      PROVE  CopyInv'
  BY <1>2, ConstantsAssumption DEF Request, ConstantsAssumption
<1>3. ASSUME NEW p \in Pages, Poll(p) \/ PollFails(p) \/ GatewayTimeout(p)
      PROVE  CopyInv'
  BY <1>3, PageSteps
<1>4. ASSUME NEW p \in Pages, GetItem(p)
      PROVE  CopyInv'
  BY <1>4 DEF GetItem
<1>5. ASSUME NEW p \in Pages, Announce(p)
      PROVE  CopyInv'
  BY <1>5, InitialisedDomain DEF Announce
<1>6. ASSUME NEW p \in Pages, CombinedOutput(p)
      PROVE  CopyInv'
  BY <1>6 DEF CombinedOutput
<1>7. ASSUME NEW p \in Pages, NEW d \in Docs, ExportDoc(p, d)
      PROVE  CopyInv'
  BY <1>7 DEF ExportDoc
<1>8. ASSUME NEW p \in Pages, RecordDocs(p)
      PROVE  CopyInv'
  BY <1>8 DEF RecordDocs
<1>9. ASSUME NEW p \in Pages, Invoke(p)
      PROVE  CopyInv'
  BY <1>9 DEF Invoke
<1>10. ASSUME NEW p \in Pages, RecordMediaFailure(p)
      PROVE  CopyInv'
  BY <1>10, UpdatedEntries DEF RecordMediaFailure, RecordMediaFailureIn
<1>11. ASSUME NEW p \in Pages, Reply(p)
      PROVE  CopyInv'
  BY <1>11 DEF Reply, HandlerEnds
<1>12. ASSUME NEW p \in Pages, ApiFails(p)
      PROVE  CopyInv'
  BY <1>12 DEF ApiFails, HandlerEnds
<1>13. ASSUME NEW p \in Pages, MediaStart(p)
      PROVE  CopyInv'
  BY <1>13, ReadableValues DEF MediaStart
<1>14. ASSUME NEW p \in Pages, MediaExport(p)
      PROVE  CopyInv'
  BY <1>14 DEF MediaExport
<1>15. ASSUME NEW p \in Pages, MediaRecord(p)
      PROVE  CopyInv'
  <2>1. seen[p] # NoStatuses
    BY <1>15, NoStatusesDomain DEF MediaRecord
  <2>2. /\ media[p] = "recording"
        /\ statuses' = Updated(seen[p], Media, Set(p, result[p])) /\ previous' = statuses
        /\ RunEnds(p, "done") /\ UNCHANGED <<driveVars, pageVars, apiVars, runs>>
    BY <1>15, <2>1 DEF MediaRecord
  <2>3. DOMAIN statuses' # {} /\ DOMAIN previous' # {}
    BY <2>2, UpdatedEntries
  <2> QED BY <2>2, <2>3 DEF RunEnds
<1> QED
  BY <1>1, <1>2, <1>3, <1>4, <1>5, <1>6, <1>7, <1>8, <1>9, <1>10, <1>11, <1>12,
     <1>13, <1>14, <1>15
  DEF Next, ApiStep, MediaStep, RepeatOutput, MediaThrows

\* While Lambda does not run an invocation again and no success message is handled
\* again, each export uploads the media at most once: for any number of tabs, with
\* stale reads, and with invocations that are reported as failed.
THEOREM MediaUploadedOnce ==
    ASSUME "media" \notin Faults, "repeat" \notin Faults
    PROVE  Spec => []MediaIsCopiedOnce
<1>1. CopyInv => MediaIsCopiedOnce
  BY DEF CopyInv, MediaIsCopiedOnce
<1>2. Spec => []CopyInv
  BY InitCopyInv, CopyStep, Invariance, PTL DEF Spec
<1> QED BY <1>1, <1>2, PTL

----------------------------------------------------------------------------
(* One tab. Then every list of statuses is one of its own request.          *)

Fits(s, p) == DOMAIN s = {} \/ DOMAIN s = request[p]

OwnStatuses ==
    \A p \in Pages :
        /\ Fits(statuses, p) /\ Fits(previous, p) /\ Fits(seen[p], p)
        /\ page[p] = "ready" => /\ DOMAIN statuses = {} /\ DOMAIN previous = {}
                                /\ DOMAIN seen[p] = {}
        /\ page[p] = "success" => \A t \in request[p] : [by |-> p, type |-> t] \in drive

OnePage == \A p, q \in Pages : p = q

LEMMA InitOwnStatuses == Init => OwnStatuses
BY NoStatusesDomain DEF Init, OwnStatuses, Fits

\* A list without failures, and with nothing in progress, is one of successes.
LEMMA SuccessVerdict ==
    ASSUME NEW s \in Statuses, Verdict(s) = "success"
    PROVE  s # NoStatuses /\ \A t \in DOMAIN s : s[t].state = "success"
<1>1. s # NoStatuses /\ "in-progress" \notin States(s) /\ "failure" \notin States(s)
  BY DEF Verdict
<1>2. \A t \in DOMAIN s : s[t].state \in {"in-progress", "success", "failure"}
  BY StatusesElim DEF Status
<1> QED BY <1>1, <1>2 DEF States

LEMMA OwnStep ==
    ASSUME OnePage, IInv, OwnStatuses, [Next]_vars
    PROVE  OwnStatuses'
<1> USE DEF IInv, TypeOK, HandlerKeepsRequest, BeforeInvoke, Announced, OwnStatuses, OnePage,
        Fits, Write, itemVars, driveVars, pageVars, apiVars, mediaVars
<1>1. CASE UNCHANGED vars
  BY <1>1 DEF vars
<1>2. CASE RepeatOutput
  BY <1>2, NoStatusesDomain DEF RepeatOutput
<1>3. ASSUME NEW p \in Pages, Request(p)
      PROVE  OwnStatuses'
  BY <1>3 DEF Request
<1>4. ASSUME NEW p \in Pages, Poll(p)
      PROVE  OwnStatuses'
  <2>1. PICK s \in Readable : page' = [page EXCEPT ![p] = Verdict(s)]
    BY <1>4 DEF Poll
  <2>2. s \in Statuses /\ Fits(s, p) /\ Real(s)
    BY ReadableValues DEF EverySuccessIsReal
  <2>3. ASSUME Verdict(s) = "success", NEW t \in request[p]
        PROVE  [by |-> p, type |-> t] \in drive
    <3>1. s # NoStatuses /\ \A u \in DOMAIN s : s[u].state = "success"
      BY <2>2, <2>3, SuccessVerdict
    <3>2. DOMAIN s = request[p]
      BY <2>2, <3>1, NoStatusesDomain
    <3>3. s[t].by = p
      BY <2>2, <2>3, <3>2, StatusesElim DEF Status
    <3> QED BY <2>2, <2>3, <3>1, <3>2, <3>3 DEF Real
  <2>4. page'[p] = Verdict(s) /\ page'[p] # "ready"
    BY <2>1, VerdictType
  <2> QED BY <1>4, <2>3, <2>4, PageSteps
<1>5. ASSUME NEW p \in Pages, PollFails(p) \/ GatewayTimeout(p)
      PROVE  OwnStatuses'
  <2>1. page' \in [Pages -> Ended \cup {"ready", "exporting", "answered", "polling"}]
        /\ page'[p] \in {"stuck", "failed"}
    BY <1>5 DEF PollFails, GatewayTimeout, Ended
  <2> QED BY <1>5, <2>1, PageSteps
<1>6. ASSUME NEW p \in Pages, GetItem(p)
      PROVE  OwnStatuses'
  BY <1>6 DEF GetItem
<1>7. ASSUME NEW p \in Pages, Announce(p)
      PROVE  OwnStatuses'
  BY <1>7, InitialisedDomain DEF Announce
<1>8. ASSUME NEW p \in Pages, CombinedOutput(p)
      PROVE  OwnStatuses'
  BY <1>8 DEF CombinedOutput
<1>9. ASSUME NEW p \in Pages, NEW d \in Docs, ExportDoc(p, d)
      PROVE  OwnStatuses'
  BY <1>9, DriveGrows DEF ExportDoc
<1>10. ASSUME NEW p \in Pages, RecordDocs(p)
      PROVE  OwnStatuses'
  BY <1>10 DEF RecordDocs
<1>11. ASSUME NEW p \in Pages, Invoke(p)
      PROVE  OwnStatuses'
  BY <1>11 DEF Invoke
<1>12. ASSUME NEW p \in Pages, RecordMediaFailure(p)
      PROVE  OwnStatuses'
  BY <1>12, UpdatedEntries DEF RecordMediaFailure, RecordMediaFailureIn
<1>13. ASSUME NEW p \in Pages, Reply(p)
      PROVE  OwnStatuses'
  BY <1>13 DEF Reply, HandlerEnds
<1>14. ASSUME NEW p \in Pages, ApiFails(p)
      PROVE  OwnStatuses'
  BY <1>14 DEF ApiFails, HandlerEnds, Handling
<1>15. ASSUME NEW p \in Pages, MediaStart(p)
      PROVE  OwnStatuses'
  BY <1>15, ReadableValues DEF MediaStart
<1>16. ASSUME NEW p \in Pages, MediaExport(p)
      PROVE  OwnStatuses'
  BY <1>16, DriveGrows DEF MediaExport
<1>17. ASSUME NEW p \in Pages, MediaRecord(p)
      PROVE  OwnStatuses'
  <2>1. /\ UNCHANGED <<statuses, previous>>
           \/ /\ statuses' = Updated(seen[p], Media, Set(p, result[p]))
              /\ previous' = statuses /\ DOMAIN seen[p] # {}
    BY <1>17, NoStatusesDomain DEF MediaRecord
  <2>2. seen'[p] = NoStatuses /\ UNCHANGED <<drive, page, request>>
    BY <1>17 DEF MediaRecord, Rerun, RunEnds
  <2>3. Fits(statuses', p) /\ Fits(previous', p) /\ DOMAIN seen'[p] = {}
    BY <2>1, <2>2, UpdatedEntries, NoStatusesDomain
  <2>4. page[p] = "ready" => DOMAIN statuses' = {} /\ DOMAIN previous' = {}
    BY <2>1, UpdatedEntries
  <2> QED BY <2>2, <2>3, <2>4
<1>18. ASSUME NEW p \in Pages, MediaThrows(p)
      PROVE  OwnStatuses'
  BY <1>18, NoStatusesDomain DEF MediaThrows, Rerun, RunEnds
<1> QED
  BY <1>1, <1>2, <1>3, <1>4, <1>5, <1>6, <1>7, <1>8, <1>9, <1>10, <1>11, <1>12,
     <1>13, <1>14, <1>15, <1>16, <1>17, <1>18
  DEF Next, ApiStep, MediaStep

\* With one tab a page that says all exports are complete has all its files,
\* whatever fails, is repeated or is read late. A second tab breaks this.
THEOREM OneTabIsToldTheTruth ==
    ASSUME OnePage
    PROVE  Spec => []SuccessMeansDone
<1>1. OwnStatuses => SuccessMeansDone
  BY DEF OwnStatuses, SuccessMeansDone
<1>2. Spec => []OwnStatuses
  BY InitOwnStatuses, OwnStep, Invariance, PTL DEF Spec
<1> QED BY <1>1, <1>2, PTL

----------------------------------------------------------------------------
(* The results of documents: with one tab and no stale read, the item, the  *)
(* handler and the lambda never disagree about a document that is done.     *)

AgreeOnDocs(s, u) == \A d \in Docs \cap DOMAIN s \cap DOMAIN u : s[d] = u[d]

DocInv ==
    \A p \in Pages :
        /\ api[p] \in {"idle", "get", "announce"} => DOMAIN statuses = {}
        /\ api[p] \in {"combined", "docs"} =>
              \A t \in DOMAIN statuses : statuses[t].state = "in-progress"
        /\ media[p] \notin Seeing => DOMAIN seen[p] = {}
        /\ AgreeOnDocs(seen[p], statuses)
        /\ api[p] \in Invoking => AgreeOnDocs(statuses, doing[p]) /\ AgreeOnDocs(seen[p], doing[p])

LEMMA InitDocInv == Init => DocInv
BY NoStatusesDomain DEF Init, DocInv, AgreeOnDocs, Invoking, Seeing

LEMMA UpdatedAgrees ==
    ASSUME NEW s, NEW u, NEW new
    PROVE  /\ AgreeOnDocs(s, u) => /\ AgreeOnDocs(Updated(s, Media, new), u)
                                   /\ AgreeOnDocs(s, Updated(u, Media, new))
           /\ AgreeOnDocs(s, Updated(s, Media, new)) /\ AgreeOnDocs(Updated(s, Media, new), s)
BY UpdatedEntries, ConstantsAssumption DEF AgreeOnDocs, ConstantsAssumption

LEMMA DocStep ==
    ASSUME OnePage, "stale" \notin Faults, IInv, DocInv, [Next]_vars
    PROVE  DocInv'
<1> USE DEF IInv, TypeOK, HandlerKeepsRequest, BeforeInvoke, DocInv, Announced, Invoking,
        Seeing, OnePage, Write, itemVars, driveVars, pageVars, apiVars, mediaVars
<1>0. \A s : AgreeOnDocs(s, s) /\ AgreeOnDocs(NoStatuses, s) /\ AgreeOnDocs(s, NoStatuses)
  BY NoStatusesDomain DEF AgreeOnDocs
<1>1. CASE UNCHANGED vars
  BY <1>1 DEF vars, AgreeOnDocs
<1>2. CASE RepeatOutput
  BY <1>2, <1>0, NoStatusesDomain DEF RepeatOutput
<1>3. ASSUME NEW p \in Pages, Request(p)
      PROVE  DocInv'
  BY <1>3 DEF Request, AgreeOnDocs
<1>4. ASSUME NEW p \in Pages, Poll(p) \/ PollFails(p) \/ GatewayTimeout(p)
      PROVE  DocInv'
  BY <1>4, PageSteps DEF AgreeOnDocs
<1>5. ASSUME NEW p \in Pages, GetItem(p)
      PROVE  DocInv'
  BY <1>5 DEF GetItem, AgreeOnDocs
<1>6. ASSUME NEW p \in Pages, Announce(p)
      PROVE  DocInv'
  BY <1>6, InitialisedDomain DEF Announce, AgreeOnDocs
<1>7. ASSUME NEW p \in Pages, CombinedOutput(p)
      PROVE  DocInv'
  BY <1>7 DEF CombinedOutput, AgreeOnDocs
<1>8. ASSUME NEW p \in Pages, NEW d \in Docs, ExportDoc(p, d)
      PROVE  DocInv'
  BY <1>8 DEF ExportDoc, AgreeOnDocs
<1>9. ASSUME NEW p \in Pages, RecordDocs(p)
      PROVE  DocInv'
  BY <1>9 DEF RecordDocs, AgreeOnDocs
<1>10. ASSUME NEW p \in Pages, Invoke(p)
      PROVE  DocInv'
  BY <1>10 DEF Invoke, AgreeOnDocs
<1>11. ASSUME NEW p \in Pages, RecordMediaFailure(p)
      PROVE  DocInv'
  <2> DEFINE failed == Updated(doing[p], Media, Set(p, "failure"))
  <2>1. /\ api[p] = "mediaFailed" /\ api'[p] = "reply"
        /\ statuses' = failed /\ doing'[p] = failed
        /\ UNCHANGED <<driveVars, pageVars, mediaVars>>
    BY <1>11 DEF RecordMediaFailure, RecordMediaFailureIn
  <2>2. AgreeOnDocs(seen[p], failed)
    BY <2>1, UpdatedAgrees
  <2> HIDE DEF failed
  <2>3. AgreeOnDocs(seen'[p], statuses') /\ AgreeOnDocs(statuses', doing'[p])
    BY <2>1, <2>2, <1>0
  <2> QED BY <2>1, <2>3 DEF AgreeOnDocs
<1>12. ASSUME NEW p \in Pages, Reply(p)
      PROVE  DocInv'
  BY <1>12 DEF Reply, HandlerEnds, AgreeOnDocs
<1>13. ASSUME NEW p \in Pages, ApiFails(p)
      PROVE  DocInv'
  BY <1>13 DEF ApiFails, HandlerEnds, AgreeOnDocs
<1>14. ASSUME NEW p \in Pages, MediaStart(p)
      PROVE  DocInv'
  BY <1>14 DEF MediaStart, Readable, AgreeOnDocs
<1>15. ASSUME NEW p \in Pages, MediaExport(p)
      PROVE  DocInv'
  BY <1>15 DEF MediaExport, AgreeOnDocs
<1>16. ASSUME NEW p \in Pages, MediaRecord(p)
      PROVE  DocInv'
  <2>1. /\ media[p] = "recording" /\ seen'[p] = NoStatuses /\ api' = api /\ doing' = doing
        /\ statuses' = statuses \/ statuses' = Updated(seen[p], Media, Set(p, result[p]))
    BY <1>16 DEF MediaRecord, Rerun, RunEnds
  <2>2. api[p] \notin BeforeInvoke
    BY <2>1
  <2>3. api[p] \in Invoking => AgreeOnDocs(statuses', doing[p])
    BY <2>1, UpdatedAgrees
  <2>4. AgreeOnDocs(seen'[p], statuses') /\ AgreeOnDocs(seen'[p], doing'[p])
        /\ DOMAIN seen'[p] = {}
    BY <2>1, <1>0, NoStatusesDomain
  <2> QED BY <2>1, <2>2, <2>3, <2>4 DEF AgreeOnDocs
<1>17. ASSUME NEW p \in Pages, MediaThrows(p)
      PROVE  DocInv'
  BY <1>17, <1>0, NoStatusesDomain DEF MediaThrows, Rerun, RunEnds, AgreeOnDocs
<1> QED
  BY <1>1, <1>2, <1>3, <1>4, <1>5, <1>6, <1>7, <1>8, <1>9, <1>10, <1>11, <1>12,
     <1>13, <1>14, <1>15, <1>16, <1>17
  DEF Next, ApiStep, MediaStep

\* With one tab, reads that see the last write and no success message handled again,
\* the result of a document is never lost from the item nor changed, though handler
\* and lambda write the whole of it: also when the lambda is run again, and when
\* calls of either fail. What is written has an entry for all that was asked for
\* (OwnStatuses), and agrees with the item on the documents (DocInv).
THEOREM DocumentsStayRecorded ==
    ASSUME OnePage, "stale" \notin Faults, "repeat" \notin Faults
    PROVE  Spec => DocResultsAreKept
<1> DEFINE Kept == \A d \in Docs \cap DOMAIN statuses :
                      statuses[d].state # "in-progress" =>
                          d \in DOMAIN statuses' /\ statuses'[d] = statuses[d]
<1>1. ASSUME IInv, OwnStatuses, DocInv, [Next]_vars
      PROVE  Kept
  <2> USE DEF Write, itemVars
  <2>1. CASE statuses' = statuses
    BY <2>1
  <2>2. ~RepeatOutput
    BY DEF RepeatOutput
  <2>3. ASSUME NEW p \in Pages, Announce(p)
        PROVE  Kept
    BY <1>1, <2>3 DEF Announce, DocInv
  <2>4. ASSUME NEW p \in Pages, RecordDocs(p)
        PROVE  Kept
    BY <1>1, <2>4 DEF RecordDocs, DocInv
  <2>5. ASSUME NEW p \in Pages, RecordMediaFailure(p)
        PROVE  Kept
    <3>1. api[p] = "mediaFailed" /\ statuses' = Updated(doing[p], Media, Set(p, "failure"))
      BY <2>5 DEF RecordMediaFailure, RecordMediaFailureIn
    <3>2. AgreeOnDocs(statuses, doing[p])
      BY <1>1, <3>1 DEF DocInv, Invoking
    <3>3. AgreeOnDocs(statuses, statuses')
      BY <3>1, <3>2, UpdatedAgrees
    <3>4. DOMAIN statuses \subseteq DOMAIN doing[p]
      BY <1>1, <3>1 DEF IInv, HandlerKeepsRequest, Announced, OwnStatuses, Fits
    <3>5. DOMAIN statuses' = DOMAIN doing[p]
      BY <3>1, UpdatedEntries
    <3> QED BY <3>3, <3>4, <3>5 DEF AgreeOnDocs
  <2>6. ASSUME NEW p \in Pages, MediaRecord(p)
        PROVE  Kept
    <3>1. CASE seen[p] # NoStatuses
                 /\ statuses' = Updated(seen[p], Media, Set(p, result[p]))
      <4>1. AgreeOnDocs(Updated(seen[p], Media, Set(p, result[p])), statuses)
        BY <1>1, UpdatedAgrees DEF DocInv
      <4>2. DOMAIN seen[p] # {}
        BY <1>1, <3>1, NoStatusesDomain DEF IInv, TypeOK
      <4>3. DOMAIN statuses \subseteq DOMAIN seen[p]
        BY <1>1, <4>2 DEF OwnStatuses, Fits
      <4>4. DOMAIN statuses' = DOMAIN seen[p]
        BY <3>1, UpdatedEntries
      <4> QED BY <3>1, <4>1, <4>3, <4>4 DEF AgreeOnDocs
    <3> QED BY <2>1, <2>6, <3>1 DEF MediaRecord
  <2> QED
    BY <1>1, <2>1, <2>2, <2>3, <2>4, <2>5, <2>6
    DEF Next, ApiStep, MediaStep, Request, Poll, PollFails, GatewayTimeout, GetItem,
        CombinedOutput, ExportDoc, Invoke, Reply, ApiFails, MediaStart, MediaExport,
        MediaThrows, vars
<1>2. IInv /\ OwnStatuses /\ DocInv /\ [Next]_vars => [Kept]_vars
  BY <1>1
<1>3. Spec => []DocInv
  BY InitDocInv, DocStep, Invariance, PTL DEF Spec
<1>4. Spec => []OwnStatuses
  BY InitOwnStatuses, OwnStep, Invariance, PTL DEF Spec
<1> QED BY <1>2, <1>3, <1>4, Invariance, PTL DEF Spec, DocResultsAreKept

=============================================================================
