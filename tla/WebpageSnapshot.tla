-------------------------- MODULE WebpageSnapshot --------------------------
(***************************************************************************)
(* The webpage snapshot lambda (webpage-snapshot/src/index.ts) and its     *)
(* queue, which gets every task of another service beside the media        *)
(* download queue. A batch is handled record by record in one browser; a   *)
(* record that fails is answered and passed over, an error outside the     *)
(* loop fails the whole batch, and SQS delivers it again.                    *)
(***************************************************************************)
EXTENDS Naturals, FiniteSets

CONSTANTS
    Pages,         \* the messages of the queue
    Unreadable,    \* those that do not parse
    SnapshotBatch, \* the batch size of the event source
    MaxForwarded,  \* a bound: how many of the messages arrive in one behaviour
    MaxHandlings,  \* a bound: deliveries before the retention of the queue is over
    SnapshotFaults \* browser, page, upload, send, timeout

ASSUME SnapshotAssumption ==
    /\ Unreadable \subseteq Pages
    /\ SnapshotBatch \in Nat /\ MaxForwarded \in Nat /\ MaxHandlings \in Nat \ {0}
    /\ SnapshotFaults \subseteq {"browser", "page", "upload", "send", "timeout"}

VARIABLES
    record,   \* [Pages -> where the message is]
    handling, \* [Pages -> how often it was delivered]
    lambda,   \* the await the invocation is at
    records,  \* the records of the invocation
    todo,     \* those it has not finished
    kept,     \* the snapshots in S3
    replies,  \* what the requesters were sent
    unsent    \* the handlings whose reply may not have been sent

snapshotVars == <<record, handling, lambda, records, todo, kept, replies, unsent>>

InLoop == {"open", "store", "succeed", "fail"}

SnapshotInit ==
    /\ record = [p \in Pages |-> "none"]
    /\ handling = [p \in Pages |-> 0]
    /\ lambda = "idle" /\ records = {} /\ todo = {}
    /\ kept = {} /\ replies = {} /\ unsent = {}

\* SNS forwards a task to the queue.
Forwarded(p) ==
    /\ record[p] = "none"
    /\ Cardinality({q \in Pages : record[q] # "none"}) < MaxForwarded
    /\ record' = [record EXCEPT ![p] = "waiting"]
    /\ UNCHANGED <<handling, lambda, records, todo, kept, replies, unsent>>

Invoke(B) ==
    /\ lambda = "idle"
    /\ B # {} /\ Cardinality(B) <= SnapshotBatch
    /\ \A p \in B : record[p] = "waiting"
    /\ lambda' = "start" /\ records' = B /\ todo' = B
    /\ record' = [p \in Pages |-> IF p \in B THEN "inflight" ELSE record[p]]
    /\ handling' = [p \in Pages |-> IF p \in B THEN handling[p] + 1 ELSE handling[p]]
    /\ UNCHANGED <<kept, replies, unsent>>

\* The invocation is over, and its messages are where one goes that may be handled
\* again, or where another goes.
InvocationEnds(again, otherwise) ==
    /\ lambda' = "idle" /\ records' = {} /\ todo' = {}
    /\ record' = [p \in Pages |-> IF p \notin records THEN record[p]
                                  ELSE IF handling[p] < MaxHandlings THEN again
                                  ELSE otherwise]
    /\ UNCHANGED <<handling, kept, replies, unsent>>

\* Mutant of BatchReturns: the queue keeps its messages for ever.
BatchReturnsForEver == InvocationEnds("waiting", "waiting")

BatchReturns == InvocationEnds("waiting", "expired")

\* Mutant of Start: records that do not parse are dropped, and with them the rest.
StartDropping ==
    /\ lambda = "start"
    /\ IF records \cap Unreadable # {}
         THEN InvocationEnds("consumed", "consumed")
         ELSE lambda' = "open" /\ UNCHANGED <<record, handling, records, todo, kept, replies, unsent>>

\* IncomingSQSEvent.safeParse, getBrowser, newPage.
Start ==
    /\ lambda = "start"
    /\ \/ /\ records \cap Unreadable = {}
          /\ lambda' = "open"
          /\ UNCHANGED <<record, handling, records, todo, kept, replies, unsent>>
       \/ /\ records \cap Unreadable # {} \/ "browser" \in SnapshotFaults
          /\ BatchReturns

\* The record in hand: the loop goes through the batch in some fixed order.
InHand(p) == p \in todo /\ p = CHOOSE q \in todo : TRUE

Try(from, to, fault) ==
    /\ lambda = from
    /\ lambda' \in {to} \cup (IF fault \in SnapshotFaults THEN {"fail"} ELSE {})

\* snapshotPage, and uploadToS3, whose failure is thrown to the same catch block.
Snapshot(p) ==
    /\ InHand(p) /\ Try("open", "store", "page")
    /\ UNCHANGED <<record, handling, records, todo, kept, replies, unsent>>

\* Mutant of Store: the result of the upload is not looked at.
StoreUnchecked(p) ==
    /\ InHand(p) /\ lambda = "store" /\ lambda' = "succeed"
    /\ kept' \in {kept, kept \cup {p}}
    /\ UNCHANGED <<record, handling, records, todo, replies, unsent>>

Store(p) ==
    /\ InHand(p) /\ Try("store", "succeed", "upload")
    /\ kept' = IF lambda' = "succeed" THEN kept \cup {p} ELSE kept
    /\ UNCHANGED <<record, handling, records, todo, replies, unsent>>

Reply(p, status) == [to |-> p, nth |-> handling[p], status |-> status]

\* Mutant of Respond: the catch block also answers for a record that succeeded.
RespondTwice(p, from, status) ==
    /\ InHand(p) /\ lambda = from
    /\ replies' = replies \cup {Reply(p, status)}
    /\ IF from = "succeed" THEN lambda' = "fail" /\ UNCHANGED todo
                           ELSE lambda' = "open" /\ todo' = todo \ {p}
    /\ UNCHANGED <<record, handling, records, kept, unsent>>

\* sendMessage; its result is ignored, and one that failed may have arrived.
Respond(p, from, status) ==
    /\ InHand(p) /\ lambda = from
    /\ \/ replies' = replies \cup {Reply(p, status)} /\ UNCHANGED unsent
       \/ /\ "send" \in SnapshotFaults
          /\ replies' \in {replies, replies \cup {Reply(p, status)}}
          /\ unsent' = unsent \cup {<<p, handling[p]>>}
    /\ lambda' = "open" /\ todo' = todo \ {p}
    /\ UNCHANGED <<record, handling, records, kept>>

\* browser.close; the event source deletes the batch of an invocation that ends well.
Finish ==
    /\ lambda = "open" /\ todo = {}
    /\ \/ InvocationEnds("consumed", "consumed")
       \/ "browser" \in SnapshotFaults /\ BatchReturns

\* The lambda's fifteen minutes are over.
TimesOut == "timeout" \in SnapshotFaults /\ lambda \in InLoop \cup {"start"} /\ BatchReturns

HandleRecord(p) ==
    Snapshot(p) \/ Store(p) \/ Respond(p, "succeed", "SUCCESS") \/ Respond(p, "fail", "FAILURE")

LambdaStep == Start \/ Finish \/ \E p \in Pages : HandleRecord(p)

SnapshotNext ==
    \/ \E p \in Pages : Forwarded(p)
    \/ \E B \in SUBSET Pages : Invoke(B)
    \/ LambdaStep \/ TimesOut

SnapshotSpec == SnapshotInit /\ [][SnapshotNext]_snapshotVars

----------------------------------------------------------------------------
(* Properties.                                                              *)

\* Every variable has its type.
SnapshotTypeOK ==
    /\ record \in [Pages -> {"none", "waiting", "inflight", "consumed", "expired"}]
    /\ handling \in [Pages -> 0..MaxHandlings]
    /\ lambda \in InLoop \cup {"idle", "start"}
    /\ records \subseteq Pages /\ todo \subseteq records
    /\ kept \subseteq Pages
    /\ replies \subseteq [to : Pages, nth : 1..MaxHandlings, status : {"SUCCESS", "FAILURE"}]
    /\ unsent \subseteq Pages \X (1..MaxHandlings)

\* A task that has left the queue was answered, unless the send failed: its result
\* is ignored (index.ts:150, 164). Records that fail do not take others with them.
ConsumedIsReplied ==
    \A p \in Pages :
        record[p] = "consumed" =>
            \/ <<p, handling[p]>> \in unsent
            \/ \E r \in replies : r.to = p /\ r.nth = handling[p]

\* A success is reported only when the snapshot is in S3.
SuccessHasSnapshot == \A r \in replies : r.status = "SUCCESS" => r.to \in kept

\* A requester that hears twice of a page, or of both a success and a failure, had
\* its message delivered twice: each handling replies once.
OneReplyPerHandling == \A r, s \in replies : r.to = s.to /\ r.nth = s.nth => r = s

\* Each handling of a page replies once or has its reply refused, and a success it
\* replies is in S3, also when other records of the batch fail or it times out.
RepliesAreRight == ConsumedIsReplied /\ OneReplyPerHandling /\ SuccessHasSnapshot

=============================================================================
