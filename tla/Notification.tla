---------------------------- MODULE Notification ----------------------------
(***************************************************************************)
(* What the output handler promises to those who wait for a result, without *)
(* batches, invocations or awaits: a message is offered a number of times,  *)
(* each offer mails its user at most once, a success is mailed only when    *)
(* its item is there to be read, and a message is settled only after its    *)
(* user was told or its failure counted.                                    *)
(***************************************************************************)
EXTENDS Integers

CONSTANTS
    Jobs,      \* ids of transcripts and LLM prompts
    Messages,  \* what may be said of them: records with a job and a kind
    MaxChances \* how often a message is offered

VARIABLES
    state,   \* [Messages -> {"unsent", "pending", "settled"}]
    chances, \* [Messages -> how often it was offered]
    item,    \* [Jobs -> what the pages can read]
    emails,  \* [Messages -> how often its user was mailed]
    counted  \* messages with a counted failure

vars == <<state, chances, item, emails, counted>>

Mailed == {"SUCCESS", "TRANSCRIPTION_FAILURE", "MEDIA_DOWNLOAD_FAILURE"}

\* What the item of the job becomes, for the messages that have one.
Written(m) ==
    CASE m.kind = "SUCCESS" -> "transcript"
      [] m.kind = "LLM_SUCCESS" -> "llmSuccess"
      [] m.kind = "LLM_FAILURE" -> "llmFailure"

Told(m) ==
    IF m.kind \in Mailed THEN emails[m] > 0
    ELSE item[m.job] \in {"llmSuccess", "llmFailure"}

Init ==
    /\ state = [m \in Messages |-> "unsent"]
    /\ chances = [m \in Messages |-> 0]
    /\ item = [j \in Jobs |-> "none"]
    /\ emails = [m \in Messages |-> 0]
    /\ counted = {}

Submit(m) ==
    /\ state[m] = "unsent"
    /\ state' = [state EXCEPT ![m] = "pending"]
    /\ UNCHANGED <<chances, item, emails, counted>>

\* Several messages may be offered at once, and a settled one by mistake.
Offer(S) ==
    /\ \A m \in S : state[m] # "unsent" /\ chances[m] < MaxChances
    /\ chances' = [m \in Messages |-> chances[m] + IF m \in S THEN 1 ELSE 0]
    /\ UNCHANGED <<state, item, emails, counted>>

Record(m) ==
    /\ chances[m] > 0 /\ m.kind \in {"SUCCESS", "LLM_SUCCESS", "LLM_FAILURE"}
    /\ item' = [item EXCEPT ![m.job] = Written(m)]
    /\ UNCHANGED <<state, chances, emails, counted>>

Mail(m) ==
    /\ emails[m] < chances[m] /\ m.kind \in Mailed
    /\ m.kind = "SUCCESS" => item[m.job] = "transcript"
    /\ emails' = [emails EXCEPT ![m] = @ + 1]
    /\ UNCHANGED <<state, chances, item, counted>>

Count(m) ==
    /\ chances[m] > 0
    /\ counted' = counted \cup {m}
    /\ UNCHANGED <<state, chances, item, emails>>

Settle(S) ==
    /\ \A m \in S : state[m] # "unsent" /\ (Told(m) \/ m \in counted)
    /\ state' = [m \in Messages |-> IF m \in S THEN "settled" ELSE state[m]]
    /\ UNCHANGED <<chances, item, emails, counted>>

Next ==
    \/ \E m \in Messages : Submit(m) \/ Record(m) \/ Mail(m) \/ Count(m)
    \/ \E S \in SUBSET Messages : Offer(S) \/ Settle(S)

Spec == Init /\ [][Next]_vars

=============================================================================
