---------------------------- MODULE JobDelivery ----------------------------
(***************************************************************************)
(* What the task queue and its workers promise to whoever sends a job,      *)
(* without workers, visibility timeouts or instances: a job is tried at     *)
(* most MaxTries times, every try says at most one thing about it, a        *)
(* failure is only ever said by the last try, and the job leaves the queue  *)
(* only after a try spoke, left a trace, or used up the tries.              *)
(***************************************************************************)
EXTENDS Integers

CONSTANTS Jobs, MaxTries

VARIABLES
    phase,   \* [Jobs -> {"new", "pending", "settled"}]
    tries,   \* [Jobs -> 0..MaxTries]
    outputs, \* what was said of a job, by which try
    traces   \* tries that could not speak, or kept a copy of the job

vars == <<phase, tries, outputs, traces>>

Tries == [job : Jobs, att : 1..MaxTries]
Kinds == {"success", "noAudio", "badMedia", "failure"}
Said(r) == {k \in Kinds : [job |-> r.job, att |-> r.att, kind |-> k] \in outputs}

Init ==
    /\ phase = [j \in Jobs |-> "new"]
    /\ tries = [j \in Jobs |-> 0]
    /\ outputs = {}
    /\ traces = {}

Submit(j) ==
    /\ phase[j] = "new"
    /\ phase' = [phase EXCEPT ![j] = "pending"]
    /\ UNCHANGED <<tries, outputs, traces>>

Try(j) ==
    /\ phase[j] = "pending" /\ tries[j] < MaxTries
    /\ tries' = [tries EXCEPT ![j] = @ + 1]
    /\ UNCHANGED <<phase, outputs, traces>>

\* A try may speak long after the job was handed to another try, or settled.
Speak(r, k) ==
    /\ r.att <= tries[r.job] /\ Said(r) = {}
    /\ k = "failure" => r.att = MaxTries
    /\ outputs' = outputs \cup {[job |-> r.job, att |-> r.att, kind |-> k]}
    /\ UNCHANGED <<phase, tries, traces>>

Trace(r) ==
    /\ r.att <= tries[r.job]
    /\ traces' = traces \cup {r}
    /\ UNCHANGED <<phase, tries, outputs>>

Settle(j) ==
    /\ phase[j] = "pending"
    /\ \/ tries[j] = MaxTries
       \/ \E r \in Tries : r.job = j /\ (r \in traces \/ Said(r) # {})
    /\ phase' = [phase EXCEPT ![j] = "settled"]
    /\ UNCHANGED <<tries, outputs, traces>>

Next ==
    \/ \E j \in Jobs : Submit(j) \/ Try(j) \/ Settle(j)
    \/ \E r \in Tries : Trace(r) \/ \E k \in Kinds : Speak(r, k)

Spec == Init /\ [][Next]_vars

\* A pending job is tried again or settled; it is not left on the queue.
FairSpec == Spec /\ \A j \in Jobs : WF_vars(Try(j) \/ Settle(j))

=============================================================================
