--------------------------- MODULE CapacityManager ---------------------------
(***************************************************************************)
(* The worker capacity manager (worker-capacity-manager/src): a lambda that *)
(* runs each minute, counts the jobs on the GPU task queue, whether visible *)
(* or in flight, and asks the auto scaling group for as many workers. Runs  *)
(* may overlap: one that failed is retried beside the next. The group and   *)
(* its workers are modelled by what the manager relies on; WorkerFleet has  *)
(* them in detail.                                                          *)
(***************************************************************************)
EXTENDS Naturals, FiniteSets

CONSTANTS
    Work,          \* the jobs that may be sent
    CapacityRuns,  \* runs of the lambda that may overlap
    GroupMin,      \* absoluteMinCapacity: 1 in PROD, else 0; also the group's own
    GroupMax,      \* maxCapacity of the group
    CapacityFaults, \* count, call, lost
    MaxMishaps     \* a bound: how many of them happen in one behaviour

ASSUME CapacityAssumption ==
    /\ IsFiniteSet(Work)
    /\ GroupMin \in Nat /\ GroupMax \in Nat \ {0} /\ GroupMin <= GroupMax
    /\ CapacityFaults \subseteq {"count", "call", "lost"}
    /\ MaxMishaps \in Nat

VARIABLES
    job,      \* [Work -> where the job is]
    manager,  \* [CapacityRuns -> the await the run is at]
    counted,  \* [CapacityRuns -> totalMessagesInQueue]
    there,    \* [CapacityRuns -> the jobs on the queue since the run counted them]
    desired,  \* the desired capacity of the group
    workers,  \* its instances
    mishaps   \* how many faults there were

capacityVars == <<job, manager, counted, there, desired, workers, mishaps>>

OnQueue == {j \in Work : job[j] \in {"visible", "taken", "abandoned"}}
AtWork == Cardinality({j \in Work : job[j] = "taken"})
Smaller(a, b) == IF a < b THEN a ELSE b
Larger(a, b) == IF a < b THEN b ELSE a

CapacityInit ==
    /\ job = [j \in Work |-> "none"]
    /\ manager = [r \in CapacityRuns |-> "idle"]
    /\ counted = [r \in CapacityRuns |-> 0]
    /\ there = [r \in CapacityRuns |-> {}]
    /\ desired = GroupMin /\ workers = GroupMin
    /\ mishaps = 0

Mishap(kind) ==
    /\ kind \in CapacityFaults
    /\ mishaps < MaxMishaps
    /\ mishaps' = mishaps + 1

----------------------------------------------------------------------------
(* The queue and the workers.                                               *)

Moves(j, from, to) ==
    /\ job[j] = from
    /\ job' = [job EXCEPT ![j] = to]
    /\ there' = [r \in CapacityRuns |-> IF to = "done" THEN there[r] \ {j} ELSE there[r]]
    /\ UNCHANGED <<manager, counted, desired>>

JobArrives(j) == Moves(j, "none", "visible") /\ UNCHANGED <<workers, mishaps>>

\* A worker that is not busy receives the job ...
JobTaken(j) ==
    AtWork < workers /\ Moves(j, "visible", "taken") /\ UNCHANGED <<workers, mishaps>>

\* ... and is done with it, ...
JobDone(j) == Moves(j, "taken", "done") /\ UNCHANGED <<workers, mishaps>>

\* ... or is lost, and its message in flight until its visibility ends.
WorkerLost(j) ==
    /\ Mishap("lost")
    /\ Moves(j, "taken", "abandoned")
    /\ workers' = workers - 1

JobReturns(j) == Moves(j, "abandoned", "visible") /\ UNCHANGED <<workers, mishaps>>

\* The group launches, and terminates instances without scale-in protection.
GroupScales ==
    /\ \/ workers < desired /\ workers' = workers + 1
       \/ workers > desired /\ workers > AtWork /\ workers' = workers - 1
    /\ UNCHANGED <<job, manager, counted, there, desired, mishaps>>

----------------------------------------------------------------------------
(* The lambda.                                                              *)

\* Mutant of QueueLength: only the messages that are visible.
VisibleLength == Cardinality({j \in Work : job[j] = "visible"})

QueueLength == Cardinality(OnQueue)

\* getSQSQueueLengthIncludingInvisible; the two numbers are approximate.
CountQueue(r) ==
    /\ manager[r] = "idle"
    /\ manager' = [manager EXCEPT ![r] = "max"]
    /\ \/ /\ counted' = [counted EXCEPT ![r] = QueueLength]
          /\ there' = [there EXCEPT ![r] = OnQueue]
          /\ UNCHANGED mishaps
       \/ /\ Mishap("count")
          /\ \E n \in 0..Cardinality(Work) : counted' = [counted EXCEPT ![r] = n]
          /\ there' = [there EXCEPT ![r] = {}]
    /\ UNCHANGED <<job, desired, workers>>

\* The run is over, and its variables with it.
RunEnds(r) ==
    /\ manager' = [manager EXCEPT ![r] = "idle"]
    /\ counted' = [counted EXCEPT ![r] = 0]
    /\ there' = [there EXCEPT ![r] = {}]

\* getMaxCapacity: the run ends without the group's answer, or its name.
GetMax(r) ==
    /\ manager[r] = "max"
    /\ \/ /\ manager' = [manager EXCEPT ![r] = "set"]
          /\ UNCHANGED <<counted, there, mishaps>>
       \/ Mishap("call") /\ RunEnds(r)
    /\ UNCHANGED <<job, desired, workers>>

\* Mutant of Wanted: one job is left to the worker that is there anyway.
WantedBesideOne(n) == Larger(Smaller(n, GroupMax) - 1, GroupMin)

Wanted(n) == Larger(Smaller(n, GroupMax), GroupMin)

\* Mutant of SetDesired: an empty queue needs no call.
SetDesiredUnlessEmpty(r) ==
    /\ manager[r] = "set" /\ RunEnds(r)
    /\ desired' = IF counted[r] = 0 THEN desired ELSE Wanted(counted[r])
    /\ UNCHANGED <<job, workers, mishaps>>

\* Mutant of SetDesired: one worker to spare, whatever the bounds are.
SetDesiredWithSpare(r) ==
    /\ manager[r] = "set" /\ RunEnds(r)
    /\ desired' = Wanted(counted[r]) + 1
    /\ UNCHANGED <<job, workers, mishaps>>

\* setDesiredCapacity, which the group refuses beyond its bounds.
SetDesired(r) ==
    /\ manager[r] = "set" /\ RunEnds(r)
    /\ \/ /\ Wanted(counted[r]) \in GroupMin..GroupMax
          /\ desired' = Wanted(counted[r])
          /\ UNCHANGED mishaps
       \/ /\ Wanted(counted[r]) \notin GroupMin..GroupMax
          /\ UNCHANGED <<desired, mishaps>>
       \/ Mishap("call") /\ UNCHANGED desired
    /\ UNCHANGED <<job, workers>>

----------------------------------------------------------------------------
ManagerStep(r) == CountQueue(r) \/ GetMax(r) \/ SetDesired(r)

Progress(j) == JobTaken(j) \/ JobDone(j) \/ JobReturns(j)

WorkStep(j) == JobArrives(j) \/ WorkerLost(j) \/ Progress(j)

CapacityNext ==
    \/ GroupScales
    \/ \E j \in Work : WorkStep(j)
    \/ \E r \in CapacityRuns : ManagerStep(r)

CapacitySpec == CapacityInit /\ [][CapacityNext]_capacityVars

\* The rule fires for ever, the group does what it is asked,
\* and its workers take what is there and are done with it.
CapacityFairness ==
    /\ WF_capacityVars(GroupScales)
    /\ \A j \in Work : WF_capacityVars(Progress(j))
    /\ \A r \in CapacityRuns : WF_capacityVars(ManagerStep(r))

CapacityFairSpec == CapacitySpec /\ CapacityFairness

----------------------------------------------------------------------------
(* Properties.                                                              *)

\* Every variable has its type: the desired capacity is within the group's bounds.
CapacityTypeOK ==
    /\ job \in [Work -> {"none", "visible", "taken", "abandoned", "done"}]
    /\ manager \in [CapacityRuns -> {"idle", "max", "set"}]
    /\ counted \in [CapacityRuns -> 0..Cardinality(Work)]
    /\ there \in [CapacityRuns -> SUBSET Work]
    /\ desired \in GroupMin..GroupMax
    /\ workers \in 0..GroupMax
    /\ mishaps \in 0..MaxMishaps

\* The group is never asked for fewer workers than there are jobs, up to its
\* maximum, which the run has counted and which are still on the queue when it asks,
\* those included that a worker is at or has left behind.
EnoughForTheQueue ==
    [][\A r \in CapacityRuns :
        manager[r] = "set" /\ manager'[r] = "idle" /\ desired' # desired =>
            desired' >= Smaller(Cardinality(there[r]), GroupMax)]_capacityVars

\* Every job is served, however the runs overlap and whatever some of them count.
WorkIsServed == \A j \in Work : job[j] = "visible" ~> job[j] = "done"

\* When all work is done the group goes back to its minimum.
IdleScalesIn == <>[](OnQueue = {}) => <>[](desired = GroupMin /\ workers = GroupMin)

\* In the end the group follows the queue, up and down, whatever some runs count.
CapacityFollowsTheQueue == WorkIsServed /\ IdleScalesIn

=============================================================================
