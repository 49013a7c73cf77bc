---------------------------- MODULE JobLifecycle ----------------------------
(***************************************************************************)
(* What the scheduler promises of its queue: a job starts once its         *)
(* dependencies are done, on cores nobody else holds; it ends once; what   *)
(* can never start is skipped; nothing else ever happens to a job, and no  *)
(* stop or start of the scheduler shows.                                   *)
(***************************************************************************)
EXTENDS Integers, FiniteSets

CONSTANTS
    Jobs, DependsOn, Exclusive, Dormant,
    Cores,          \* the cores there are to hand out
    MaxConcurrent

VARIABLES
    status,         \* [Jobs -> status]
    held            \* [Jobs -> cores the job holds]

Init ==
    /\ status = [j \in Jobs |-> IF j \in Dormant THEN "dormant" ELSE "pending"]
    /\ held = [j \in Jobs |-> {}]

In(s) == {j \in Jobs : status[j] = s}

Begin(j) ==
    /\ status[j] = "pending"
    /\ \A dep \in DependsOn[j] : dep \in In("done")
    /\ Cardinality(In("running")) < MaxConcurrent
    /\ j \in Exclusive => In("running") = {}
    /\ In("running") \cap Exclusive = {}
    /\ status' = [status EXCEPT ![j] = "running"]
    /\ \E block \in SUBSET (Cores \ UNION {held[k] : k \in Jobs}) :
         held' = [held EXCEPT ![j] = block]

End(j) ==
    /\ status[j] = "running"
    /\ \E s \in {"done", "failed"} : status' = [status EXCEPT ![j] = s]
    /\ held' = [held EXCEPT ![j] = {}]

\* The job is tried, with its dependencies done, and cannot be started.
Reject(j) ==
    /\ status[j] = "pending"
    /\ \A dep \in DependsOn[j] : dep \in In("done")
    /\ status' = [status EXCEPT ![j] = "failed"]
    /\ UNCHANGED held

Skip(j) ==
    /\ status[j] = "pending"
    /\ \E dep \in DependsOn[j] : dep \in Jobs => dep \in In("failed") \cup In("skipped")
    /\ status' = [status EXCEPT ![j] = "skipped"]
    /\ UNCHANGED held

Release(j) ==
    /\ status[j] = "dormant"
    /\ status' = [status EXCEPT ![j] = "pending"]
    /\ UNCHANGED held

Next == \E j \in Jobs : Begin(j) \/ End(j) \/ Reject(j) \/ Skip(j) \/ Release(j)

Spec == Init /\ [][Next]_<<status, held>>
=============================================================================
