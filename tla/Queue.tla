------------------------------- MODULE Queue -------------------------------
(***************************************************************************)
(* The job list of config.py and state.py: what the queue file declares of *)
(* a job (constants), what the orchestrator records of it (a record per    *)
(* job), and the questions the orchestrator asks of a job list.            *)
(*                                                                         *)
(* A job list is a function from job ids to records, which load_queue's    *)
(* duplicate check justifies.  Left out of the record: numa_node, the two  *)
(* times, exit_code and metadata, which the scheduler writes or carries    *)
(* and never reads.  A failure reason is its class ("exit" is exit_<n>).   *)
(***************************************************************************)
EXTENDS Numa

CONSTANTS
    Jobs,           \* job ids of the queue file
    JobCores,       \* [Jobs -> cores]
    JobRam,         \* [Jobs -> ram_gb]
    Priority,       \* [Jobs -> priority]
    IdRank,         \* [Jobs -> rank of the id in the order of strings]
    Position,       \* [Jobs -> place in the file, which is list order]
    DependsOn,      \* [Jobs -> set of ids], ids outside Jobs are unknown
    Exclusive,      \* the exclusive jobs
    Dormant,        \* the jobs declared dormant
    ReservedCores,  \* parse_cpu_list(reserved_cores)
    Pids,           \* bound: the process ids of the host
    NoSession       \* the empty session string

ASSUME QueueAssumption ==
    /\ IsFiniteSet(Jobs)
    /\ JobCores \in [Jobs -> Int]
    /\ JobRam \in [Jobs -> Int]
    /\ Priority \in [Jobs -> Int]
    /\ IdRank \in [Jobs -> Nat]
    /\ Position \in [Jobs -> Nat]
    /\ Exclusive \subseteq Jobs
    /\ Dormant \subseteq Jobs
    /\ ReservedCores \subseteq Nat
    /\ NoSession \notin Pids

Status   == {"pending", "running", "done", "failed", "skipped", "dormant"}
Terminal == {"done", "failed", "skipped"}

Reasons ==
    {"", "exit", "signal", "killed_signal", "oom_killed", "launch_error",
     "dependency_failed", "zombie_at_restart", "killed_by_user"}

JobRecord ==
    [status: Status, session: Pids \cup {NoSession}, cpu_list: CpuLists,
     reason: Reasons]

JobLists == [Jobs -> JobRecord]

\* The job list load_queue builds from the queue file.
Yaml ==
    [j \in Jobs |-> [status   |-> IF j \in Dormant THEN "dormant" ELSE "pending",
                     session  |-> NoSession,
                     cpu_list |-> {},
                     reason   |-> ""]]

With(list, s) == {j \in Jobs : list[j].status = s}
Running(list) == With(list, "running")
Pending(list) == With(list, "pending")

\* The orders the orchestrator visits jobs in: list order, and the sort key
\* (priority, id) of a launch pass.
FirstInFile(j, S) == j \in S /\ \A k \in S : Position[j] <= Position[k]

\* Mutant: the launch pass follows the file.
FirstInFileOrder(j, S) == FirstInFile(j, S)

FirstToLaunch(j, S) ==
    /\ j \in S
    /\ \A k \in S :
         \/ Priority[j] < Priority[k]
         \/ Priority[j] = Priority[k] /\ IdRank[j] <= IdRank[k]

Held(list, j) ==
    IF list[j].status = "running" THEN ParseCpuList(list[j].cpu_list) ELSE {}

\* Mutant: only the operator's reservation is avoided.
OccupiedReserved(list) == ReservedCores

\* _occupied_cores
OccupiedCores(list) == ReservedCores \cup UNION {Held(list, j) : j \in Jobs}

\* Mutant: a dependency only has to exist and not to have failed.
DepsUnfailed(list, j) ==
    \A dep \in DependsOn[j] : dep \in Jobs /\ list[dep].status \notin {"failed", "skipped"}

\* _deps_satisfied
DepsSatisfied(list, j) ==
    \A dep \in DependsOn[j] : dep \in Jobs /\ list[dep].status = "done"

\* Mutant: a skipped dependency is not passed on.
BlockedByFailed(list, j) ==
    /\ list[j].status = "pending"
    /\ \E dep \in DependsOn[j] : dep \in Jobs => list[dep].status = "failed"

\* Mutant: a dependency that is not done yet blocks.
BlockedUntilDone(list, j) ==
    /\ list[j].status = "pending"
    /\ \E dep \in DependsOn[j] : dep \in Jobs => list[dep].status # "done"

\* A pending job with a dependency that can never be done: the blocker test of
\* _mark_dead_dependents.
Blocked(list, j) ==
    /\ list[j].status = "pending"
    /\ \E dep \in DependsOn[j] :
         dep \in Jobs => list[dep].status \in {"failed", "skipped"}

\* _is_drained
Drained(list) == \A j \in Jobs : list[j].status \notin {"pending", "running"}
=============================================================================
