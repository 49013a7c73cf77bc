---------------------------- MODULE Orchestrator ----------------------------
(***************************************************************************)
(* orchestrator.py: one scheduler process over its life.  It loads the job *)
(* list, reconciles it with the host, and ticks: reap, skip dependents of  *)
(* failures, enforce pins, launch, save if anything changed.  The process  *)
(* may be stopped between ticks, crash anywhere, and be started again on   *)
(* what is on disk; jobs and the host go on meanwhile.                     *)
(*                                                                         *)
(* "file" is what from_queue loads: the saved job list, or the queue       *)
(* file's while no state file exists.                                      *)
(***************************************************************************)
EXTENDS Admission, Runner

CONSTANTS
    InterleaveThreshold,
    OomCooldown,    \* oom_cooldown_seconds, in units of the model's clock
    SliceCap,       \* memory.max of memory_slice in GiB, NoReading if unset
    Endless,        \* jobs whose commands need not end of themselves
    MaxBoots        \* bound: how often the scheduler process is started

ASSUME OrchestratorAssumption ==
    /\ InterleaveThreshold \in Int
    /\ OomCooldown \in Nat
    /\ SliceCap \in Int
    /\ MaxBoots \in Nat

VARIABLES
    pc,         \* where the scheduler process is
    jobs,       \* self.jobs (the queue file's list while no process exists)
    todo,       \* jobs the current pass has still to visit
    changed,    \* an unsaved change was made
    cooldown,   \* in_cooldown: the time left until the OOM cooldown's deadline
    file,
    paused,     \* the pause file exists
    sinceOom,   \* history: the time since this process last reaped an OOM kill,
                \* counted up to OomCooldown
    boots

orchVars == <<pc, jobs, todo, changed, cooldown, file, paused, sinceOom, boots>>
vars == <<pc, jobs, todo, changed, cooldown, file, paused, sinceOom, boots,
          os, handles, journal, ended>>

Places == {"down", "reconcile", "idle", "reap", "skip", "pin", "launch", "returned"}

TypeOK ==
    /\ pc \in Places
    /\ jobs \in JobLists
    /\ todo \subseteq Jobs
    /\ changed \in BOOLEAN
    /\ cooldown \in 0 .. OomCooldown
    /\ file \in JobLists
    /\ paused \in BOOLEAN
    /\ sinceOom \in 0 .. OomCooldown
    /\ boots \in Nat
    /\ RunnerTypeOK

Init ==
    /\ pc = "down"
    /\ jobs = Yaml
    /\ todo = {}
    /\ changed = FALSE
    /\ cooldown = 0
    /\ file = Yaml
    /\ paused = FALSE
    /\ sinceOom = OomCooldown
    /\ boots = 0
    /\ RunnerInit

-----------------------------------------------------------------------------
(* Changes of one entry of a job list. *)

\* Mutant: status and reason swapped.
SettledSwapped(list, j, outcome) ==
    [list EXCEPT ![j].status = outcome.reason, ![j].reason = outcome.status]

Settled(list, j, outcome) ==
    [list EXCEPT ![j].status = outcome.status, ![j].reason = outcome.reason]

\* Mutant: a zombie goes back to the queue.
ZombiedRequeued(list, j) ==
    [list EXCEPT ![j].status = "pending", ![j].cpu_list = {}]

Zombied(list, j) ==
    [list EXCEPT ![j].status = "failed", ![j].reason = "zombie_at_restart",
                 ![j].cpu_list = {}]

Skipped(list, j) ==
    [list EXCEPT ![j].status = "skipped", ![j].reason = "dependency_failed"]

Launched(list, j, placement, p) ==
    [list EXCEPT ![j].status = "running", ![j].session = p,
                 ![j].cpu_list = placement.cpu_list]

NotLaunched(list, j, placement) ==
    [list EXCEPT ![j].status = "failed", ![j].reason = "launch_error",
                 ![j].cpu_list = placement.cpu_list]

\* A pass over the jobs of todo in list order, at place pc.
Visits(j, place) ==
    /\ pc = place
    /\ FirstInFile(j, todo)
    /\ todo' = todo \ {j}

-----------------------------------------------------------------------------
(* Process start, and the reconciliation at the start of run. *)

\* Mutant: the queue file is loaded although a state file exists.
StartFresh ==
    /\ pc = "down"
    /\ boots < MaxBoots
    /\ boots' = boots + 1
    /\ pc' = "reconcile"
    /\ jobs' = Yaml
    /\ todo' = Running(Yaml)
    /\ changed' = FALSE
    /\ cooldown' = 0
    /\ UNCHANGED <<file, paused, sinceOom, runnerVars>>

\* from_queue and the start of run.
Start ==
    /\ pc = "down"
    /\ boots < MaxBoots
    /\ boots' = boots + 1
    /\ pc' = "reconcile"
    /\ jobs' = file
    /\ todo' = Running(file)
    /\ changed' = FALSE
    /\ cooldown' = 0
    /\ UNCHANGED <<file, paused, sinceOom, runnerVars>>

\* run called again in the same process, after max_ticks or completion: the
\* job list and the handles are the ones in memory.
Rerun ==
    /\ "rerun" \in Events
    /\ pc \in {"idle", "returned"}
    /\ boots < MaxBoots
    /\ boots' = boots + 1
    /\ pc' = "reconcile"
    /\ todo' = Running(jobs)
    /\ UNCHANGED <<jobs, changed, cooldown, file, paused, sinceOom, runnerVars>>

\* Mutant: a job without a handle is taken for dead.
ReconcileAll(j) ==
    /\ Visits(j, "reconcile")
    /\ jobs' = Zombied(jobs, j)
    /\ changed' = TRUE
    /\ UNCHANGED <<pc, cooldown, file, paused, sinceOom, boots, runnerVars>>

\* Mutant: the scope is not asked.
ReconcileByPid(j) ==
    /\ Visits(j, "reconcile")
    /\ IF IsAlive(j, jobs[j].session)
       THEN UNCHANGED <<jobs, changed>>
       ELSE jobs' = Zombied(jobs, j) /\ changed' = TRUE
    /\ UNCHANGED <<pc, cooldown, file, paused, sinceOom, boots, runnerVars>>

\* One job of _reconcile_zombies.
Reconcile(j) ==
    /\ Visits(j, "reconcile")
    /\ IF IsAlive(j, jobs[j].session) \/ ScopeActive(j)
       THEN UNCHANGED <<jobs, changed>>
       ELSE jobs' = Zombied(jobs, j) /\ changed' = TRUE
    /\ UNCHANGED <<pc, cooldown, file, paused, sinceOom, boots, runnerVars>>

\* The save if any zombie was found, and the first tick.
Reconciled ==
    /\ pc = "reconcile"
    /\ todo = {}
    /\ pc' = "reap"
    /\ todo' = Running(jobs)
    /\ file' = IF changed THEN jobs ELSE file
    /\ changed' = FALSE
    /\ UNCHANGED <<jobs, cooldown, paused, sinceOom, boots, runnerVars>>

-----------------------------------------------------------------------------
(* A tick. *)

Tick ==
    /\ pc = "idle"
    /\ pc' = "reap"
    /\ todo' = Running(jobs)
    /\ UNCHANGED <<jobs, changed, cooldown, file, paused, sinceOom, boots, runnerVars>>

\* Mutant: a cooldown that runs is left to run out.
ReapUncooled(j) ==
    /\ Visits(j, "reap")
    /\ ~IsAlive(j, jobs[j].session)
    /\ LET outcome == Outcome(Returncode(jobs[j].session), journal)
           oom     == outcome.reason = "oom_killed"
       IN  /\ jobs' = Settled(jobs, j, outcome)
           /\ cooldown' = IF oom /\ cooldown = 0 THEN OomCooldown ELSE cooldown
           /\ sinceOom' = IF oom THEN 0 ELSE sinceOom
    /\ Forget(jobs[j].session)
    /\ changed' = TRUE
    /\ UNCHANGED <<pc, file, paused, boots, journal, ended>>

\* Mutant: the change is not reported to the tick.
ReapSilent(j) ==
    /\ Visits(j, "reap")
    /\ ~IsAlive(j, jobs[j].session)
    /\ jobs' = Settled(jobs, j, Outcome(Returncode(jobs[j].session), journal))
    /\ Forget(jobs[j].session)
    /\ UNCHANGED <<pc, changed, cooldown, file, paused, sinceOom, boots, journal, ended>>

\* One job of _reap_finished that is no longer alive.
Reap(j) ==
    /\ Visits(j, "reap")
    /\ ~IsAlive(j, jobs[j].session)
    /\ LET outcome == Outcome(Returncode(jobs[j].session), journal)
           oom     == outcome.reason = "oom_killed"
       IN  /\ jobs' = Settled(jobs, j, outcome)
           /\ cooldown' = IF oom THEN OomCooldown ELSE cooldown
           /\ sinceOom' = IF oom THEN 0 ELSE sinceOom
    /\ Forget(jobs[j].session)
    /\ changed' = TRUE
    /\ UNCHANGED <<pc, file, paused, boots, journal, ended>>

\* One job of _reap_finished that is alive.
StillRuns(j) ==
    /\ Visits(j, "reap")
    /\ IsAlive(j, jobs[j].session)
    /\ UNCHANGED <<pc, jobs, changed, cooldown, file, paused, sinceOom, boots, runnerVars>>

Reaped ==
    /\ pc = "reap"
    /\ todo = {}
    /\ pc' = "skip"
    /\ UNCHANGED <<jobs, todo, changed, cooldown, file, paused, sinceOom, boots, runnerVars>>

\* One job of _mark_dead_dependents; the pass ends at the fixed point.
Skip(j) ==
    /\ pc = "skip"
    /\ Blocked(jobs, j)
    /\ jobs' = Skipped(jobs, j)
    /\ changed' = TRUE
    /\ UNCHANGED <<pc, todo, cooldown, file, paused, sinceOom, boots, runnerVars>>

SkipsDone ==
    /\ pc = "skip"
    /\ \A j \in Jobs : ~Blocked(jobs, j)
    /\ pc' = "pin"
    /\ todo' = Running(jobs)
    /\ UNCHANGED <<jobs, changed, cooldown, file, paused, sinceOom, boots, runnerVars>>

\* One job of _enforce_pins.
EnforcePin(j) ==
    /\ Visits(j, "pin")
    /\ IF jobs[j].cpu_list = {} THEN UNCHANGED os
       ELSE Pin(j, jobs[j].session, ParseCpuList(jobs[j].cpu_list))
    /\ UNCHANGED <<pc, jobs, changed, cooldown, file, paused, sinceOom, boots,
                   handles, journal, ended>>

PinsDone ==
    /\ pc = "pin"
    /\ todo = {}
    /\ pc' = "launch"
    /\ todo' = Pending(jobs)
    /\ UNCHANGED <<jobs, changed, cooldown, file, paused, sinceOom, boots, runnerVars>>

\* allocate as _launch calls it: without the per-node memory gate.
Allocations(list, j) ==
    Placements(JobCores[j], OccupiedCores(list), JobRam[j], InterleaveThreshold,
               NoGate, Unread)

\* What can_launch reads of the host's memory: the accounting of the slice, and
\* while that has no process, also what there is to read without one.
Readings ==
    IF Scoped
    THEN {[used |-> SliceUsed, cap |-> SliceCap, free |-> NoReading]}
            \cup (IF \E p \in Pids : LiveJob(p) THEN {} ELSE Meters)
    ELSE Meters

\* The job is deferred: a dependency is not done, admission says no, or no
\* block of cores is free.
Defer(j) ==
    /\ pc = "launch"
    /\ FirstToLaunch(j, todo)
    /\ todo' = todo \ {j}
    /\ \/ ~DepsSatisfied(jobs, j)
       \/ \E meter \in Readings : ~CanLaunch(jobs, j, paused, cooldown, meter)
       \/ Allocations(jobs, j) = {}
    /\ UNCHANGED <<pc, jobs, changed, cooldown, file, paused, sinceOom, boots, runnerVars>>

\* The next job of a launch pass, when it may start.
Starts(j) ==
    /\ pc = "launch"
    /\ FirstToLaunch(j, todo)
    /\ todo' = todo \ {j}
    /\ DepsSatisfied(jobs, j)
    /\ \E meter \in Readings : CanLaunch(jobs, j, paused, cooldown, meter)

\* _launch.  A session id is written and the job set running in one step with
\* the start: nothing reads the list in between, and a crash there leaves the
\* same file and the same process.
Launch(j) ==
    /\ Starts(j)
    /\ \E p \in Pids : \E placement \in Allocations(jobs, j) :
          /\ StartProcess(j, p, StartCpus(placement.cpu_list))
          /\ jobs' = Launched(jobs, j, placement, p)
    /\ changed' = TRUE
    /\ UNCHANGED <<pc, cooldown, file, paused, sinceOom, boots>>

\* Runner.start raised OSError or RuntimeError.
LaunchFails(j) ==
    /\ "launch_error" \in Events
    /\ Starts(j)
    /\ \E placement \in Allocations(jobs, j) :
          jobs' = NotLaunched(jobs, j, placement)
    /\ changed' = TRUE
    /\ UNCHANGED <<pc, cooldown, file, paused, sinceOom, boots, runnerVars>>

\* The end of a tick: save, return if drained, sleep otherwise.
EndTick ==
    /\ pc = "launch"
    /\ todo = {}
    /\ pc' = IF Drained(jobs) THEN "returned" ELSE "idle"
    /\ file' = IF changed THEN jobs ELSE file
    /\ changed' = FALSE
    /\ UNCHANGED <<jobs, todo, cooldown, paused, sinceOom, boots, runnerVars>>

-----------------------------------------------------------------------------
(* The end of the process, and what happens around it. *)

Dies ==
    /\ pc' = "down"
    /\ jobs' = Yaml
    /\ todo' = {}
    /\ changed' = FALSE
    /\ cooldown' = 0
    /\ sinceOom' = OomCooldown
    /\ OrphansAll
    /\ UNCHANGED <<paused, boots>>

\* The process ends between ticks: an interrupt during the sleep, max_ticks,
\* or run returning.  Jobs are in sessions of their own and live on.
Stop ==
    /\ "stop" \in Events
    /\ pc \in {"idle", "returned"}
    /\ Dies
    /\ UNCHANGED file

\* The process ends anywhere, also with changes not saved: a kill, or an
\* exception that the loop does not catch, as the CalledProcessError of a
\* tmux new-session that fails in the middle of a launch pass.  What the
\* kill-session just before it ended is left to JobEnds.
Crash ==
    /\ "crash" \in Events
    /\ pc \notin {"down", "returned"}
    /\ boots < MaxBoots
    /\ Dies
    /\ UNCHANGED file

\* The host restarts: every process is gone, the kernel log starts anew.
Reboot ==
    /\ "reboot" \in Events
    /\ boots < MaxBoots
    /\ pc # "returned"
    /\ pc' = "down"
    /\ jobs' = Yaml
    /\ todo' = {}
    /\ changed' = FALSE
    /\ cooldown' = 0
    /\ sinceOom' = OomCooldown
    /\ os' = [p \in Pids |-> NoProcess]
    /\ handles' = {}
    /\ journal' = FALSE
    /\ UNCHANGED <<file, paused, boots, ended>>

\* A unit of time passes: the deadline comes nearer.  The clock of the model
\* stands while no cooldown is to be told.
TimePasses ==
    /\ cooldown > 0 \/ sinceOom < OomCooldown
    /\ cooldown' = IF cooldown > 0 THEN cooldown - 1 ELSE 0
    /\ sinceOom' = IF sinceOom < OomCooldown THEN sinceOom + 1 ELSE OomCooldown
    /\ UNCHANGED <<pc, jobs, todo, changed, file, paused, boots, runnerVars>>

\* The operator creates or removes the pause file.
Pause ==
    /\ "pause" \in Events
    /\ paused' = ~paused
    /\ UNCHANGED <<pc, jobs, todo, changed, cooldown, file, sinceOom, boots, runnerVars>>

\* A dormant job is released by an edit while no scheduler runs.
Release(j) ==
    /\ "release" \in Events
    /\ pc = "down"
    /\ file[j].status = "dormant"
    /\ file' = [file EXCEPT ![j].status = "pending"]
    /\ UNCHANGED <<pc, jobs, todo, changed, cooldown, paused, sinceOom, boots, runnerVars>>

Loop ==
    \/ Reconciled \/ Tick \/ Reaped \/ SkipsDone \/ PinsDone \/ EndTick
    \/ \E j \in Jobs : \/ Reconcile(j) \/ Reap(j) \/ StillRuns(j) \/ Skip(j)
                       \/ EnforcePin(j) \/ Defer(j) \/ Launch(j) \/ LaunchFails(j)

World ==
    \/ Host /\ UNCHANGED orchVars
    \/ TimePasses
    \/ Pause
    \/ \E j \in Jobs : Release(j)

Next == Start \/ Rerun \/ Loop \/ Stop \/ Crash \/ Reboot \/ World

Spec == Init /\ [][Next]_vars

\* The scheduler takes its next step, is started when it is down, the jobs
\* that end do so, and time passes.
Fairness ==
    /\ WF_vars(Loop)
    /\ WF_vars(Start)
    /\ WF_vars(TimePasses)
    /\ \A p \in Pids :
         WF_vars(/\ os[p].owner \notin Endless
                 /\ JobEnds(p) \/ OomKill(p)
                 /\ UNCHANGED orchVars)
    /\ WF_vars(/\ \E p \in Pids : KidsEnd(p) \/ ForeignEnds(p)
               /\ UNCHANGED orchVars)

FairSpec == Spec /\ Fairness

-----------------------------------------------------------------------------
(* What a job list promises, in memory and on disk. *)

\* Running jobs hold disjoint blocks of cores outside the reserved ones
\* (_occupied_cores is rebuilt from the CPU-list strings at every launch).
Apart(list) ==
    \A j \in Jobs :
        /\ Held(list, j) \cap ReservedCores = {}
        /\ \A k \in Jobs \ {j} : Held(list, j) \cap Held(list, k) = {}

\* A running exclusive job is the only running job.
Alone(list) ==
    \A j \in Running(list) \cap Exclusive : Running(list) = {j}

\* A job that was launched, whatever became of it, had every dependency done,
\* and they still are.
DepsDone(list) ==
    \A j \in Jobs :
        list[j].status \in {"running", "done", "failed"} => DepsSatisfied(list, j)

\* A skipped job has a dependency that is unknown, failed or skipped, so
\* nothing that could still run is ever skipped.
SkipsJustified(list) ==
    \A j \in Jobs : list[j].status = "skipped" =>
        \E dep \in DependsOn[j] :
            dep \in Jobs => list[dep].status \in {"failed", "skipped"}

\* Running jobs stay within the concurrency cap.
WithinCap(list) == Running(list) # {} => Cardinality(Running(list)) <= MaxConcurrent

\* Both the list in memory and the one a restart would load: the cores of
\* running jobs never overlap.
CoresApart == Apart(jobs) /\ Apart(file)

ExclusiveAlone == Alone(jobs) /\ Alone(file)

DepsRespected == DepsDone(jobs) /\ DepsDone(file)

SkipsHaveCause == SkipsJustified(jobs) /\ SkipsJustified(file)

ConcurrencyCapped == WithinCap(jobs) /\ WithinCap(file)

\* Declared cores and, where no slice accounts for memory, declared RAM of
\* running jobs stay within the budgets through every order of launches,
\* exits and restarts (can_launch counts per launch, not per tick).
BudgetsKept ==
    \A list \in {jobs, file} :
        /\ RunningCores(list) <= CoreBudget
        /\ ~Scoped => RunningRam(list) <= RamBudget

\* The memory of the slice stays under its cap, also with processes the job
\* list knows nothing of: "the kernel is never forced into a pre-emptive slice
\* kill" (architecture.md:362).
SliceWithinCap == SliceCap # NoReading => SliceUsed <= SliceCap

\* What the processes of the slice may come to hold: a running command what its
\* job declared, which its scope caps, and the rest what they have.
Due(p) ==
    IF os[p].state = "up" /\ os[p].owner \in Jobs THEN JobRam[os[p].owner] ELSE os[p].mem

Committed == MapThenSumSet(Due, Pids)

\* The slice is committed past its cap only by a launch made while an earlier
\* job had yet to take what it declared: once memory.current shows what is
\* running, also processes the list has lost, no launch overcommits the slice
\* (_check_ram; what the lag itself leads to is SliceWithinCap's violation).
OvercommitsOnlyInLag ==
    [][SliceCap # NoReading /\ Committed' > SliceCap =>
          Committed > SliceCap \/ SliceUsed < Committed]_vars

\* No job is launched over the head of a pending one that comes before it in
\* (priority, id) and could have been launched at that moment: what a launch
\* pass defers it cannot place later in the pass either.
NoOvertaking ==
    [][\A j, k \in Jobs :
         (/\ pc = "launch"
          /\ jobs[j].status = "pending" /\ jobs'[j].status = "running"
          /\ jobs[k].status = "pending"
          /\ \/ Priority[k] < Priority[j]
             \/ Priority[k] = Priority[j] /\ IdRank[k] < IdRank[j]) =>
            \/ ~DepsSatisfied(jobs, k)
            \/ \E meter \in Readings : ~CanLaunch(jobs, k, paused, cooldown, meter)
            \/ Allocations(jobs, k) = {}]_vars

\* Whenever the scheduler sleeps or has returned, the disk has all it knows:
\* state.py:3-6, a planned restart resumes where it left off.
SavedAtRest == pc \in {"idle", "returned"} => file = jobs

\* Once the disk says a job has finished, no restart, crash or later tick
\* says otherwise (state.py:5: "finished jobs stay finished").
FinishedStaysFinished ==
    [][\A j \in Jobs : file[j].status \in Terminal => file'[j].status = file[j].status]_vars

\* Nothing is launched in the oom_cooldown_seconds after the process reaped an
\* OOM kill (GOTCHAS.md:311, admission.py:10).
NoLaunchAfterOom ==
    [][sinceOom < OomCooldown /\ pc = "launch" => Running(jobs') \subseteq Running(jobs)]_vars

\* A job is recorded done only if its command exited with code 0
\* (architecture.md:274).
DoneMeansExitZero == \A j \in Jobs : jobs[j].status = "done" => ended[j] = 0

\* At rest the retained Popen handles are those of running jobs: none leaks,
\* and none a running job of this process needs is missing.
HandlesOfRunning ==
    pc \in {"idle", "returned"} =>
        /\ \A p \in handles : \E j \in Running(jobs) : jobs[j].session = p
        /\ \A j \in Running(jobs) :
             LET p == jobs[j].session IN os[p].state = "zombie" => p \in handles

\* No job runs twice at the same time.
NeverTwice ==
    \A j \in Jobs : \A p, q \in Pids : Lives(p, j) /\ Lives(q, j) => p = q

\* Live processes of different launches never share a core of the host.
HostCoresApart ==
    \A p, q \in Pids :
        (p # q /\ LiveJob(p) /\ LiveJob(q)) =>
            os[p].cpus \cap os[q].cpus = {}

\* Every live job process is one the scheduler knows of: its job is recorded
\* running under its id, in memory and, at rest or down, on disk.
NothingUntracked ==
    \A p \in Pids : \A j \in Jobs : Lives(p, j) =>
        LET list == IF pc = "down" THEN file ELSE jobs
        IN  list[j].status = "running" /\ list[j].session = p

\* What the scheduler does for one job touches no process of another job or of
\* a stranger: a launch kills a stale session "of the same name" (runner.py:143),
\* enforce_pin re-pins "any of *job*'s processes" (runner.py:309), also where an
\* id the list still holds has been given to somebody else.
OthersLeftAlone ==
    [][\A j \in Jobs, p \in Pids :
         (/\ pc \in {"pin", "launch"} /\ pc' = pc
          /\ j \in todo /\ j \notin todo'
          /\ os[p].owner \in (Jobs \cup {Foreign}) \ {j}) => os'[p] = os[p]]_vars

\* Reconciliation fails a job only when nothing of it runs any more
\* (_reconcile_zombies: "neither its tracked process nor its cgroup scope").
ZombiesAreDead ==
    [][\A j \in Jobs :
         (pc = "reconcile" /\ pc' = "reconcile" /\ jobs'[j] # jobs[j]) => ~Alive(j)]_vars

-----------------------------------------------------------------------------
(* Liveness. *)

\* The jobs that can be left pending for ever: of those with no dependency lost,
\* those the host can never admit and those behind a job that is pending or
\* dormant for ever, or need not end.
MayWait(list, j) ==
    /\ \A dep \in DependsOn[j] :
         dep \in Jobs /\ list[dep].status \notin {"failed", "skipped"}
    /\ \/ JobCores[j] > CoreBudget
       \/ \A node \in NumaNodes : JobCores[j] > Cardinality(NodeCpus[node] \ ReservedCores)
       \/ \E dep \in DependsOn[j] :
            \/ list[dep].status \in {"pending", "dormant"}
            \/ list[dep].status = "running" /\ dep \in Endless

\* Every job reaches a final status on disk unless it is dormant, need not end
\* or may wait, and once no job is left to run or to wait, run returns.
Settles ==
    <>[](/\ \A j \in Jobs :
               \/ file[j].status \in Terminal \cup {"dormant"}
               \/ file[j].status = "running" /\ j \in Endless
               \/ file[j].status = "pending" /\ MayWait(file, j)
         /\ Drained(file) => pc = "returned")

\* A process that left its core block is put back on it, or ends.
DriftIsCorrected ==
    \A p \in Pids :
        (os[p].state = "up" /\ os[p].owner \in Jobs /\ os[p].cpus = HostCpus)
            ~> (os[p].state # "up" \/ os[p].cpus # HostCpus)

-----------------------------------------------------------------------------
(* The scheduler implements the life cycle of JobLifecycle. *)

\* The job list that stands: in memory while the process exists, else on disk.
Standing == IF pc = "down" THEN file ELSE jobs

Lifecycle == INSTANCE JobLifecycle WITH
    Cores  <- (UNION {NodeCpus[node] : node \in NumaNodes}) \ ReservedCores,
    status <- [j \in Jobs |-> Standing[j].status],
    held   <- [j \in Jobs |-> Held(Standing, j)]

\* Whatever the interleaving of exits, launches, stops and starts, jobs only
\* ever make the steps of the life cycle.
ImplementsLifecycle == Lifecycle!Spec
=============================================================================
