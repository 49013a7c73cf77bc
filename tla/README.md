# A verification project for nodepilot

TLA+ models of nodepilot's scheduler, the TLC runs that check them, and TLAPS
proofs of the safety properties that matter most. Paths are those of the
repository (`nodepilot/...`, `docs/...`); modules are files of this directory.

## 1. Inventory

nodepilot runs a queue of jobs on one large machine. One process owns the job
list and polls; jobs are processes in sessions of their own that outlive it; a
JSON file is all that survives a restart.

| Component | State | Operations | Makes it correct |
|---|---|---|---|
| `orchestrator.py` | the job list, the admission controller, the runner | `from_queue`, `run`, the tick (reap, skip dependents, enforce pins, launch, save), zombie reconciliation, `kill`, `reset` | jobs start once, after their dependencies, on cores nobody holds; what the disk says survives any restart; the loop ends |
| `admission.py` | the OOM cooldown deadline | `can_launch`, `trigger_oom_cooldown` | caps and budgets hold after every launch of a pass; exclusive jobs run alone; nothing starts in the cooldown |
| `numa.py` | none | `allocate`, `parse_cpu_list`, `format_cpu_list`, `detect`, `detect_smt_secondary`, `node_memory_gb`, `placement_prefix` | exactly the cores asked for, free ones, on one node; distinct physical cores first; refusal only without room |
| `runner.py` | Popen handles | `start`, `is_alive`, `returncode`, `kill`, `reap`, `enforce_pin`; subprocess and tmux backends | outcomes are the commands'; handles neither leak nor go missing; drifted processes come back; no job's process is touched for another |
| `cgroups.py` | none (systemd's scopes and slice) | `wrap_scope_command`, `scope_is_active`, `SliceMonitor`, `journal_reports_oom`, `oom_score_adj` | evidence of life is not mistaken; the slice stays under its cap |
| `state.py` | the state file | atomic `save_state`, `load_state` | readers see whole lists |
| `config.py` | the queue's declarations | `load_queue`, `Job`, `Config` | ids are unique |
| `cli.py` | none | `run`, `status`, `kill`, `reset`, each a process | commands beside a scheduler do no harm |
| `mpi.py` | none | `rank_binding_plan`, `openmpi_rankfile`, fixed environments; not called by the scheduler | every core of a block is one rank's |
| `logs.py`, `__init__.py` | none | formatting, re-exports | — |

How they interact: the orchestrator calls the others synchronously, in one
thread. Concurrency comes from outside: jobs exit, are OOM-killed, leave
descendants or change their affinity at any moment; process ids are reused; the
scheduler is interrupted, crashes or is started again; `kill`, `reset` and a
second `run` are other processes that share the state file, the recorded pids,
the tmux server and the scope names with the scheduler, and nothing is locked.

The hard behaviours, each at its line in the `hazards` of `PROJECT.json`: the
window between starting a process and the one save at the end of the tick;
judging inherited jobs by a pid or a scope name; exit codes lost with the
handle; a cooldown that lives in memory; budgets over several launches of one
pass; fragmentation and SMT siblings in the allocator; draining through
failures; stale snapshots written back by `kill`; tmux names that match by
prefix; memory that a slice does not show yet.

## 2. Modules

| Module | Models | State and actions |
|---|---|---|
| `CpuList` | CPU-list strings of `numa.py` | a list is the set of its parts; `ParseCpuList`, `FormatCpuList` |
| `Numa` | `allocate`, `node_memory_gb` | pure: `Chosen` (cores on one node), `Candidates`, `Ranks` (the sort key), `Placements` (empty for `None`) |
| `Topology` | `detect`, `detect_smt_secondary`, `numa_nodes_resolved` | pure, over what sysfs shows (constants) |
| `MpiPlan` | `rank_binding_plan`, `openmpi_rankfile` of `mpi.py` | pure: a plan is a function from ranks to cores |
| `NumaPool` | `allocate` in use, on a discovered topology | slots take and give back placements, so the free set is any that a history leaves; calls use all of the interface, also the memory gate, which `_launch` does not pass; MPI ranks are laid on the blocks held |
| `Queue` | `config.py`, the questions `orchestrator.py` asks of a list | job records, `DepsSatisfied`, `Blocked`, `OccupiedCores`, `Drained`, the two visiting orders |
| `Admission` | `can_launch` | pure over the list, the cooldown, the pause file and a memory reading |
| `Runner` | `runner.py` with both backends, scopes and slice accounting of `cgroups.py`, the host | `os` (process table with owner, cores, memory and pane), `handles`, `journal`; `StartProcess`, `Forget`, `KillJob`, `Pin`, `OrphansAll`; the host's own actions |
| `Orchestrator` | one scheduler over its life | `pc`, `jobs`, `todo`, `changed`, `cooldown`, `file`, `paused`; one action per job a pass visits and per phase change; `Start`, `Rerun`, `Stop`, `Crash`, `Reboot`; the operator's `Pause` and `Release` |
| `JobLifecycle` | what the scheduler promises | abstract: `Begin`, `End`, `Reject`, `Skip`, `Release` over statuses and held cores |
| `NodePilot` | the program: two schedulers on one queue beside `kill` and `reset` | a second copy of the scheduler's variables, and `cli`: a kill loads (`KillLoads`), signals (`KillSends`) and saves (`KillSaves`), and the queue moves on between any two of them |
| `CpuListProofs`, `NumaProofs`, `MpiPlanProofs`, `NumaPoolProofs`, `OrchestratorProofs`, `HostProofs`, `BudgetProofs`, `NodePilotProofs` | theorems | section 5 |
| `MCNumaPool`, `MCOrchestrator`, `MCNodePilot` | small instances | values for the constants |

Composition: `CpuList` ⊂ `Numa` ⊂ `Queue` ⊂ (`Admission`, `Runner`) ⊂
`Orchestrator` ⊂ `NodePilot`, and `Numa`, `Topology`, `MpiPlan` ⊂ `NumaPool`,
by EXTENDS. `Orchestrator` instantiates `JobLifecycle` with the list that stands
(in memory while the process lives, on disk otherwise). `NodePilot` instantiates
`Orchestrator` a second time with variables of its own for the process and the
same `file`, `paused` and host, and `Runner` with the handles of both (a child
of either is a zombie until its parent waits for it).

Granularity. One visit of one job by a pass is one step, so a job may end, a
process drift or the scheduler crash between any two visits. Two
simplifications, each harmless for a reason: inside `_launch` the start of the
process, the recorded session and the status change are one step (nothing reads
the list in between, and a crash between them leaves the same file and the same
process as a crash after them); and the fixed-point loop of
`_mark_dead_dependents` skips blocked jobs in any order (the fixed point is the
same one, and jobs exiting meanwhile are not looked at).

Abstractions. A job list is a function from ids to records of what the scheduler
reads back (`status`, `session`, `cpu_list`, `failure_reason` by class);
`numa_node`, times, exit code and metadata are written and never read. The state
file is the list it would load, and a save is one step. The cooldown lasts
`OomCooldown` units of time: `cooldown` is what is left of it and starts again
with every OOM kill reaped, so a second kill moves the deadline on. `sinceOom` is
history, the time since the last such kill, which only `NoLaunchAfterOom` reads.
That an OOM kill is still in the last five minutes of the kernel log is a flag
(`journal`). SIGTERM has no action: a job may end at any time with any of its
codes, or go on. `threads_per_rank=None` is the number -1, which no layout is
asked for with.

With tmux a session is the process of its pane. What `-t name` means is a set of
panes (`Target`): the session of that name or else the only one whose name
begins with it, where `LongerNames` says whose names do. What `pgrep -f id` finds
is the processes of those in `Mentions`: jobs, and also `Foreign`, because a
command line that holds the id may be anyone's. A killed session's command gets
SIGHUP and obeys at once, later or never. A `new-session` that fails is
`Crash`: `_launch` does not catch the exception. What the `kill-session` just
before it ended is left to `JobEnds`, which any job may take at that moment.

Memory is GiB a process has touched. With `"grow"` in `Events` a job starts at
none and takes what it declared at a moment of its choosing; without, it has it
from the start. The slice's reading is the sum over the process table, so it
includes processes that no list knows of. Where no slice accounts, readings are
members of `Meters`.

Properties sit at the end of the module whose state they are about, with the
line of the code or document they come from. Definitions marked *Mutant* are
the code with one plausible mistake; no specification uses them. They are
there to show that each property notices a mistake in the code it is about.

## 3. Runs

All runs but `numa_pool` use `CHECK_DEADLOCK FALSE` because the system may
stop: the scheduler returns when the queue is drained, and a stopped one is
started only `MaxBoots` times. Hosts have two sockets of two cores (`cli`: one
socket; `ticks`: three cores each); queues have two to four jobs (seven in `drain`); two or three process
ids. The process ids are model values, and every run of the scheduler but `drain`
(which has liveness) is reduced by their symmetry: the code only compares
session names and pids for equality.

| Run | Question | Bounds that matter |
|---|---|---|
| `numa_pool` | Is what `allocate` returns free, exact, on distinct physical cores, contiguous when possible, spread over nodes, does it refuse only full nodes, and do MPI ranks split it, after any history? | sysfs with adjacent and distant siblings (10 CPUs) and a node without CPUs, 3 slots, requests of 0–5 cores with and without the memory gate, memory readings unknown or near the cap: fragmentation, oversubscription and both kinds of refusal occur |
| `ticks` | Types, cap and both budgets, while jobs exit or are OOM-killed at any step; does nothing start in the cooldown of the last of several OOM kills? | sockets of three cores; four free jobs `a` to `d` with 1, 1, 3, 2 cores and 2, 2, 5, 1 GiB, cap 2, 4 cores, 6 GiB: the cap alone refuses a third of `a`, `b`, `d`, the cores alone `d` beside `c`, the memory alone `a` beside `c`; cooldown of two units, free memory read or not |
| `restarts` | What a job list never says, through stops and crashes anywhere; with systemd scopes and descendants that outlive leaders: never two processes of one job, no living job called a zombie, and is a slice ever overcommitted whose accounting is up to date? | 3 starts: a crash in a recovery is included; a pipeline with an urgent, exclusive end beside a job of two cores; a slice for two jobs with the margin, and jobs that take their memory when they like |
| `planned` | Does the host agree with the list when the scheduler is only stopped between ticks, is run again, launches fail, jobs are OOM-killed, the pause file comes and goes and strangers reuse pids; and does the scheduler then implement `JobLifecycle`? | a pipeline with an exclusive end and a dormant job; no crash (section 4 says what a crash does); 2 starts; the view leaves out the history of exit codes, which no step and none of its properties reads |
| `drain` | Are the only jobs that wait for ever those that must, does `run` return when it should, is a drifted process put back, is the launch order kept, are outcomes and handles right, and is no process touched for a job whose id it has taken over? | 7 jobs on two process ids, which are reused all the time: oversized, dormant, unknown, failed, skipped and endless dependencies; failures, drift and a reboot; file order and priorities disagree; 2 starts |
| `cli` | With a second scheduler and `kill` or `reset` at any moment, does every launched job keep its dependencies on every list, and do scopes keep every job to one process, whatever hits the wrong process? | tmux with scopes; two jobs with names like `a` and `ab`, so that `-t` and `pgrep -f` find the second under the first's name; one kill at a time, each scheduler started once; the view leaves out the history of exit codes, which no step reads and no property but for its type |

Why the bounds are enough: every rule of admission compares one candidate with
the running set, so three jobs show a rule with a set of two; a crash matters
by where it falls relative to a launch and a save, and two or three starts put
it on both sides of a recovery; dependency chains of three have a middle. What
the bounds cannot show, section 5 proves where it can.

Fairness (`FairSpec`): the loop takes its next step (it is sequential code
whose only wait is a timed sleep), a scheduler that is down is started again
within its bound, commands end unless their job is in `Endless`, descendants
and strangers' processes end, and time passes. `Endless` is what gives
`DriftIsCorrected` its content (were every job to end, every drift would end
with it) and `Settles` its hardest case (the loop must do all else beside a job
that stays). `Settles` names exactly the jobs that may be left: dormant ones,
endless ones, and pending ones with no lost dependency that the host can never
admit or that wait behind such a job. There is no fairness on `Crash`, `Stop`,
`Reboot`, `Pause` or `Release`; a pause file that comes and goes for ever, or
stays, would starve any queue, so `drain` has none. A crash is not in `drain`
either: the process of the endless job it orphans would use up the bounded
process ids, which is the bound's doing and not the code's.

`NoOvertaking` is checked where admission can only get tighter in a pass. The
pause file or the cooldown may go in the middle of one, and then the job after
the last deferred one starts first; nothing in the repository rules that out.

## 4. Where the code and its documents part

Six disagreements are runs that TLC ends with a counterexample (`findings` in
`PROJECT.json` quotes both sides):

- `crash_twice`: a process starts before anything is saved, so after a crash in
  the rest of the tick the next scheduler runs the job a second time. With
  systemd scopes it cannot (`ScopesPreventDoubles`).
- `inherited_done`: a job that ends after its scheduler was restarted has no
  handle, and an unknown exit code counts as success.
- `kill_stale`: `kill` saves the list it loaded, and takes back what the
  scheduler saved meanwhile.
- `kill_cores`: the cores of a killed job are given out before it has ended.
- `slice_kill`: a live slice is read alone. Jobs launched moments before have
  not touched their memory, so a second job that fits the reading is launched
  and both grow past the cap.
- `tmux_others`: when the session of `exp` has ended, a relaunch of `exp` kills
  the session of `exp2` (tmux matches names by prefix).

The other half of the last one has no run of its own. `enforce_pin` finds a tmux
job's processes with `pgrep -f <id>` (`runner.py:377`), which matches the id
anywhere in any command line. Beside a job `ab` or a command that mentions `a`,
each tick puts those processes, a stranger's editor on `a.log` or a `nodepilot
status` on `a.yaml` included, on the cores of `a`, and `ab` never comes to rest on
its own block: the pin of `ab` moves what it finds there back, and the next tick
again. GOTCHAS.md:290 says that the orchestrator "can run `enforce_pin` every tick
without fear", because the tmux server is exempt; nothing else is. Nothing keeps ids
from containing each other (`config.py` asks only that they differ). `cli` has such
ids, and shows that lists, dependencies and `NeverTwice` stand it; what is lost is
the placement. `OthersLeftAlone` is claimed only for the subprocess backend, and
`HostCoresApart` for tmux only where no id is in another's command line.

The model shows others, of the same causes or of less weight, which have no run
of their own: with systemd scopes the relaunch after such a crash fails on the
existing unit, the job is recorded failed and its first process runs on
untracked; a running scheduler's next save takes back the mark of a `kill` or
the effect of a `reset`; the OOM cooldown does not survive a restart
(`orchestrator.py:54` makes a new controller; README.md:288, GOTCHAS.md:311),
so `NoLaunchAfterOom` is about one process; reconciliation spares a job for its
scope but the next reap asks its pid only (GOTCHAS.md:371); an inherited job has
no handle that keeps its id, so a stranger that gets the id is taken for the job:
it is pinned, and the job stays running until the stranger ends; exit code 137
without a kernel-log hint is `killed_signal` (docs/architecture.md:278 says
`oom_killed`); a job whose dependency failed is skipped
(docs/architecture.md:294 says it remains pending); a job that fits the
physical cores of a node gets SMT siblings when some of them are taken
(`numa.py:156`), and a placement comes from the first run that is long enough,
not the largest (`numa.py:294`); with `threads_per_rank` below the stride all
ranks but the last leave cores of theirs unused (`mpi.py:82` promises only for
the remainder that "no core is wasted").

Read from the code and outside the models: `save_state` uses one name for its
temporary file. Two processes that save at once (a `kill` beside the scheduler)
can put a partly written file in place of the state file, or one finds its
temporary file gone and dies of it (`state.py:31` says "readers never observe a
partial file").

## 5. Proofs

All theorems hold for every queue, topology, configuration, set of memory
readings, set of environment events and bound on restarts that satisfy the
named assumptions of the modules (`NumaAssumption`, `TopologyAssumption`,
`NumaPoolAssumption`, `QueueAssumption`, `AdmissionAssumption`,
`RunnerAssumption`, `OrchestratorAssumption`): numbers are numbers, a host has
finitely many nodes with finitely many CPUs, memory readings are whole GiB, a
queue has finitely many jobs, and the kernel shows every thread of a core the
same sibling group. A theorem that needs more names it in its ASSUME, and below.

`CpuListProofs`: `RoundTrip`, formatting a finite set of cores and parsing it
back is the identity (a maximal run around each core exists: its end is the
least id from the core on whose successor is free of the set, and an interval
longer than the set must leave it); `FirstNSize`, a slice `[:n]` has n elements
(by a least counterexample).

`NumaProofs` is about `allocate` itself. `PlacementsAreFree`: a placement is
exactly n cores of one node, none occupied. `PlacementsAreBest`: a placement is
a candidate that ranks no later than any other. `RefusedWhenFull`: there is none
exactly when no node has the cores and passes the memory gate. That something is
chosen from any candidates needs a least one of them, and the library's
induction over finite sets takes an operator, which the provers cannot
instantiate: the components of the sort key take
finitely many values over the nodes, and the best ones are picked one component
after the other.

`MpiPlanProofs`: `RanksApart` (slices of a sorted block that do not overlap as
index ranges share no core; the ranges of two ranks do not overlap while the
width is at most the stride) and `RanksCover` (the rank of a core is its place
divided by the stride, or the last).

`NumaPoolProofs` carries these to every history of the pool: `HeldApart` by
induction over placements and releases, and the properties of the last call by
an invariant that says its result is what `allocate` returns for the recorded
environment: `ExactSize`, `SiblingsLast`, `DistinctCoresFirst` (with the sibling
groups of `Topology`), `ScatteredOnlyWhenFragmented`, `SpreadsOverNodes`,
`RefusesOnlyWhenFull`, `RanksApartUpToStride` and `RanksPartitionBlock`.

`OrchestratorProofs`:

1. `TypeCorrect`, action by action.
2. `PassesCorrect`: what a pass has still to visit has the status the pass is
   about. Without it nothing says that a reaped job was running or a
   launched one pending; it is the strengthening all later proofs need.
3. `ListsMove`: every step moves the list in memory and the list on disk in one
   of six ways (rest, save, load, work, end, edit), and work is a `ListStep`:
   one running job ends, one blocked job is skipped, or one admitted job is
   placed.
4. For each promise of a list a lemma that a `ListStep` keeps it, and from that
   the theorem for both lists: `CoresNeverShared` (with `PlacementsAreFree`),
   `ExclusiveRunsAlone`, `CapKept`, `DependenciesRespected` and
   `SkipsJustifiedAlways` (with `TerminalStays`: terminal statuses are final).
5. `SavedWheneverAtRest` by the invariant `Flagged` (the flag is up unless the
   two lists agree) and `FinishedIsFinal` by `Agrees` (what the disk calls
   finished, memory calls the same).
6. `CooldownHolds` by `Cooled`: what is left of the cooldown and the time since the
   last kill reaped make up at least its whole length, which a second kill must
   keep true.
7. `LifecycleImplemented`, the refinement of `JobLifecycle`, without crashes and
   reboots. What stands is memory while the process lives and the disk when it
   does not, so the proof needs `Flagged` for the two moments when one becomes
   the other: a stop finds them equal, and a start reads what a stop wrote. For
   every other step `ListsMove` says which abstract action it is; that a begun
   job takes free cores is `PlacementsAreFree`.

All but 7 hold with crashes and reboots anywhere: they are the part of the
scheduler's promises that does not depend on the save window of section 4.

`HostProofs` is about the process table. Two theorems need no account of what
the table holds. Their lemma `NoneAppears`: every step but a launch leaves at
most the processes that were there. From it `ScopesPreventDoubles` (with scopes a
launch finds the unit taken while anything of the job lives) and
`ScopesSpareTheLiving`, for both backends and through crashes.

The others say how table and list agree. A family of lemmas (`HostMoves`,
`ForgetMoves`, `OrphansMove`, `PinMoves`, `LaunchMoves`) first states what each
kind of step leaves of each entry. Then, with the set-up each holds in:

- `HandlesAreOfRunning`, within one call of `run` (no `"rerun"`): `Retained` says
  that every handle is the recorded one of a running job, that every zombie has a
  handle, and that none is left when the process is down or reconciles. With
  `run` called again in the process it is false: reconciliation fails a job and
  leaves its handle.
- `NothingGoesUntracked`, without crashes and descendants that outlive their
  leader (and, with tmux, without a name that begins like another): `Tracked`
  adds to the property that no entry has stray descendants and that every
  command of a live tmux session has its pane, without which the next liveness
  test would miss it. It also takes `Flagged`, for the stop and the start.
  `StopsPreventDoubles` follows: the launch pass starts pending jobs, and a
  process that lives belongs to a running one. `crash_twice` is what a crash does
  to both.
- `HostKeepsCoresApart`, where placements bind (`Binding`: the above, every job
  asks for a core, a tool to pin with is installed, nothing drifts): `Confined`
  says that a live process runs within the cores recorded for the running job
  whose session it is. A pin can act for another job than the process's own when
  a process id was reused, which is why the invariant speaks of the recorded
  job; the list's `CoresNeverShared` does the rest.
- `DoneOnlyWithExitZero`, for children of a scheduler that ends with its host
  (`Attended`; `inherited_done` is what happens otherwise): `Accounted` says that
  each running job's child is there or its exit code is kept with its handle,
  that nothing else of a job is up, that none is while the scheduler is down, and
  that what is recorded done ended with 0. After a reboot the jobs on disk have
  lost their processes, and stay so only if no stranger gets their ids before
  they are reconciled: with both kinds of events the property is false.
- `HandlesKeepIdsApart`, under `Attended` too, however often strangers and other jobs
  reuse ids: a launch and a pin leave every process alone that is not of their
  job. A pin acts on a recorded number, so this needs that the number is still
  the job's: by `Accounted` it is, because the handle of a running job keeps the
  zombie, and so the id, from the exit to the reap (a start that forgot a handle
  would give the id away, which is the mutant of the run). A launch is of a job
  that is not running, and of such a job the table has nothing to forget.

`BudgetProofs` is about sums. `MapThenSumSet` is a fold, a function picked by
its recursion equation; a sum is shown to be the value of any function with that
equation (`TotalOfAdds`), one to exist (`AddsExists`), and one element more to
add its weight (`TotalAdds`), whichever elements the fold takes first. The
induction that needs is over the natural numbers up to the size of the set, by a
least counterexample.

- `BudgetsAlwaysKept`, for declared numbers and budgets that are not negative
  (`Sized`; without a slice there is no reading of one either): a launch adds the request to sums `can_launch` has just taken, every
  other step has no running job more.
- `OvercommitsOnlyWhileBehind` says what the slice's reading is worth when jobs take
  their memory at any time or never. What processes hold or have yet to take is
  `Committed`; the theorem is that a step takes it past the cap only where the
  reading was below it, that is by a launch while an earlier job has not yet
  taken what it declared. It assumes a slice with a cap that no single job
  exceeds (`Capped`; otherwise an idle slice admits the job that is too large), and
  holds through crashes, restarts and with processes that no list knows of,
  because admission reads the slice and not the list. Inductive is `HeldByJobs`:
  memory is held by live processes of jobs and none has more than it declared, so
  a slice that is read as empty is empty and no growth adds to `Committed`. The
  cap itself is not kept: `slice_kill`.
- `NobodyIsOvertaken`, where nothing but launches changes what admission sees
  (`Calm`: no pause file, no OOM kill, no slice): `PassedOver` says that
  whatever the pass has left pending behind it is still barred. `StillBarred` is
  its core: a launch or an end within the pass gives no deferred job its
  dependencies, its place or its cores back.

`NodePilotProofs` is about the program with two schedulers, `kill` and `reset`.
It takes the proofs about one scheduler over by instances: `Other` is `HostProofs`
with the variables of the second scheduler, `Both` with the handles of both, and
the step lemmas (`TypeStep`, `PassesStep`, `ListsMove`, `NeverTwiceStep`)
are stated for a step and not for a behaviour so that they serve there. What is proved first is that the copies of the definitions in
`Second` and `Shared` are those of `Other` and `Both` (`SecondSteps`, `Typings`),
which is a matter of expanding both.

- `NodePilotTypes`, with `Killing`: the kill command's target runs in the list
  it has loaded.
- `ListsSoundEverywhere`: each of the four lists (two in memory, one on disk, one
  in the hands of a kill) keeps all that a list promises: cores apart, exclusive
  jobs alone, the cap, dependencies done, a cause for every skip. The inductive
  invariant adds that both schedulers' passes are about the jobs they should be
  about. A list is only ever copied whole or moved by a `ListStep`, and what
  `kill` writes is a `ListStep` of the list it loaded, however old that is.
  `DependenciesRespectedByAll` follows. This is about lists: that two schedulers
  give one core to two jobs of different lists is not excluded by anything.
- `SchedulersPreventDoubles`, with scopes.

The refinement proof found a mistake in the model: the mapping's
`UNION {...} \ ReservedCores` parsed as a union of the nodes' sets less the
reserved ids, which takes nothing away, and so allowed the abstract life cycle to
hand out reserved cores; it has its parentheses now. Two assumptions were added
because the proofs need them: there are finitely many nodes, and the pool's
memory readings are integers per node.

Only model-checked: the liveness properties `Settles` and `DriftIsCorrected`,
because liveness under fairness is out of the prover's reach. Every other
property of a passing run is the conclusion of a theorem whose hypotheses the
run's constants satisfy; where a theorem has hypotheses, a run of section 4 or
the paragraph above shows what happens outside of them.

## 6. Not modelled

- The two steps of a save and the temporary file they share (section 4).
- The YAML constructor and the host probing of `config.py` (their results are
  constants); logging and re-exports (nothing reads what they produce); `status`
  (it prints).
- The fixed Open MPI flags and the OpenMP environments of `mpi.py`,
  `oom_score_adj`, `MemoryHigh` and the argument lists: they only inform other
  programs. Of `placement_prefix` the memory binding is left out.
- What SIGTERM does to a stranger with a reused process id.
- The advisory `maxcore` rule, which only words a decision.

## 7. Plan

Order of the work, the most important behaviour first. Done: 1–9 and 11.

1. `CpuList`, `Numa`, `NumaPool`: the allocator, checked and proved.
2. `Queue`, `Admission`, `Runner`, `Orchestrator`: the scheduler over its life.
3. `JobLifecycle` and the refinement, model-checked.
4. `NodePilot`: `kill` and `reset` beside the scheduler.
5. `OrchestratorProofs`: types and the promises of the job list.
6. The tmux backend: sessions by name, kill before start, no exit codes, pins by
   substring, and the uncaught exception in a launch pass.
7. Two schedulers on one state file; `reset` while jobs run.
8. The slice's accounting as state that lags behind launches.
9. `Topology` and `MpiPlan`, with the preferences of the allocator and the rank
   layouts proved; the process table with scopes proved.
10. A save in its two steps with several writers.
11. Proofs about the host, the budgets and the whole program: the refinement of
    `JobLifecycle` without crashes, handles, tracking, cores of the host, exit
    codes, ids kept by handles, the slice's accounting, the launch order, and two
    schedulers.
12. The budgets and handles of `NodePilot`'s schedulers, and the kill command's
    effect on the host, as theorems of the whole program.
