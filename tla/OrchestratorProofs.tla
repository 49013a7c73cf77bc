------------------------- MODULE OrchestratorProofs -------------------------
(***************************************************************************)
(* Safety of the scheduler for every queue, host, bound and set of         *)
(* environment events.                                                     *)
(*                                                                         *)
(* TypeCorrect comes first.  Every other property of the job list then     *)
(* rests on two facts: the lists change only by the steps of ListStep      *)
(* (ListsMove), because a pass visits only jobs in the status it looks for *)
(* (PassesCorrect), and ListStep keeps the property.                       *)
(***************************************************************************)
EXTENDS Orchestrator, NumaProofs, FiniteSetTheorems

-----------------------------------------------------------------------------
(***************************************************************************)
(* The queue file's list is a job list.                                    *)
(***************************************************************************)
LEMMA YamlTyped == Yaml \in JobLists
BY DEF Yaml, JobLists, JobRecord, Status, Reasons, CpuLists

(***************************************************************************)
(* reap ends a job in done or failed, with a reason of its own.            *)
(***************************************************************************)
LEMMA OutcomeTyped ==
    ASSUME NEW code, NEW hint \in BOOLEAN
    PROVE  /\ Outcome(code, hint).status \in {"done", "failed"}
           /\ Outcome(code, hint).reason \in Reasons
BY DEF Outcome, Reasons

(***************************************************************************)
(* A free process id is a well-formed table entry.                         *)
(***************************************************************************)
LEMMA NoProcessTyped == NoProcess \in Process
BY DEF NoProcess, Process, Codes

(***************************************************************************)
(* A process that was waited for leaves a well-formed table entry.         *)
(***************************************************************************)
LEMMA WaitedTyped ==
    ASSUME NEW proc \in Process
    PROVE  Waited(proc) \in Process
<1>1. NoCode \in Codes
  BY DEF Codes
<1>2. [proc EXCEPT !.state = "free", !.code = NoCode] \in Process
  BY <1>1 DEF Process
<1>3. QED BY <1>2, NoProcessTyped DEF Waited

(***************************************************************************)
(* A placement of the scheduler is a CPU list of cores that are neither    *)
(* reserved nor held by a running job (allocate over _occupied_cores).     *)
(***************************************************************************)
LEMMA AllocationsAreFree ==
    ASSUME NEW list \in JobLists, NEW j \in Jobs, NEW pl \in Allocations(list, j)
    PROVE  /\ pl.cpu_list \in CpuLists
           /\ ParseCpuList(pl.cpu_list) \cap OccupiedCores(list) = {}
           /\ \A c \in ParseCpuList(pl.cpu_list) : \E node \in NumaNodes : c \in NodeCpus[node]
<1>1. JobCores[j] \in Int
  BY QueueAssumption
<1>2. pl \in Placements(JobCores[j], OccupiedCores(list), JobRam[j], InterleaveThreshold,
                        NoGate, Unread)
  BY DEF Allocations
<1>3. ASSUME NEW c \in ParseCpuList(pl.cpu_list)
      PROVE  \E node \in NumaNodes : c \in NodeCpus[node]
  BY <1>1, <1>2, <1>3, PlacementsAreFree
<1>4. QED BY <1>1, <1>2, <1>3, PlacementsAreFree

(***************************************************************************)
(* The operations on a job list yield job lists.                           *)
(***************************************************************************)
LEMMA ListOperationsTyped ==
    ASSUME NEW list \in JobLists, NEW j \in Jobs
    PROVE  /\ \A outcome : (/\ outcome.status \in Status
                            /\ outcome.reason \in Reasons)
                             => Settled(list, j, outcome) \in JobLists
           /\ Zombied(list, j) \in JobLists
           /\ Skipped(list, j) \in JobLists
           /\ \A pl \in Allocations(list, j) :
                /\ NotLaunched(list, j, pl) \in JobLists
                /\ \A p \in Pids : Launched(list, j, pl, p) \in JobLists
           /\ [list EXCEPT ![j].status = "pending"] \in JobLists
<1> USE DEF JobLists, JobRecord
<1>1. ASSUME NEW outcome, outcome.status \in Status, outcome.reason \in Reasons
      PROVE  Settled(list, j, outcome) \in JobLists
  BY <1>1 DEF Settled
<1>2. Zombied(list, j) \in JobLists
  <2>1. "failed" \in Status /\ "zombie_at_restart" \in Reasons /\ {} \in CpuLists
    BY DEF Status, Reasons, CpuLists
  <2>2. QED BY <2>1 DEF Zombied
<1>3. Skipped(list, j) \in JobLists
  <2>1. "skipped" \in Status /\ "dependency_failed" \in Reasons
    BY DEF Status, Reasons
  <2>2. QED BY <2>1 DEF Skipped
<1>4. ASSUME NEW pl \in Allocations(list, j)
      PROVE  /\ NotLaunched(list, j, pl) \in JobLists
             /\ \A p \in Pids : Launched(list, j, pl, p) \in JobLists
  <2>1. pl.cpu_list \in CpuLists
    BY AllocationsAreFree DEF JobLists, JobRecord
  <2>2. "failed" \in Status /\ "running" \in Status /\ "launch_error" \in Reasons
    BY DEF Status, Reasons
  <2>3. NotLaunched(list, j, pl) \in JobLists
    BY <2>1, <2>2 DEF NotLaunched
  <2>4. ASSUME NEW p \in Pids PROVE Launched(list, j, pl, p) \in JobLists
    BY <2>1, <2>2 DEF Launched
  <2>5. QED BY <2>3, <2>4
<1>5. [list EXCEPT ![j].status = "pending"] \in JobLists
  BY "pending" \in Status DEF Status
<1>6. QED BY <1>1, <1>2, <1>3, <1>4, <1>5

-----------------------------------------------------------------------------
(* The host's process table keeps its type. *)

(***************************************************************************)
(* The exit codes the model writes by name are codes.                      *)
(***************************************************************************)
LEMMA CodesTyped == NoCode \in Codes /\ 1 \in Codes /\ 137 \in Codes /\ Hup \in Codes
BY DEF Codes

(***************************************************************************)
(* What tmux kill-session leaves is well-formed.                           *)
(***************************************************************************)
LEMMA HungUpTyped ==
    ASSUME RunnerTypeOK, NEW panes, NEW obey \in BOOLEAN
    PROVE  /\ HungUp(panes, obey) \in [Pids -> Process]
           /\ EndedBy(panes, obey) \in [Jobs -> Codes]
<1>1. ASSUME NEW p \in Pids PROVE [os[p] EXCEPT !.pane = FALSE] \in Process
  <2>1. os[p] \in Process
    BY DEF RunnerTypeOK
  <2>2. QED BY <2>1 DEF Process
<1>2. HungUp(panes, obey) \in [Pids -> Process]
  BY <1>1, NoProcessTyped DEF HungUp, RunnerTypeOK
<1>3. QED BY <1>2, CodesTyped DEF EndedBy, RunnerTypeOK

(***************************************************************************)
(* A command is started on cores of the host.                              *)
(***************************************************************************)
LEMMA StartCpusTyped ==
    ASSUME NEW list \in CpuLists
    PROVE  StartCpus(list) \in SUBSET Nat
BY ParseTyped, RunnerAssumption DEF StartCpus

(***************************************************************************)
(* A started command, and one that systemd-run refused, are well-formed    *)
(* processes.                                                              *)
(***************************************************************************)
LEMMA SpawnedTyped ==
    ASSUME NEW j \in Jobs, NEW cpus \in SUBSET Nat
    PROVE  Spawned(j, cpus) \in Process /\ Refused(j) \in Process
<1>1. Spawned(j, cpus) \in Process
  <2>1. PICK m \in Int : m = IF "grow" \in Events THEN 0 ELSE JobRam[j]
    BY QueueAssumption
  <2>2. PICK b \in BOOLEAN : b = (Backend = "tmux")
    OBVIOUS
  <2>3. [NoProcess EXCEPT !.owner = j, !.state = "up", !.cpus = cpus, !.mem = m,
                          !.pane = b] \in Process
    BY NoProcessTyped DEF Process
  <2>4. QED BY <2>1, <2>2, <2>3 DEF Spawned
<1>2. Refused(j) \in Process
  <2>1. PICK code \in Codes : code = 1
    BY CodesTyped
  <2>2. [NoProcess EXCEPT !.owner = j, !.state = "zombie", !.code = code] \in Process
    BY NoProcessTyped DEF Process
  <2>3. QED BY <2>1, <2>2, NoProcessTyped DEF Refused
<1>3. QED BY <1>1, <1>2

(***************************************************************************)
(* A launch leaves the host well-formed (Runner.start).                    *)
(***************************************************************************)
LEMMA StartProcessTyped ==
    ASSUME RunnerTypeOK, NEW j \in Jobs, NEW p \in Pids, NEW cpus \in SUBSET Nat,
           StartProcess(j, p, cpus)
    PROVE  RunnerTypeOK'
<1>1. PICK obey \in BOOLEAN : \E stale, collides :
          /\ os' = [HungUp(stale, obey) EXCEPT
                      ![p] = IF collides THEN Refused(j) ELSE Spawned(j, cpus)]
          /\ handles' = IF Backend = "tmux" THEN handles ELSE handles \cup {p}
          /\ ended' = [EndedBy(stale, obey) EXCEPT
                         ![j] = IF collides THEN 1 ELSE NoCode]
          /\ journal' = journal
  BY Zenon DEF StartProcess
<1>2. os' \in [Pids -> Process]
  BY <1>1, HungUpTyped, SpawnedTyped
<1>3. ended' \in [Jobs -> Codes]
  BY <1>1, HungUpTyped, CodesTyped
<1>4. handles' \subseteq Pids /\ journal' \in BOOLEAN
  BY <1>1 DEF RunnerTypeOK
<1>5. QED BY <1>2, <1>3, <1>4 DEF RunnerTypeOK

(***************************************************************************)
(* enforce_pin leaves the table well-formed.                               *)
(***************************************************************************)
LEMMA PinTyped ==
    ASSUME os \in [Pids -> Process], NEW j, NEW session, NEW block \in SUBSET Nat,
           Pin(j, session, block)
    PROVE  os' \in [Pids -> Process]
BY DEF Pin, Process

(***************************************************************************)
(* _forget, with the wait before it, leaves table and handles well-formed. *)
(***************************************************************************)
LEMMA ForgetTyped ==
    ASSUME os \in [Pids -> Process], handles \subseteq Pids, NEW session,
           Forget(session)
    PROVE  os' \in [Pids -> Process] /\ handles' \subseteq Pids
BY WaitedTyped DEF Forget

(***************************************************************************)
(* The end of the scheduler's process leaves the host well-formed.         *)
(***************************************************************************)
LEMMA OrphansTyped ==
    ASSUME RunnerTypeOK, OrphansAll
    PROVE  RunnerTypeOK'
BY WaitedTyped DEF RunnerTypeOK, OrphansAll

(***************************************************************************)
(* The end of a job's command leaves table, handles and history well-      *)
(* formed.                                                                 *)
(***************************************************************************)
LEMMA EndsTyped ==
    ASSUME RunnerTypeOK, NEW p \in Pids, NEW code \in Codes, NEW kids \in BOOLEAN,
           Ends(p, code, kids)
    PROVE  /\ os' \in [Pids -> Process]
           /\ handles' \subseteq Pids
           /\ ended' \in [Jobs -> Codes]
<1> USE DEF RunnerTypeOK, Ends
<1>1. os[p] \in Process
  OBVIOUS
<1>2. [os[p] EXCEPT !.state = "zombie", !.code = code, !.kids = kids,
                    !.mem = IF kids THEN @ ELSE 0, !.pane = FALSE] \in Process
  <2>1. PICK m \in Int : m = IF kids THEN os[p].mem ELSE 0
    BY <1>1 DEF Process
  <2>2. [os[p] EXCEPT !.state = "zombie", !.code = code, !.kids = kids, !.mem = m,
                      !.pane = FALSE] \in Process
    BY <1>1 DEF Process
  <2>3. QED BY <2>1, <2>2
<1>3. os' \in [Pids -> Process]
  BY <1>2, WaitedTyped
<1>4. ended' \in [Jobs -> Codes]
  OBVIOUS
<1>5. QED BY <1>3, <1>4

(***************************************************************************)
(* Nothing the host does breaks its type.                                  *)
(***************************************************************************)
LEMMA HostTyped ==
    ASSUME RunnerTypeOK, Host
    PROVE  RunnerTypeOK'
<1>1. ASSUME NEW p \in Pids, JobEnds(p) PROVE RunnerTypeOK'
  <2>1. PICK code \in ExitCodes, kids \in BOOLEAN : Ends(p, code, kids)
    BY <1>1 DEF JobEnds
  <2>2. code \in Codes
    BY DEF Codes
  <2>3. QED BY <1>1, <2>1, <2>2, EndsTyped DEF JobEnds, RunnerTypeOK
<1>2. ASSUME NEW p \in Pids, OomKill(p) PROVE RunnerTypeOK'
  <2>1. PICK kids \in BOOLEAN : Ends(p, 137, kids)
    BY <1>2 DEF OomKill
  <2>2. QED BY <1>2, <2>1, CodesTyped, EndsTyped DEF OomKill, RunnerTypeOK
<1>3. ASSUME NEW p \in Pids, KidsEnd(p) PROVE RunnerTypeOK'
  <2>1. os[p] \in Process
    BY DEF RunnerTypeOK
  <2>2. [os[p] EXCEPT !.kids = FALSE, !.mem = 0] \in Process
    <3>1. PICK m \in Int : m = 0
      OBVIOUS
    <3>2. [os[p] EXCEPT !.kids = FALSE, !.mem = m] \in Process
      BY <2>1 DEF Process
    <3>3. QED BY <3>1, <3>2
  <2>3. QED BY <1>3, <2>2, NoProcessTyped DEF KidsEnd, RunnerTypeOK
<1>4. ASSUME NEW p \in Pids, Drifts(p) PROVE RunnerTypeOK'
  <2>1. os[p] \in Process
    BY DEF RunnerTypeOK
  <2>2. [os[p] EXCEPT !.cpus = HostCpus] \in Process
    BY <2>1, RunnerAssumption DEF Process
  <2>3. QED BY <1>4, <2>2 DEF Drifts, RunnerTypeOK
<1>5. ASSUME NEW p \in Pids, ForeignStarts(p) PROVE RunnerTypeOK'
  <2>1. [NoProcess EXCEPT !.owner = Foreign, !.state = "up", !.cpus = HostCpus]
          \in Process
    BY NoProcessTyped, RunnerAssumption DEF Process
  <2>2. QED BY <1>5, <2>1 DEF ForeignStarts, RunnerTypeOK
<1>6. ASSUME NEW p \in Pids, ForeignEnds(p) PROVE RunnerTypeOK'
  BY <1>6, NoProcessTyped DEF ForeignEnds, RunnerTypeOK
<1>7. ASSUME JournalAges PROVE RunnerTypeOK'
  BY <1>7 DEF JournalAges, RunnerTypeOK
<1>8. ASSUME NEW p \in Pids, Grows(p) PROVE RunnerTypeOK'
  <2>1. os[p] \in Process /\ JobRam[os[p].owner] \in Int
    BY <1>8, QueueAssumption DEF Grows, RunnerTypeOK
  <2>2. [os[p] EXCEPT !.mem = JobRam[os[p].owner]] \in Process
    BY <2>1 DEF Process
  <2>3. QED BY <1>8, <2>2 DEF Grows, RunnerTypeOK
<1>9. QED BY <1>1, <1>2, <1>3, <1>4, <1>5, <1>6, <1>7, <1>8 DEF Host

-----------------------------------------------------------------------------
(***************************************************************************)
(* The passes over the job list, the launches and the save.                *)
(***************************************************************************)
LEMMA LoopTyped ==
    ASSUME TypeOK, Loop
    PROVE  TypeOK'
<1> USE DEF TypeOK, Places
<1>1. CASE Reconciled
  BY <1>1 DEF Reconciled, Running, With, runnerVars, RunnerTypeOK
<1>2. CASE Tick
  BY <1>2 DEF Tick, Running, With, runnerVars, RunnerTypeOK
<1>3. CASE Reaped
  BY <1>3 DEF Reaped, runnerVars, RunnerTypeOK
<1>4. CASE SkipsDone
  BY <1>4 DEF SkipsDone, Running, With, runnerVars, RunnerTypeOK
<1>5. CASE PinsDone
  BY <1>5 DEF PinsDone, Pending, With, runnerVars, RunnerTypeOK
<1>6. CASE EndTick
  BY <1>6 DEF EndTick, runnerVars, RunnerTypeOK
<1>7. ASSUME NEW j \in Jobs, Reconcile(j) PROVE TypeOK'
  <2>1. jobs' \in JobLists
    BY <1>7, ListOperationsTyped DEF Reconcile
  <2>2. QED BY <1>7, <2>1 DEF Reconcile, Visits, runnerVars, RunnerTypeOK
<1>8. ASSUME NEW j \in Jobs, Reap(j) PROVE TypeOK'
  <2>1. Settled(jobs, j, Outcome(Returncode(jobs[j].session), journal)) \in JobLists
    <3>1. journal \in BOOLEAN
      BY DEF RunnerTypeOK
    <3>2. QED BY <3>1, OutcomeTyped, ListOperationsTyped DEF Status
  <2>2. RunnerTypeOK'
    BY <1>8, ForgetTyped DEF Reap, RunnerTypeOK
  <2>3. cooldown' \in 0 .. OomCooldown /\ sinceOom' \in 0 .. OomCooldown
    BY <1>8, OrchestratorAssumption DEF Reap
  <2>4. QED BY <1>8, <2>1, <2>2, <2>3 DEF Reap, Visits
<1>9. ASSUME NEW j \in Jobs, StillRuns(j) PROVE TypeOK'
  BY <1>9 DEF StillRuns, Visits, runnerVars, RunnerTypeOK
<1>10. ASSUME NEW j \in Jobs, Skip(j) PROVE TypeOK'
  <2>1. jobs' \in JobLists
    BY <1>10, ListOperationsTyped DEF Skip
  <2>2. QED BY <1>10, <2>1 DEF Skip, runnerVars, RunnerTypeOK
<1>11. ASSUME NEW j \in Jobs, EnforcePin(j) PROVE TypeOK'
  <2>1. ParseCpuList(jobs[j].cpu_list) \in SUBSET Nat
    BY ParseTyped DEF JobLists, JobRecord
  <2>2. os' \in [Pids -> Process]
    BY <1>11, <2>1, PinTyped DEF EnforcePin, RunnerTypeOK
  <2>3. QED BY <1>11, <2>2 DEF EnforcePin, Visits, RunnerTypeOK
<1>12. ASSUME NEW j \in Jobs, Defer(j) PROVE TypeOK'
  BY <1>12 DEF Defer, runnerVars, RunnerTypeOK
<1>13. ASSUME NEW j \in Jobs, Launch(j) PROVE TypeOK'
  <2>1. PICK p \in Pids, pl \in Allocations(jobs, j) :
            /\ StartProcess(j, p, StartCpus(pl.cpu_list))
            /\ jobs' = Launched(jobs, j, pl, p)
    BY <1>13 DEF Launch
  <2>2. StartCpus(pl.cpu_list) \in SUBSET Nat
    BY AllocationsAreFree, StartCpusTyped
  <2>3. RunnerTypeOK'
    BY <2>1, <2>2, StartProcessTyped
  <2>4. jobs' \in JobLists
    BY <2>1, ListOperationsTyped
  <2>5. QED BY <1>13, <2>3, <2>4 DEF Launch, Starts
<1>14. ASSUME NEW j \in Jobs, LaunchFails(j) PROVE TypeOK'
  <2>1. jobs' \in JobLists
    BY <1>14, ListOperationsTyped DEF LaunchFails
  <2>2. QED BY <1>14, <2>1 DEF LaunchFails, Starts, runnerVars, RunnerTypeOK
<1>15. QED
  BY <1>1, <1>2, <1>3, <1>4, <1>5, <1>6, <1>7, <1>8, <1>9, <1>10, <1>11, <1>12,
     <1>13, <1>14 DEF Loop

(***************************************************************************)
(* The two ends of the clock of the cooldown.                              *)
(***************************************************************************)
LEMMA ClockEnds == 0 \in 0 .. OomCooldown /\ OomCooldown \in 0 .. OomCooldown
BY OrchestratorAssumption

(***************************************************************************)
(* A step of the scheduler's process, its end, its start or a step of the  *)
(* world keeps every variable's type.                                      *)
(***************************************************************************)
LEMMA TypeStep ==
    ASSUME TypeOK, [Next]_vars
    PROVE  TypeOK'
<1> USE DEF TypeOK, Places
<1>1. CASE Start
  <2>1. RunnerTypeOK'
    BY <1>1 DEF Start, runnerVars, RunnerTypeOK
  <2>2. jobs' \in JobLists /\ todo' \subseteq Jobs /\ boots' \in Nat
    BY <1>1 DEF Start, Running, With
  <2>3. QED BY <1>1, <2>1, <2>2, ClockEnds DEF Start
<1>2. CASE Rerun
  BY <1>2 DEF Rerun, Running, With, runnerVars, RunnerTypeOK
<1>3. CASE Loop
  BY <1>3, LoopTyped
<1>4. CASE Stop
  BY <1>4, YamlTyped, OrphansTyped, ClockEnds DEF Stop, Dies
<1>5. CASE Crash
  BY <1>5, YamlTyped, OrphansTyped, ClockEnds DEF Crash, Dies
<1>6. CASE Reboot
  BY <1>6, YamlTyped, NoProcessTyped, ClockEnds DEF Reboot, RunnerTypeOK
<1>7. CASE World
  <2>1. CASE Host /\ UNCHANGED orchVars
    BY <2>1, HostTyped DEF orchVars
  <2>2. CASE TimePasses
    BY <2>2, OrchestratorAssumption DEF TimePasses, runnerVars, RunnerTypeOK
  <2>3. CASE Pause
    BY <2>3 DEF Pause, runnerVars, RunnerTypeOK
  <2>4. ASSUME NEW j \in Jobs, Release(j) PROVE TypeOK'
    <3>1. file' \in JobLists
      BY <2>4, ListOperationsTyped DEF Release
    <3>2. QED BY <2>4, <3>1 DEF Release, runnerVars, RunnerTypeOK
  <2>5. QED BY <1>7, <2>1, <2>2, <2>3, <2>4 DEF World
<1>8. CASE UNCHANGED vars
  BY <1>8 DEF vars, RunnerTypeOK
<1>9. QED
  BY <1>1, <1>2, <1>3, <1>4, <1>5, <1>6, <1>7, <1>8 DEF Next

(***************************************************************************)
(* The program starts well-typed.                                          *)
(***************************************************************************)
LEMMA TypeInit ==
    ASSUME Init
    PROVE  TypeOK
<1>1. RunnerTypeOK
  BY NoProcessTyped, CodesTyped DEF Init, RunnerInit, RunnerTypeOK
<1>2. QED BY <1>1, YamlTyped, ClockEnds DEF Init, TypeOK, Places

(***************************************************************************)
(* Every variable of the scheduler and of the host keeps its type.         *)
(***************************************************************************)
THEOREM TypeCorrect == Spec => []TypeOK
<1>1. Init => TypeOK
  BY TypeInit
<1>2. TypeOK /\ [Next]_vars => TypeOK'
  BY TypeStep
<1>3. QED BY <1>1, <1>2, PTL DEF Spec

-----------------------------------------------------------------------------
(***************************************************************************)
(* How a job list changes within the life of a scheduler process: a        *)
(* running job ends, a blocked one is skipped, an admitted one is placed   *)
(* and started or fails to start.                                          *)
(***************************************************************************)
JobEnded(list, new, j) ==
    /\ list[j].status = "running"
    /\ \/ \E outcome : /\ outcome.status \in {"done", "failed"}
                       /\ new = Settled(list, j, outcome)
       \/ new = Zombied(list, j)

JobSkipped(list, new, j) == Blocked(list, j) /\ new = Skipped(list, j)

JobTried(list, new, j) ==
    /\ list[j].status = "pending"
    /\ DepsSatisfied(list, j)
    /\ ExclusiveFree(list, j)
    /\ UnderCap(list)
    /\ CoresFit(list, j)
    /\ \E meter \in Readings : RamFits(list, j, meter)
    /\ \E pl \in Allocations(list, j) :
         \/ new = NotLaunched(list, j, pl)
         \/ \E p \in Pids : new = Launched(list, j, pl, p)

ListStep(list, new) ==
    \E j \in Jobs : JobEnded(list, new, j) \/ JobSkipped(list, new, j) \/ JobTried(list, new, j)

Released(list, new) ==
    \E j \in Jobs : /\ list[j].status = "dormant"
                    /\ new = [list EXCEPT ![j].status = "pending"]

Up == pc # "down"

\* How the list in memory and the one on disk change together.
Rests  == jobs' = jobs /\ file' = file /\ Up' = Up
Saves  == jobs' = jobs /\ file' = jobs /\ Up /\ Up'
Loads  == jobs' = file /\ file' = file /\ ~Up /\ Up'
Works  == ListStep(jobs, jobs') /\ file' = file /\ Up /\ Up'
Ending == jobs' = Yaml /\ file' = file /\ ~Up'
Edited == Released(file, file') /\ jobs' = jobs /\ ~Up /\ ~Up'

(***************************************************************************)
(* A pass has still to visit only jobs in the status it is about, as the   *)
(* status checks of _reconcile_zombies, _reap_finished and _launch_pending *)
(* make sure.                                                              *)
(***************************************************************************)
Passes ==
    /\ pc \in {"reconcile", "reap", "pin"} => todo \subseteq Running(jobs)
    /\ pc = "launch" => todo \subseteq Pending(jobs)

(***************************************************************************)
(* Every step keeps Passes.                                                *)
(***************************************************************************)
LEMMA PassesStep ==
    ASSUME TypeOK, Passes, [Next]_vars
    PROVE  Passes'
<1> USE DEF Passes, TypeOK, Running, Pending, With
<1>1. CASE Start
  BY <1>1 DEF Start
<1>2. CASE Rerun
  BY <1>2 DEF Rerun
<1>3. CASE Reconciled \/ Tick \/ Reaped \/ SkipsDone \/ PinsDone \/ EndTick
  BY <1>3 DEF Reconciled, Tick, Reaped, SkipsDone, PinsDone, EndTick
<1>4. ASSUME NEW j \in Jobs, Reconcile(j) PROVE Passes'
  BY <1>4 DEF Reconcile, Visits, Zombied, JobLists
<1>5. ASSUME NEW j \in Jobs, Reap(j) PROVE Passes'
  BY <1>5 DEF Reap, Visits, Settled, JobLists
<1>6. ASSUME NEW j \in Jobs, StillRuns(j) \/ Defer(j) PROVE Passes'
  BY <1>6 DEF StillRuns, Defer, Visits
<1>7. ASSUME NEW j \in Jobs, Skip(j) \/ EnforcePin(j) PROVE Passes'
  BY <1>7 DEF Skip, EnforcePin, Visits
<1>8. ASSUME NEW j \in Jobs, Launch(j) PROVE Passes'
  BY <1>8 DEF Launch, Starts, Launched, JobLists
<1>9. ASSUME NEW j \in Jobs, LaunchFails(j) PROVE Passes'
  BY <1>9 DEF LaunchFails, Starts, NotLaunched, JobLists
<1>10. CASE Stop \/ Crash \/ Reboot
  BY <1>10 DEF Stop, Crash, Reboot, Dies
<1>11. CASE World
  BY <1>11 DEF World, TimePasses, Pause, Release, orchVars
<1>12. CASE UNCHANGED vars
  BY <1>12 DEF vars
<1>13. QED
  BY <1>1, <1>2, <1>3, <1>4, <1>5, <1>6, <1>7, <1>8, <1>9, <1>10, <1>11, <1>12
     DEF Next, Loop

(***************************************************************************)
(* In every reachable state a pass visits only what it is about.           *)
(***************************************************************************)
LEMMA PassesCorrect == Spec => []Passes
<1>1. Init => Passes
  BY DEF Init, Passes
<1>2. TypeOK /\ Passes /\ [Next]_vars => Passes'
  BY PassesStep
<1>3. QED BY <1>1, <1>2, TypeCorrect, PTL DEF Spec

(***************************************************************************)
(* Every step of the program moves the two lists in one of six ways.       *)
(***************************************************************************)
LEMMA ListsMove ==
    ASSUME TypeOK, Passes, [Next]_vars
    PROVE  Rests \/ Saves \/ Loads \/ Works \/ Ending \/ Edited
<1> USE DEF Up
<1>1. CASE Start
  BY <1>1 DEF Start, Loads
<1>2. CASE Rerun
  BY <1>2 DEF Rerun, Rests
<1>3. CASE Reconciled \/ EndTick
  BY <1>3 DEF Reconciled, EndTick, Rests, Saves
<1>4. CASE Tick \/ Reaped \/ SkipsDone \/ PinsDone
  BY <1>4 DEF Tick, Reaped, SkipsDone, PinsDone, Rests
<1>5. ASSUME NEW j \in Jobs, Reconcile(j) PROVE Rests \/ Works
  <2>1. jobs[j].status = "running"
    BY <1>5 DEF Reconcile, Visits, FirstInFile, Passes, Running, With
  <2>2. QED
    BY <1>5, <2>1 DEF Reconcile, Visits, Rests, Works, ListStep, JobEnded
<1>6. ASSUME NEW j \in Jobs, Reap(j) PROVE Works
  <2>1. jobs[j].status = "running"
    BY <1>6 DEF Reap, Visits, FirstInFile, Passes, Running, With
  <2>2. PICK outcome : outcome = Outcome(Returncode(jobs[j].session), journal)
    OBVIOUS
  <2>3. outcome.status \in {"done", "failed"}
    BY <2>2, OutcomeTyped DEF TypeOK, RunnerTypeOK
  <2>4. jobs' = Settled(jobs, j, outcome) /\ file' = file /\ Up /\ Up'
    BY <1>6, <2>2 DEF Reap, Visits
  <2>5. QED BY <2>1, <2>3, <2>4 DEF Works, ListStep, JobEnded
<1>7. ASSUME NEW j \in Jobs, StillRuns(j) \/ EnforcePin(j) \/ Defer(j) PROVE Rests
  BY <1>7 DEF StillRuns, EnforcePin, Defer, Visits, Rests
<1>8. ASSUME NEW j \in Jobs, Skip(j) PROVE Works
  BY <1>8 DEF Skip, Works, ListStep, JobSkipped
<1>9. ASSUME NEW j \in Jobs, Starts(j)
      PROVE  /\ jobs[j].status = "pending" /\ DepsSatisfied(jobs, j)
             /\ ExclusiveFree(jobs, j) /\ UnderCap(jobs) /\ Up
             /\ CoresFit(jobs, j) /\ \E meter \in Readings : RamFits(jobs, j, meter)
  BY <1>9 DEF Starts, FirstToLaunch, CanLaunch, Passes, Pending, With
<1>10. ASSUME NEW j \in Jobs, Launch(j) PROVE Works
  BY <1>9, <1>10 DEF Launch, Works, ListStep, JobTried
<1>11. ASSUME NEW j \in Jobs, LaunchFails(j) PROVE Works
  BY <1>9, <1>11 DEF LaunchFails, Works, ListStep, JobTried
<1>12. CASE Stop \/ Crash \/ Reboot
  BY <1>12 DEF Stop, Crash, Reboot, Dies, Ending
<1>13. CASE World
  BY <1>13 DEF World, TimePasses, Pause, Release, orchVars, Rests, Edited, Released
<1>14. CASE UNCHANGED vars
  BY <1>14 DEF vars, Rests
<1>15. QED
  BY <1>1, <1>2, <1>3, <1>4, <1>5, <1>6, <1>7, <1>8, <1>10, <1>11, <1>12, <1>13,
     <1>14 DEF Next, Loop

-----------------------------------------------------------------------------
(***************************************************************************)
(* What one step makes of the statuses and the cores: it concerns one job, *)
(* which was not terminal; no other job changes.                           *)
(***************************************************************************)
LEMMA StepOfOneJob ==
    ASSUME NEW list \in JobLists, NEW new, ListStep(list, new)
    PROVE  \E j \in Jobs :
             /\ \A k \in Jobs \ {j} : new[k] = list[k]
             /\ \/ /\ list[j].status = "running"
                   /\ new[j].status \in {"done", "failed"}
                \/ /\ Blocked(list, j)
                   /\ new[j].status = "skipped"
                \/ /\ list[j].status = "pending" /\ DepsSatisfied(list, j)
                   /\ ExclusiveFree(list, j) /\ UnderCap(list)
                   /\ CoresFit(list, j)
                   /\ \E meter \in Readings : RamFits(list, j, meter)
                   /\ \/ new[j].status = "failed"
                      \/ /\ new[j].status = "running"
                         /\ ParseCpuList(new[j].cpu_list) \cap OccupiedCores(list) = {}
                         /\ \A c \in ParseCpuList(new[j].cpu_list) :
                              \E node \in NumaNodes : c \in NodeCpus[node]
<1>1. PICK j \in Jobs : JobEnded(list, new, j) \/ JobSkipped(list, new, j)
                          \/ JobTried(list, new, j)
  BY DEF ListStep
<1> USE DEF JobLists, JobRecord
<1>2. CASE JobEnded(list, new, j)
  BY <1>2 DEF JobEnded, Settled, Zombied
<1>3. CASE JobSkipped(list, new, j)
  BY <1>3 DEF JobSkipped, Skipped
<1>4. CASE JobTried(list, new, j)
  <2>1. PICK pl \in Allocations(list, j) :
            \/ new = NotLaunched(list, j, pl)
            \/ \E p \in Pids : new = Launched(list, j, pl, p)
    BY <1>4 DEF JobTried
  <2>2. /\ ParseCpuList(pl.cpu_list) \cap OccupiedCores(list) = {}
        /\ \A c \in ParseCpuList(pl.cpu_list) : \E node \in NumaNodes : c \in NodeCpus[node]
    BY AllocationsAreFree
  <2>3. CASE new = NotLaunched(list, j, pl)
    BY <1>4, <2>3 DEF JobTried, NotLaunched
  <2>4. ASSUME NEW p \in Pids, new = Launched(list, j, pl, p)
        PROVE  /\ \A k \in Jobs \ {j} : new[k] = list[k]
               /\ new[j].status = "running"
               /\ new[j].cpu_list = pl.cpu_list
    BY <2>4 DEF Launched
  <2>5. QED BY <1>4, <2>1, <2>2, <2>3, <2>4 DEF JobTried
<1>5. QED BY <1>1, <1>2, <1>3, <1>4

(***************************************************************************)
(* A released job was dormant and is pending; no other job changes.        *)
(***************************************************************************)
LEMMA ReleaseOfOneJob ==
    ASSUME NEW list \in JobLists, NEW new, Released(list, new)
    PROVE  \E j \in Jobs :
             /\ \A k \in Jobs \ {j} : new[k] = list[k]
             /\ list[j].status = "dormant" /\ new[j].status = "pending"
BY DEF Released, JobLists, JobRecord

(***************************************************************************)
(* No status of the queue file's list but dormant and pending.             *)
(***************************************************************************)
LEMMA YamlStatus == \A j \in Jobs : Yaml[j].status \in {"dormant", "pending"}
BY DEF Yaml

-----------------------------------------------------------------------------
(* Cores. *)

(***************************************************************************)
(* A step keeps the cores of running jobs apart: the one job that gets     *)
(* cores gets free ones.                                                   *)
(***************************************************************************)
LEMMA ApartStep ==
    ASSUME NEW list \in JobLists, NEW new, Apart(list),
           ListStep(list, new) \/ Released(list, new)
    PROVE  Apart(new)
<1>1. PICK j \in Jobs :
          /\ \A k \in Jobs \ {j} : new[k] = list[k]
          /\ \/ new[j].status # "running"
             \/ ParseCpuList(new[j].cpu_list) \cap OccupiedCores(list) = {}
  BY StepOfOneJob, ReleaseOfOneJob
<1>2. \A k \in Jobs \ {j} : Held(new, k) = Held(list, k)
  BY <1>1 DEF Held
<1>3. Held(new, j) \cap OccupiedCores(list) = {}
  BY <1>1 DEF Held
<1>4. \A k \in Jobs : Held(list, k) \subseteq OccupiedCores(list)
  BY DEF OccupiedCores
<1>5. ReservedCores \subseteq OccupiedCores(list)
  BY DEF OccupiedCores
<1> HIDE DEF Held, OccupiedCores
<1>6. QED BY <1>2, <1>3, <1>4, <1>5 DEF Apart

(***************************************************************************)
(* The cores of running jobs never overlap and never touch the reserved    *)
(* ones, in memory and on disk, through every order of launches, exits,    *)
(* crashes, reboots and restarts.                                          *)
(***************************************************************************)
THEOREM CoresNeverShared == Spec => []CoresApart
<1>1. Init => CoresApart
  BY YamlStatus DEF Init, CoresApart, Apart, Held
<1>2. TypeOK /\ Passes /\ CoresApart /\ [Next]_vars => CoresApart'
  <2> SUFFICES ASSUME TypeOK, Passes, CoresApart, [Next]_vars PROVE CoresApart'
    OBVIOUS
  <2>1. Apart(Yaml)
    BY YamlStatus DEF Apart, Held
  <2>2. jobs \in JobLists /\ file \in JobLists
    BY DEF TypeOK
  <2>3. Apart(jobs) /\ Apart(file)
    BY DEF CoresApart
  <2>4. Apart(jobs') /\ Apart(file')
    BY <2>1, <2>2, <2>3, ListsMove, ApartStep
       DEF Rests, Saves, Loads, Works, Ending, Edited
  <2>5. QED BY <2>4 DEF CoresApart
<1>3. QED BY <1>1, <1>2, TypeCorrect, PassesCorrect, PTL DEF Spec

-----------------------------------------------------------------------------
(* Exclusive jobs and the concurrency cap. *)

(***************************************************************************)
(* A step starts at most one job, admitted on the list it changes; but for *)
(* that job the running jobs only get fewer.                               *)
(***************************************************************************)
LEMMA RunningStep ==
    ASSUME NEW list \in JobLists, NEW new,
           ListStep(list, new) \/ Released(list, new)
    PROVE  \/ Running(new) \subseteq Running(list)
           \/ \E j \in Jobs : /\ Running(new) = Running(list) \cup {j}
                              /\ j \notin Running(list)
                              /\ ExclusiveFree(list, j) /\ UnderCap(list)
                              /\ CoresFit(list, j)
                              /\ \E meter \in Readings : RamFits(list, j, meter)
<1>1. CASE ListStep(list, new)
  BY <1>1, StepOfOneJob DEF Running, With
<1>2. CASE Released(list, new)
  BY <1>2, ReleaseOfOneJob DEF Running, With
<1>3. QED BY <1>1, <1>2

(***************************************************************************)
(* A step keeps an exclusive running job the only one.                     *)
(***************************************************************************)
LEMMA AloneStep ==
    ASSUME NEW list \in JobLists, NEW new, Alone(list),
           ListStep(list, new) \/ Released(list, new)
    PROVE  Alone(new)
<1>1. CASE Running(new) \subseteq Running(list)
  BY <1>1 DEF Alone
<1>2. ASSUME NEW j \in Jobs, Running(new) = Running(list) \cup {j}, ExclusiveFree(list, j)
      PROVE  Alone(new)
  BY <1>2 DEF Alone, ExclusiveFree
<1>3. QED BY <1>1, <1>2, RunningStep

(***************************************************************************)
(* While an exclusive job runs no other job does, in memory and on disk,   *)
(* whatever the order of launches in a pass and through crashes and        *)
(* restarts.                                                               *)
(***************************************************************************)
THEOREM ExclusiveRunsAlone == Spec => []ExclusiveAlone
<1>1. Alone(Yaml)
  BY YamlStatus DEF Alone, Running, With
<1>2. Init => ExclusiveAlone
  BY <1>1 DEF Init, ExclusiveAlone
<1>3. TypeOK /\ Passes /\ ExclusiveAlone /\ [Next]_vars => ExclusiveAlone'
  <2> SUFFICES ASSUME TypeOK, Passes, ExclusiveAlone, [Next]_vars PROVE ExclusiveAlone'
    OBVIOUS
  <2>1. jobs \in JobLists /\ file \in JobLists
    BY DEF TypeOK
  <2>2. Alone(jobs) /\ Alone(file)
    BY DEF ExclusiveAlone
  <2>3. Alone(jobs') /\ Alone(file')
    BY <1>1, <2>1, <2>2, ListsMove, AloneStep
       DEF Rests, Saves, Loads, Works, Ending, Edited
  <2>4. QED BY <2>3 DEF ExclusiveAlone
<1>4. QED BY <1>2, <1>3, TypeCorrect, PassesCorrect, PTL DEF Spec

(***************************************************************************)
(* A step keeps the number of running jobs within the cap.                 *)
(***************************************************************************)
LEMMA WithinCapStep ==
    ASSUME NEW list \in JobLists, NEW new, WithinCap(list),
           ListStep(list, new) \/ Released(list, new)
    PROVE  WithinCap(new)
<1>1. IsFiniteSet(Running(list)) /\ Cardinality(Running(list)) \in Nat
  BY QueueAssumption, FS_Subset, FS_CardinalityType DEF Running, With
<1>2. CASE Running(new) \subseteq Running(list)
  <2>1. IsFiniteSet(Running(new))
        /\ Cardinality(Running(new)) <= Cardinality(Running(list))
        /\ Cardinality(Running(new)) \in Nat
    BY <1>1, <1>2, FS_Subset, FS_CardinalityType
  <2>2. Running(new) # {} => Running(list) # {}
    BY <1>2
  <2>3. QED BY <1>1, <2>1, <2>2, AdmissionAssumption DEF WithinCap
<1>3. ASSUME NEW j \in Jobs, Running(new) = Running(list) \cup {j},
             j \notin Running(list), UnderCap(list)
      PROVE  WithinCap(new)
  <2>1. Cardinality(Running(new)) = Cardinality(Running(list)) + 1
    BY <1>1, <1>3, FS_AddElement
  <2>2. QED BY <1>1, <1>3, <2>1, AdmissionAssumption DEF WithinCap, UnderCap
<1>4. QED BY <1>2, <1>3, RunningStep

(***************************************************************************)
(* No launch pass, restart or reload ever has more jobs running than       *)
(* max_concurrent, whatever value it has (with a cap of zero or less none  *)
(* runs at all).                                                           *)
(***************************************************************************)
THEOREM CapKept == Spec => []ConcurrencyCapped
<1>1. WithinCap(Yaml)
  BY YamlStatus DEF WithinCap, Running, With
<1>2. Init => ConcurrencyCapped
  BY <1>1 DEF Init, ConcurrencyCapped
<1>3. TypeOK /\ Passes /\ ConcurrencyCapped /\ [Next]_vars => ConcurrencyCapped'
  <2> SUFFICES ASSUME TypeOK, Passes, ConcurrencyCapped, [Next]_vars PROVE ConcurrencyCapped'
    OBVIOUS
  <2>1. jobs \in JobLists /\ file \in JobLists
    BY DEF TypeOK
  <2>2. WithinCap(jobs) /\ WithinCap(file)
    BY DEF ConcurrencyCapped
  <2>3. WithinCap(jobs') /\ WithinCap(file')
    BY <1>1, <2>1, <2>2, ListsMove, WithinCapStep
       DEF Rests, Saves, Loads, Works, Ending, Edited
  <2>4. QED BY <2>3 DEF ConcurrencyCapped
<1>4. QED BY <1>2, <1>3, TypeCorrect, PassesCorrect, PTL DEF Spec

-----------------------------------------------------------------------------
(* Dependencies. *)

(***************************************************************************)
(* A terminal status is final within the life of a job list.               *)
(***************************************************************************)
LEMMA TerminalStays ==
    ASSUME NEW list \in JobLists, NEW new, ListStep(list, new) \/ Released(list, new),
           NEW j \in Jobs, list[j].status \in Terminal
    PROVE  new[j].status = list[j].status
<1>1. CASE ListStep(list, new)
  BY <1>1, StepOfOneJob DEF Terminal, Blocked
<1>2. CASE Released(list, new)
  BY <1>2, ReleaseOfOneJob DEF Terminal
<1>3. QED BY <1>1, <1>2

(***************************************************************************)
(* A step keeps the dependencies of every launched job done.               *)
(***************************************************************************)
LEMMA DepsDoneStep ==
    ASSUME NEW list \in JobLists, NEW new, DepsDone(list),
           ListStep(list, new) \/ Released(list, new)
    PROVE  DepsDone(new)
<1>1. ASSUME NEW k \in Jobs, DepsSatisfied(list, k) PROVE DepsSatisfied(new, k)
  BY <1>1, TerminalStays DEF DepsSatisfied, Terminal
<1>2. ASSUME NEW k \in Jobs, new[k].status \in {"running", "done", "failed"}
      PROVE  DepsSatisfied(list, k)
  <2>1. CASE ListStep(list, new)
    BY <1>2, <2>1, StepOfOneJob DEF DepsDone
  <2>2. CASE Released(list, new)
    BY <1>2, <2>2, ReleaseOfOneJob DEF DepsDone
  <2>3. QED BY <2>1, <2>2
<1>3. QED BY <1>1, <1>2 DEF DepsDone

(***************************************************************************)
(* Every step keeps the lists in memory and on disk so.                    *)
(***************************************************************************)
LEMMA DepsStep ==
    ASSUME TypeOK, Passes, DepsRespected, [Next]_vars
    PROVE  DepsRespected'
<1>1. DepsDone(Yaml)
  BY YamlStatus DEF DepsDone
<1>2. jobs \in JobLists /\ file \in JobLists
  BY DEF TypeOK
<1>3. DepsDone(jobs) /\ DepsDone(file)
  BY DEF DepsRespected
<1>4. DepsDone(jobs') /\ DepsDone(file')
  BY <1>1, <1>2, <1>3, ListsMove, DepsDoneStep
     DEF Rests, Saves, Loads, Works, Ending, Edited
<1>5. QED BY <1>4 DEF DepsRespected

(***************************************************************************)
(* Every job that was ever launched, whatever became of it, has all its    *)
(* dependencies done, and no later step, crash or restart takes that back. *)
(***************************************************************************)
THEOREM DependenciesRespected == Spec => []DepsRespected
<1>1. Init => DepsRespected
  BY YamlStatus DEF Init, DepsRespected, DepsDone
<1>2. TypeOK /\ Passes /\ DepsRespected /\ [Next]_vars => DepsRespected'
  BY DepsStep
<1>3. QED BY <1>1, <1>2, TypeCorrect, PassesCorrect, PTL DEF Spec

(***************************************************************************)
(* A step keeps a cause for every skipped job.                             *)
(***************************************************************************)
LEMMA SkipsJustifiedStep ==
    ASSUME NEW list \in JobLists, NEW new, SkipsJustified(list),
           ListStep(list, new) \/ Released(list, new)
    PROVE  SkipsJustified(new)
<1>1. ASSUME NEW k \in Jobs, new[k].status = "skipped"
      PROVE  \E dep \in DependsOn[k] :
               dep \in Jobs => list[dep].status \in {"failed", "skipped"}
  <2>1. CASE ListStep(list, new)
    BY <1>1, <2>1, StepOfOneJob DEF SkipsJustified, Blocked
  <2>2. CASE Released(list, new)
    BY <1>1, <2>2, ReleaseOfOneJob DEF SkipsJustified
  <2>3. QED BY <2>1, <2>2
<1>2. ASSUME NEW dep \in Jobs, list[dep].status \in {"failed", "skipped"}
      PROVE  new[dep].status \in {"failed", "skipped"}
  BY <1>2, TerminalStays DEF Terminal
<1>3. QED BY <1>1, <1>2 DEF SkipsJustified

(***************************************************************************)
(* A skipped job always has a dependency that is unknown, failed or        *)
(* skipped: the fixed-point pass never gives up a job that could still     *)
(* run.                                                                    *)
(***************************************************************************)
THEOREM SkipsJustifiedAlways == Spec => []SkipsHaveCause
<1>1. SkipsJustified(Yaml)
  BY YamlStatus DEF SkipsJustified
<1>2. Init => SkipsHaveCause
  BY <1>1 DEF Init, SkipsHaveCause
<1>3. TypeOK /\ Passes /\ SkipsHaveCause /\ [Next]_vars => SkipsHaveCause'
  <2> SUFFICES ASSUME TypeOK, Passes, SkipsHaveCause, [Next]_vars PROVE SkipsHaveCause'
    OBVIOUS
  <2>1. jobs \in JobLists /\ file \in JobLists
    BY DEF TypeOK
  <2>2. SkipsJustified(jobs) /\ SkipsJustified(file)
    BY DEF SkipsHaveCause
  <2>3. SkipsJustified(jobs') /\ SkipsJustified(file')
    BY <1>1, <2>1, <2>2, ListsMove, SkipsJustifiedStep
       DEF Rests, Saves, Loads, Works, Ending, Edited
  <2>4. QED BY <2>3 DEF SkipsHaveCause
<1>4. QED BY <1>2, <1>3, TypeCorrect, PassesCorrect, PTL DEF Spec

-----------------------------------------------------------------------------
(***************************************************************************)
(* The state file.  SavedAtRest is not inductive: what makes it so is that *)
(* at any moment of a process's life the flag is up unless the two lists   *)
(* agree, and that the flag is down at rest.                               *)
(***************************************************************************)
Flagged ==
    /\ Up /\ ~changed => jobs = file
    /\ pc \in {"idle", "returned"} => ~changed

(***************************************************************************)
(* Every step keeps Flagged.                                               *)
(***************************************************************************)
LEMMA FlaggedStep ==
    ASSUME TypeOK, Flagged, [Next]_vars
    PROVE  Flagged'
<1> USE DEF Flagged, Up
<1>1. CASE Start \/ Rerun
  BY <1>1 DEF Start, Rerun
<1>2. CASE Reconciled \/ EndTick
  BY <1>2 DEF Reconciled, EndTick
<1>3. CASE Tick \/ Reaped \/ SkipsDone \/ PinsDone
  BY <1>3 DEF Tick, Reaped, SkipsDone, PinsDone
<1>4. ASSUME NEW j \in Jobs,
             Reconcile(j) \/ Reap(j) \/ StillRuns(j) \/ EnforcePin(j)
      PROVE  Flagged'
  BY <1>4 DEF Reconcile, Reap, StillRuns, EnforcePin, Visits
<1>5. ASSUME NEW j \in Jobs, Skip(j) \/ Defer(j) PROVE Flagged'
  BY <1>5 DEF Skip, Defer
<1>6. ASSUME NEW j \in Jobs, Launch(j) \/ LaunchFails(j) PROVE Flagged'
  BY <1>6 DEF Launch, LaunchFails, Starts
<1>7. CASE Stop \/ Crash \/ Reboot
  BY <1>7 DEF Stop, Crash, Reboot, Dies
<1>8. CASE World
  BY <1>8 DEF World, TimePasses, Pause, Release, orchVars
<1>9. CASE UNCHANGED vars
  BY <1>9 DEF vars
<1>10. QED
  BY <1>1, <1>2, <1>3, <1>4, <1>5, <1>6, <1>7, <1>8, <1>9 DEF Next, Loop

(***************************************************************************)
(* Whenever the scheduler sleeps or has returned, a restart would load     *)
(* exactly the list it has in memory.                                      *)
(***************************************************************************)
THEOREM SavedWheneverAtRest == Spec => []SavedAtRest
<1>1. Init => Flagged
  BY DEF Init, Flagged, Up
<1>2. TypeOK /\ Flagged /\ [Next]_vars => Flagged'
  BY FlaggedStep
<1>3. Flagged => SavedAtRest
  BY DEF Flagged, SavedAtRest, Up
<1>4. QED BY <1>1, <1>2, <1>3, TypeCorrect, PTL DEF Spec

(***************************************************************************)
(* What the disk calls finished, a living process's memory calls the same. *)
(***************************************************************************)
Agrees ==
    Up => \A j \in Jobs : file[j].status \in Terminal => jobs[j].status = file[j].status

(***************************************************************************)
(* Every step keeps Agrees.                                                *)
(***************************************************************************)
LEMMA AgreesStep ==
    ASSUME TypeOK, Passes, Agrees, [Next]_vars
    PROVE  Agrees'
<1>1. CASE Rests \/ Saves \/ Loads \/ Ending \/ Edited
  BY <1>1 DEF Agrees, Rests, Saves, Loads, Ending, Edited
<1>2. CASE Works
  <2>1. ASSUME NEW j \in Jobs, file[j].status \in Terminal
        PROVE  jobs'[j].status = jobs[j].status
    BY <1>2, <2>1, TerminalStays DEF Agrees, Works, TypeOK
  <2>2. QED BY <1>2, <2>1 DEF Agrees, Works
<1>3. QED BY <1>1, <1>2, ListsMove

(***************************************************************************)
(* Once the disk says that a job has finished, no later save, crash,       *)
(* reboot or restart says otherwise.                                       *)
(***************************************************************************)
THEOREM FinishedIsFinal == Spec => FinishedStaysFinished
<1>1. Init => Agrees
  BY DEF Init, Agrees, Up
<1>2. TypeOK /\ Passes /\ Agrees /\ [Next]_vars => Agrees'
  BY AgreesStep
<1>3. TypeOK /\ Passes /\ Agrees /\ [Next]_vars =>
        [\A j \in Jobs : file[j].status \in Terminal
                           => file'[j].status = file[j].status]_vars
  <2> SUFFICES ASSUME TypeOK, Passes, Agrees, [Next]_vars,
                      NEW j \in Jobs, file[j].status \in Terminal
               PROVE  file'[j].status = file[j].status
    OBVIOUS
  <2>1. CASE Rests \/ Loads \/ Works \/ Ending
    BY <2>1 DEF Rests, Loads, Works, Ending
  <2>2. CASE Saves
    BY <2>2 DEF Saves, Agrees
  <2>3. CASE Edited
    BY <2>3, TerminalStays DEF Edited, TypeOK
  <2>4. QED BY <2>1, <2>2, <2>3, ListsMove
<1>4. QED
  BY <1>1, <1>2, <1>3, TypeCorrect, PassesCorrect, PTL DEF Spec, FinishedStaysFinished

-----------------------------------------------------------------------------
(***************************************************************************)
(* The cooldown.  The time that is left and the time since the last OOM    *)
(* kill make up a whole cooldown at least, and a process that is gone has  *)
(* reaped none.                                                            *)
(***************************************************************************)
Cooled ==
    /\ cooldown + sinceOom >= OomCooldown
    /\ ~Up => sinceOom = OomCooldown

(***************************************************************************)
(* Every step keeps Cooled.                                                *)
(***************************************************************************)
LEMMA CooledStep ==
    ASSUME TypeOK, Cooled, [Next]_vars
    PROVE  Cooled'
<1> USE OrchestratorAssumption DEF Cooled, Up, TypeOK
<1>1. CASE Start \/ Rerun
  BY <1>1 DEF Start, Rerun
<1>2. CASE Reconciled \/ Tick \/ Reaped \/ SkipsDone \/ PinsDone \/ EndTick
  BY <1>2 DEF Reconciled, Tick, Reaped, SkipsDone, PinsDone, EndTick
<1>3. ASSUME NEW j \in Jobs,
             Reconcile(j) \/ StillRuns(j) \/ EnforcePin(j) \/ Skip(j) \/ Defer(j)
      PROVE  Cooled'
  BY <1>3 DEF Reconcile, StillRuns, EnforcePin, Skip, Defer, Visits
<1>4. ASSUME NEW j \in Jobs, Reap(j) PROVE Cooled'
  BY <1>4 DEF Reap, Visits
<1>5. ASSUME NEW j \in Jobs, Launch(j) \/ LaunchFails(j) PROVE Cooled'
  BY <1>5 DEF Launch, LaunchFails, Starts
<1>6. CASE Stop \/ Crash \/ Reboot
  BY <1>6 DEF Stop, Crash, Reboot, Dies
<1>7. CASE World
  BY <1>7 DEF World, TimePasses, Pause, Release, orchVars
<1>8. CASE UNCHANGED vars
  BY <1>8 DEF vars
<1>9. QED
  BY <1>1, <1>2, <1>3, <1>4, <1>5, <1>6, <1>7, <1>8 DEF Next, Loop

(***************************************************************************)
(* From the reaping of an OOM kill to the end of the cooldown a process    *)
(* launches nothing, in whatever pass the kill was met.                    *)
(***************************************************************************)
THEOREM CooldownHolds == Spec => NoLaunchAfterOom
<1>1. Init => Cooled
  BY OrchestratorAssumption DEF Init, Cooled
<1>2. TypeOK /\ Cooled /\ [Next]_vars => Cooled'
  BY CooledStep
<1>3. TypeOK /\ Passes /\ Cooled /\ [Next]_vars =>
        [sinceOom < OomCooldown /\ pc = "launch" => Running(jobs') \subseteq Running(jobs)]_vars
  <2> SUFFICES ASSUME TypeOK, Passes, Cooled, [Next]_vars,
                      sinceOom < OomCooldown, pc = "launch"
               PROVE  Running(jobs') \subseteq Running(jobs)
    OBVIOUS
  <2>1. cooldown # 0
    BY OrchestratorAssumption DEF Cooled, TypeOK
  <2>2. \A j \in Jobs : ~Launch(j) /\ ~LaunchFails(j)
    BY <2>1 DEF Launch, LaunchFails, Starts, CanLaunch
  <2>3. CASE Stop \/ Crash \/ Reboot
    <3>1. Running(Yaml) = {}
      BY YamlStatus DEF Running, With
    <3>2. QED BY <2>3, <3>1 DEF Stop, Crash, Reboot, Dies
  <2>4. CASE jobs' = jobs
    BY <2>4
  <2>5. ASSUME NEW j \in Jobs, Skip(j) \/ Reap(j) \/ Reconcile(j) PROVE FALSE
    BY <2>5 DEF Skip, Reap, Reconcile, Visits
  <2>6. CASE Start
    BY <2>6 DEF Start
  <2>7. CASE Rerun
    BY <2>7 DEF Rerun
  <2>8. CASE Loop
    BY <2>8, <2>2, <2>4, <2>5 DEF Loop, Reconciled, Tick, Reaped, SkipsDone, PinsDone, EndTick,
       StillRuns, EnforcePin, Defer, Visits
  <2>9. CASE World
    BY <2>9, <2>4 DEF World, TimePasses, Pause, Release, orchVars
  <2>10. CASE UNCHANGED vars
    BY <2>4, <2>10 DEF vars
  <2>11. QED BY <2>3, <2>6, <2>7, <2>8, <2>9, <2>10 DEF Next
<1>4. QED
  BY <1>1, <1>2, <1>3, TypeCorrect, PassesCorrect, PTL DEF Spec, NoLaunchAfterOom

-----------------------------------------------------------------------------
(* The life cycle. *)

(***************************************************************************)
(* A step of one job list is a step of the life cycle.                     *)
(***************************************************************************)
LEMMA LifecycleStep ==
    ASSUME Standing \in JobLists,
           ListStep(Standing, Standing') \/ Released(Standing, Standing')
    PROVE  Lifecycle!Next
<1> DEFINE cores == (UNION {NodeCpus[node] : node \in NumaNodes}) \ ReservedCores
           st(list) == [j \in Jobs |-> list[j].status]
           hd(list) == [j \in Jobs |-> Held(list, j)]
<1>1. \A s : Lifecycle!In(s) = With(Standing, s)
  BY DEF Lifecycle!In, With
<1>2. ASSUME NEW j \in Jobs, \A k \in Jobs \ {j} : Standing'[k] = Standing[k]
      PROVE  /\ st(Standing') = [st(Standing) EXCEPT ![j] = Standing'[j].status]
             /\ hd(Standing') = [hd(Standing) EXCEPT ![j] = Held(Standing', j)]
             /\ Standing'[j].status # "running" => Held(Standing', j) = {}
             /\ Standing[j].status # "running" => Held(Standing, j) = {}
  BY <1>2 DEF Held
<1>3. ASSUME NEW j \in Jobs, \A k \in Jobs \ {j} : Standing'[k] = Standing[k],
             Standing[j].status # "running", Standing'[j].status # "running"
      PROVE  hd(Standing') = hd(Standing)
  BY <1>2, <1>3
<1>4. CASE ListStep(Standing, Standing')
  <2>1. PICK j \in Jobs :
             /\ \A k \in Jobs \ {j} : Standing'[k] = Standing[k]
             /\ \/ /\ Standing[j].status = "running"
                   /\ Standing'[j].status \in {"done", "failed"}
                \/ /\ Blocked(Standing, j)
                   /\ Standing'[j].status = "skipped"
                \/ /\ Standing[j].status = "pending" /\ DepsSatisfied(Standing, j)
                   /\ ExclusiveFree(Standing, j) /\ UnderCap(Standing)
                   /\ CoresFit(Standing, j)
                   /\ \E meter \in Readings : RamFits(Standing, j, meter)
                   /\ \/ Standing'[j].status = "failed"
                      \/ /\ Standing'[j].status = "running"
                         /\ ParseCpuList(Standing'[j].cpu_list) \cap OccupiedCores(Standing) = {}
                         /\ \A c \in ParseCpuList(Standing'[j].cpu_list) :
                              \E node \in NumaNodes : c \in NodeCpus[node]
    BY <1>4, StepOfOneJob, Zenon
  <2>2. CASE Standing[j].status = "running" /\ Standing'[j].status \in {"done", "failed"}
    <3>1. Lifecycle!End(j)
      BY <1>2, <2>1, <2>2 DEF Lifecycle!End
    <3>2. QED BY <3>1 DEF Lifecycle!Next
  <2>3. CASE Blocked(Standing, j) /\ Standing'[j].status = "skipped"
    <3>1. Standing[j].status = "pending"
      BY <2>3 DEF Blocked
    <3>2. \E dep \in DependsOn[j] :
             dep \in Jobs => dep \in Lifecycle!In("failed") \cup Lifecycle!In("skipped")
      BY <1>1, <2>3 DEF Blocked, With
    <3>3. st(Standing') = [st(Standing) EXCEPT ![j] = "skipped"] /\ hd(Standing') = hd(Standing)
      BY <1>2, <1>3, <2>1, <2>3, <3>1
    <3>4. Lifecycle!Skip(j)
      BY <3>1, <3>2, <3>3 DEF Lifecycle!Skip
    <3>5. QED BY <3>4 DEF Lifecycle!Next
  <2>4. CASE Standing[j].status = "pending" /\ DepsSatisfied(Standing, j)
    <3>1. \A dep \in DependsOn[j] : dep \in Lifecycle!In("done")
      BY <1>1, <2>4 DEF DepsSatisfied, With
    <3>2. CASE Standing'[j].status = "failed"
      <4>1. st(Standing') = [st(Standing) EXCEPT ![j] = "failed"] /\ hd(Standing') = hd(Standing)
        BY <1>2, <1>3, <2>1, <2>4, <3>2
      <4>2. Lifecycle!Reject(j)
        BY <2>4, <3>1, <4>1 DEF Lifecycle!Reject
      <4>3. QED BY <4>2 DEF Lifecycle!Next
    <3>3. CASE /\ Standing'[j].status = "running"
               /\ ExclusiveFree(Standing, j) /\ UnderCap(Standing)
               /\ ParseCpuList(Standing'[j].cpu_list) \cap OccupiedCores(Standing) = {}
               /\ \A c \in ParseCpuList(Standing'[j].cpu_list) :
                    \E node \in NumaNodes : c \in NodeCpus[node]
      <4>1. st(Standing') = [st(Standing) EXCEPT ![j] = "running"]
            /\ hd(Standing') = [hd(Standing) EXCEPT ![j] = Held(Standing', j)]
        BY <1>2, <2>1, <3>3
      <4>2. /\ Lifecycle!Cardinality(Lifecycle!In("running")) < MaxConcurrent
            /\ j \in Exclusive => Lifecycle!In("running") = {}
            /\ Lifecycle!In("running") \cap Exclusive = {}
        BY <1>1, <3>3 DEF ExclusiveFree, UnderCap, Running,
           Lifecycle!Cardinality, Cardinality
      <4>3. Held(Standing', j) \in SUBSET (cores \ UNION {hd(Standing)[k] : k \in Jobs})
        <5>1. ASSUME NEW c \in ParseCpuList(Standing'[j].cpu_list)
              PROVE  c \in cores /\ \A k \in Jobs : c \notin hd(Standing)[k]
          <6>1. c \notin OccupiedCores(Standing) /\ \E node \in NumaNodes : c \in NodeCpus[node]
            BY <3>3
          <6>2. c \notin ReservedCores /\ \A k \in Jobs : c \notin Held(Standing, k)
            BY <6>1 DEF OccupiedCores
          <6>3. PICK node \in NumaNodes : c \in NodeCpus[node]
            BY <6>1
          <6>4. c \in UNION {NodeCpus[nd] : nd \in NumaNodes}
            BY <6>3
          <6>5. QED BY <6>2, <6>4
        <5>2. Held(Standing', j) = ParseCpuList(Standing'[j].cpu_list)
          BY <3>3 DEF Held
        <5>3. QED BY <5>1, <5>2
      <4> HIDE DEF cores
      <4>4. \E block \in SUBSET (cores \ UNION {hd(Standing)[k] : k \in Jobs}) :
               hd(Standing') = [hd(Standing) EXCEPT ![j] = block]
        BY <4>1, <4>3
      <4>5. Lifecycle!Begin(j)
        <5>1. st(Standing)[j] = "pending"
          BY <2>4
        <5>2. QED BY <3>1, <4>1, <4>2, <4>4, <5>1, Zenon DEF Lifecycle!Begin, cores
      <4>6. QED BY <4>5 DEF Lifecycle!Next
    <3>4. QED BY <2>1, <2>3, <2>4, <3>2, <3>3
  <2>5. QED BY <2>1, <2>2, <2>3, <2>4
<1>5. CASE Released(Standing, Standing')
  <2>1. PICK j \in Jobs :
             /\ \A k \in Jobs \ {j} : Standing'[k] = Standing[k]
             /\ Standing[j].status = "dormant" /\ Standing'[j].status = "pending"
    BY <1>5, ReleaseOfOneJob
  <2>2. Lifecycle!Release(j)
    BY <1>2, <1>3, <2>1 DEF Lifecycle!Release
  <2>3. QED BY <2>2 DEF Lifecycle!Next
<1>6. QED BY <1>4, <1>5

(***************************************************************************)
(* Without crashes and reboots the process ends only at rest, so the list  *)
(* a restart loads is the one that stood.                                  *)
(***************************************************************************)
LEMMA StandingMoves ==
    ASSUME "crash" \notin Events, "reboot" \notin Events,
           TypeOK, Passes, Flagged, [Next]_vars
    PROVE  \/ Standing' = Standing
           \/ ListStep(Standing, Standing') \/ Released(Standing, Standing')
<1> USE DEF Standing, Up
<1>1. CASE Start \/ Rerun
  BY <1>1 DEF Start, Rerun
<1>2. CASE Stop
  BY <1>2 DEF Stop, Dies, Flagged
<1>3. CASE Crash \/ Reboot
  BY <1>3 DEF Crash, Reboot
<1>4. CASE Loop \/ World \/ UNCHANGED vars
  <2>1. ~Up <=> ~Up'
    BY <1>4 DEF Loop, Reconciled, Tick, Reaped, SkipsDone, PinsDone, EndTick, Reconcile, Reap,
       StillRuns, Skip, EnforcePin, Defer, Launch, LaunchFails, Starts, Visits, World,
       TimePasses, Pause, Release, orchVars, vars
  <2>2. CASE Ending
    <3>1. Standing' = Standing
      BY <2>1, <2>2 DEF Ending
    <3>2. QED BY <3>1
  <2>3. QED BY <2>1, <2>2, ListsMove DEF Rests, Saves, Loads, Works, Edited
<1>5. QED BY <1>1, <1>2, <1>3, <1>4 DEF Next

(***************************************************************************)
(* While the scheduler ends only at rest it implements the life cycle of   *)
(* JobLifecycle: whatever the order of exits, launches, stops and starts, a *)
(* job only ever begins, ends, is rejected, skipped or released, and the   *)
(* cores it holds come from those that nobody holds.                       *)
(***************************************************************************)
THEOREM LifecycleImplemented ==
    ASSUME "crash" \notin Events, "reboot" \notin Events
    PROVE  Spec => ImplementsLifecycle
<1>1. Init => Lifecycle!Init
  <2> SUFFICES ASSUME Init PROVE Lifecycle!Init
    OBVIOUS
  <2>1. Standing = Yaml
    BY DEF Init, Standing
  <2>2. \A j \in Jobs : Held(Yaml, j) = {}
    BY YamlStatus DEF Held
  <2>3. \A j \in Jobs : Yaml[j].status = IF j \in Dormant THEN "dormant" ELSE "pending"
    BY DEF Yaml
  <2>4. QED BY <2>1, <2>2, <2>3 DEF Lifecycle!Init
<1>2. TypeOK /\ Passes /\ Flagged /\ [Next]_vars =>
        [Lifecycle!Next]_<<[j \in Jobs |-> Standing[j].status], [j \in Jobs |-> Held(Standing, j)]>>
  <2> SUFFICES ASSUME TypeOK, Passes, Flagged, [Next]_vars
               PROVE  \/ Lifecycle!Next
                      \/ /\ [j \in Jobs |-> Standing[j].status]' = [j \in Jobs |-> Standing[j].status]
                         /\ [j \in Jobs |-> Held(Standing, j)]' = [j \in Jobs |-> Held(Standing, j)]
    OBVIOUS
  <2>1. Standing \in JobLists
    BY DEF Standing, TypeOK
  <2>2. CASE Standing' = Standing
    BY <2>2 DEF Held
  <2>3. QED BY <2>1, <2>2, LifecycleStep, StandingMoves
<1>3. Init => Flagged
  BY DEF Init, Flagged, Up
<1>4. TypeOK /\ Flagged /\ [Next]_vars => Flagged'
  BY FlaggedStep
<1>5. QED
  BY <1>1, <1>2, <1>3, <1>4, TypeCorrect, PassesCorrect, PTL
     DEF Spec, ImplementsLifecycle, Lifecycle!Spec
=============================================================================
