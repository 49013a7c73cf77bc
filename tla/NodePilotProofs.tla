---------------------------- MODULE NodePilotProofs ----------------------------
(***************************************************************************)
(* What two schedulers on one queue and the kill and reset commands keep,  *)
(* whatever they overwrite of each other.  The proofs about one scheduler  *)
(* serve for the second and for the host that both share: they are         *)
(* instantiated with its variables.                                        *)
(***************************************************************************)
EXTENDS NodePilot, HostProofs

\* The facts about one scheduler, for the second one.
Other == INSTANCE HostProofs WITH
    pc <- pc2, jobs <- jobs2, todo <- todo2, changed <- changed2,
    cooldown <- cooldown2, sinceOom <- sinceOom2, boots <- boots2, handles <- handles2

\* The facts about the host, where both schedulers have children.
Both == INSTANCE HostProofs WITH handles <- handles \cup handles2

(***************************************************************************)
(* The assumptions about the constants that the instances rest on.         *)
(***************************************************************************)
LEMMA Assumptions ==
    /\ NumaAssumption /\ QueueAssumption /\ AdmissionAssumption
    /\ RunnerAssumption /\ OrchestratorAssumption
BY NumaAssumption, QueueAssumption, AdmissionAssumption, RunnerAssumption,
   OrchestratorAssumption

-----------------------------------------------------------------------------
(* The second scheduler is another one. *)

(***************************************************************************)
(* A step of the second scheduler is one of that instance.  Both have      *)
(* copies of the definitions of Numa, Queue, Admission, Runner and         *)
(* Orchestrator; what the copies stand for is the same.                    *)
(***************************************************************************)
LEMMA SecondSteps ==
    /\ Second!Loop => Other!Loop
    /\ Second!Start \/ Second!Rerun => Other!Start \/ Other!Rerun
    /\ Second!Stop \/ Second!Crash => Other!Stop \/ Other!Crash
    /\ Second!TimePasses => Other!TimePasses
<1>1. Second!Loop => Other!Loop
  BY Zenon
     DEF Second!Allocations, Other!Allocations, Second!Blocked, Other!Blocked,
         Second!CanLaunch, Other!CanLaunch, Second!Candidates, Other!Candidates,
         Second!Cardinality, Other!Cardinality, Second!Chosen, Other!Chosen,
         Second!CoresFit, Other!CoresFit, Second!Defer, Other!Defer,
         Second!DepsSatisfied, Other!DepsSatisfied, Second!Drained, Other!Drained,
         Second!EndTick, Other!EndTick, Second!EndedBy, Other!EndedBy,
         Second!EnforcePin, Other!EnforcePin, Second!ExclusiveFree, Other!ExclusiveFree,
         Second!FirstInFile, Other!FirstInFile, Second!FirstN, Other!FirstN,
         Second!FirstToLaunch, Other!FirstToLaunch, Second!Forget, Other!Forget,
         Second!FormatCpuList, Other!FormatCpuList, Second!Free, Other!Free,
         Second!Held, Other!Held, Second!HungUp, Other!HungUp, Second!Hup, Other!Hup,
         Second!IsAlive, Other!IsAlive, Second!IsFirstRun, Other!IsFirstRun,
         Second!IsRun, Other!IsRun, Second!Launch, Other!Launch, Second!LaunchFails,
         Other!LaunchFails, Second!Launched, Other!Launched, Second!LiveJob,
         Other!LiveJob, Second!Lives, Other!Lives, Second!LivesIn, Other!LivesIn,
         Second!Loop, Other!Loop, Second!MapThenFoldSet, Other!MapThenFoldSet,
         Second!MapThenSumSet, Other!MapThenSumSet, Second!NoCode, Other!NoCode,
         Second!NoGate, Other!NoGate, Second!NoProcess, Other!NoProcess,
         Second!NoReading, Other!NoReading, Second!NodeAdmits, Other!NodeAdmits,
         Second!NotLaunched, Other!NotLaunched, Second!OccupiedCores,
         Other!OccupiedCores, Second!Outcome, Other!Outcome, Second!ParseCpuList,
         Other!ParseCpuList, Second!Pending, Other!Pending, Second!Pin, Other!Pin,
         Second!PinsDone, Other!PinsDone, Second!Placements, Other!Placements,
         Second!Primaries, Other!Primaries, Second!ProcessesOf, Other!ProcessesOf,
         Second!RamFits, Other!RamFits, Second!Ranks, Other!Ranks, Second!Readings,
         Other!Readings, Second!Reap, Other!Reap, Second!Reaped, Other!Reaped,
         Second!Reconcile, Other!Reconcile, Second!Reconciled, Other!Reconciled,
         Second!Refused, Other!Refused, Second!Returncode, Other!Returncode,
         Second!RunStarts, Other!RunStarts, Second!Running, Other!Running,
         Second!RunningCores, Other!RunningCores, Second!RunningRam, Other!RunningRam,
         Second!ScopeActive, Other!ScopeActive, Second!ScopeIn, Other!ScopeIn,
         Second!Settled, Other!Settled, Second!Siblings, Other!Siblings, Second!Skip,
         Other!Skip, Second!Skipped, Other!Skipped, Second!SkipsDone, Other!SkipsDone,
         Second!SliceUsed, Other!SliceUsed, Second!Spawned, Other!Spawned,
         Second!StartCpus, Other!StartCpus, Second!StartProcess, Other!StartProcess,
         Second!Starts, Other!Starts, Second!StillRuns, Other!StillRuns, Second!Target,
         Other!Target, Second!Tick, Other!Tick, Second!UnderCap, Other!UnderCap,
         Second!Unread, Other!Unread, Second!UsedGb, Other!UsedGb, Second!Visits,
         Other!Visits, Second!Waited, Other!Waited, Second!WillInterleave,
         Other!WillInterleave, Second!With, Other!With, Second!Zombied, Other!Zombied,
         Second!runnerVars, Other!runnerVars
<1>2. Second!Start \/ Second!Rerun => Other!Start \/ Other!Rerun
  BY Zenon
     DEF Second!Rerun, Other!Rerun, Second!Running, Other!Running, Second!Start,
         Other!Start, Second!With, Other!With, Second!runnerVars, Other!runnerVars
<1>3. Second!Stop \/ Second!Crash => Other!Stop \/ Other!Crash
  BY Zenon
     DEF Second!Crash, Other!Crash, Second!Dies, Other!Dies, Second!NoCode,
         Other!NoCode, Second!NoProcess, Other!NoProcess, Second!OrphansAll,
         Other!OrphansAll, Second!Stop, Other!Stop, Second!Waited, Other!Waited,
         Second!Yaml, Other!Yaml
<1>4. Second!TimePasses => Other!TimePasses
  BY Zenon
     DEF Second!TimePasses, Other!TimePasses, Second!runnerVars,
         Other!runnerVars
<1>5. QED BY <1>1, <1>2, <1>3, <1>4

-----------------------------------------------------------------------------
(* Types. *)

\* What TypeOK says of one scheduler's own variables, and of what both share.
OwnTyped(place, list, pass, unsaved, cooling, oomed, starts, retained) ==
    /\ place \in Places /\ list \in JobLists /\ pass \subseteq Jobs
    /\ unsaved \in BOOLEAN /\ cooling \in 0 .. OomCooldown /\ oomed \in 0 .. OomCooldown
    /\ starts \in Nat /\ retained \subseteq Pids

FirstTyped  == OwnTyped(pc, jobs, todo, changed, cooldown, sinceOom, boots, handles)
SecondTyped == OwnTyped(pc2, jobs2, todo2, changed2, cooldown2, sinceOom2, boots2, handles2)

BothTyped   ==
    OwnTyped(pc, jobs, todo, changed, cooldown, sinceOom, boots, handles \cup handles2)

SharedTyped ==
    /\ file \in JobLists /\ paused \in BOOLEAN
    /\ os \in [Pids -> Process] /\ journal \in BOOLEAN /\ ended \in [Jobs -> Codes]

(***************************************************************************)
(* The type invariants of the instances, in these terms.                   *)
(***************************************************************************)
LEMMA Typings ==
    /\ (TypeOK <=> FirstTyped /\ SharedTyped) /\ (TypeOK <=> FirstTyped /\ SharedTyped)'
    /\ (Second!TypeOK <=> SecondTyped /\ SharedTyped)
    /\ (Second!TypeOK <=> SecondTyped /\ SharedTyped)'
    /\ (Other!TypeOK <=> SecondTyped /\ SharedTyped)
    /\ (Other!TypeOK <=> SecondTyped /\ SharedTyped)'
    /\ Both!TypeOK <=> BothTyped /\ SharedTyped
    /\ (Both!TypeOK <=> BothTyped /\ SharedTyped)'
<1> USE DEF OwnTyped, FirstTyped, SecondTyped, BothTyped, SharedTyped, TypeOK, RunnerTypeOK
<1>1. (TypeOK <=> FirstTyped /\ SharedTyped) /\ (TypeOK <=> FirstTyped /\ SharedTyped)'
  OBVIOUS
<1>2. /\ Second!TypeOK <=> SecondTyped /\ SharedTyped
      /\ (Second!TypeOK <=> SecondTyped /\ SharedTyped)'
  BY Zenon
     DEF Codes, Second!Codes, CpuLists, Second!CpuLists, Hup, Second!Hup, JobLists,
         Second!JobLists, JobRecord, Second!JobRecord, NoCode, Second!NoCode, Places,
         Second!Places, Process, Second!Process, Reasons, Second!Reasons, RunnerTypeOK,
         Second!RunnerTypeOK, Status, Second!Status, TypeOK, Second!TypeOK
<1>3. /\ Other!TypeOK <=> SecondTyped /\ SharedTyped
      /\ (Other!TypeOK <=> SecondTyped /\ SharedTyped)'
  BY Zenon
     DEF Codes, Other!Codes, CpuLists, Other!CpuLists, Hup, Other!Hup, JobLists,
         Other!JobLists, JobRecord, Other!JobRecord, NoCode, Other!NoCode, Places,
         Other!Places, Process, Other!Process, Reasons, Other!Reasons, RunnerTypeOK,
         Other!RunnerTypeOK, Status, Other!Status, TypeOK, Other!TypeOK
<1>4. /\ Both!TypeOK <=> BothTyped /\ SharedTyped
      /\ (Both!TypeOK <=> BothTyped /\ SharedTyped)'
  BY Zenon
     DEF Codes, Both!Codes, CpuLists, Both!CpuLists, Hup, Both!Hup, JobLists,
         Both!JobLists, JobRecord, Both!JobRecord, NoCode, Both!NoCode, Places,
         Both!Places, Process, Both!Process, Reasons, Both!Reasons, RunnerTypeOK,
         Both!RunnerTypeOK, Status, Both!Status, TypeOK, Both!TypeOK
<1>5. QED BY <1>1, <1>2, <1>3, <1>4

(***************************************************************************)
(* Hanging up a session keeps the types of what all share.                 *)
(***************************************************************************)
LEMMA KillJobTyped ==
    ASSUME SharedTyped, FirstTyped, NEW j \in Jobs, KillJob(j), UNCHANGED <<file, paused>>
    PROVE  SharedTyped'
<1>1. CASE Backend = "tmux"
  <2>1. RunnerTypeOK
    BY DEF SharedTyped, FirstTyped, OwnTyped, RunnerTypeOK
  <2>2. PICK obey \in BOOLEAN : /\ os' = HungUp(Target(j), obey)
                                /\ ended' = EndedBy(Target(j), obey)
                                /\ journal' = journal
    BY <1>1 DEF KillJob
  <2>3. QED BY <2>1, <2>2, HungUpTyped DEF SharedTyped
<1>2. CASE Backend # "tmux"
  BY <1>2 DEF KillJob, runnerVars, SharedTyped
<1>3. QED BY <1>1, <1>2

-----------------------------------------------------------------------------
(* One step of any of the processes. *)

\* The kill command holds a list in which its target runs.
Killing == cli # NoKill => cli.job \in Jobs /\ cli.list[cli.job].status = "running"

\* What the kill command writes.
KilledList ==
    Settled(cli.list, cli.job, [status |-> "failed", reason |-> "killed_by_user"])

(***************************************************************************)
(* The types of all processes in the terms of one.                         *)
(***************************************************************************)
LEMMA AllTypings ==
    LET cliTyped == cli \in [job: Jobs \cup {Nobody}, list: JobLists, sent: BOOLEAN]
    IN  /\ NodePilotTypeOK <=> FirstTyped /\ SecondTyped /\ SharedTyped /\ cliTyped
        /\ (NodePilotTypeOK <=> FirstTyped /\ SecondTyped /\ SharedTyped /\ cliTyped)'
BY Typings DEF NodePilotTypeOK

(***************************************************************************)
(* A scheduler's step is one of the specification it is proved about, and  *)
(* so is one of the host.                                                  *)
(***************************************************************************)
LEMMA StepsOfSchedulers ==
    /\ FirstActs => [Next]_vars
    /\ SecondActs => [Other!Next]_(Other!vars)
    /\ HostActs => [Both!Next]_(Both!vars)
<1>1. FirstActs => Next
  BY DEF FirstActs, Next, World
<1>2. SecondActs => Other!Next
  BY SecondSteps DEF SecondActs, Other!Next, Other!World
<1>3. HostActs => Both!Next
  <2>1. Shared!Host => Both!Host
    BY Zenon
       DEF Shared!Drifts, Both!Drifts, Shared!Ends, Both!Ends, Shared!ForeignEnds,
         Both!ForeignEnds, Shared!ForeignStarts, Both!ForeignStarts, Shared!Grows,
         Both!Grows, Shared!Host, Both!Host, Shared!JobEnds, Both!JobEnds,
         Shared!JournalAges, Both!JournalAges, Shared!KidsEnd, Both!KidsEnd,
         Shared!NoCode, Both!NoCode, Shared!NoProcess, Both!NoProcess, Shared!OomKill,
         Both!OomKill, Shared!Waited, Both!Waited
  <2>2. HostActs => UNCHANGED Both!orchVars
    BY DEF HostActs, firstVars, Both!orchVars
  <2>3. QED BY <2>1, <2>2 DEF HostActs, Both!Next, Both!World
<1>4. QED BY <1>1, <1>2, <1>3

(***************************************************************************)
(* Every step keeps the types, and the kill's target running in its list.  *)
(***************************************************************************)
LEMMA NodePilotTypeStep ==
    ASSUME NodePilotTypeOK, Killing, [NodePilotNext]_allVars
    PROVE  NodePilotTypeOK' /\ Killing'
<1> DEFINE cliTyped == cli \in [job: Jobs \cup {Nobody}, list: JobLists, sent: BOOLEAN]
<1>1. FirstTyped /\ SecondTyped /\ SharedTyped /\ cliTyped
  BY AllTypings
<1>2. SUFFICES FirstTyped' /\ SecondTyped' /\ SharedTyped' /\ cliTyped' /\ Killing'
  BY AllTypings
<1> HIDE DEF cliTyped
<1>3. CASE FirstActs
  <2>1. FirstTyped' /\ SharedTyped'
    BY <1>1, <1>3, Typings, TypeStep, StepsOfSchedulers
  <2>2. SecondTyped' /\ cliTyped' /\ Killing'
    BY <1>1, <1>3
       DEF FirstActs, secondVars, SecondTyped, OwnTyped, Killing, cliTyped, NoKill
  <2>3. QED BY <2>1, <2>2
<1>4. CASE SecondActs
  <2>1. Other!TypeOK'
    BY <1>1, <1>4, Typings, StepsOfSchedulers, Other!TypeStep, Assumptions
       DEF Other!IsFiniteSet, IsFiniteSet
  <2>2. SecondTyped' /\ SharedTyped'
    BY <2>1, Typings
  <2>3. FirstTyped' /\ cliTyped' /\ Killing'
    BY <1>1, <1>4 DEF SecondActs, firstVars, FirstTyped, OwnTyped, Killing, cliTyped, NoKill
  <2>4. QED BY <2>2, <2>3
<1>5. CASE HostActs
  <2>1. SharedTyped'
    <3>1. BothTyped
      BY <1>1 DEF FirstTyped, SecondTyped, BothTyped, OwnTyped
    <3>2. QED
      BY <1>1, <1>5, <3>1, Typings, StepsOfSchedulers, Both!TypeStep, Assumptions
         DEF Both!IsFiniteSet, IsFiniteSet
  <2>2. FirstTyped' /\ SecondTyped' /\ cliTyped' /\ Killing'
    BY <1>1, <1>5 DEF HostActs, firstVars, secondVars, FirstTyped, SecondTyped, OwnTyped,
                      Killing, cliTyped, NoKill
  <2>3. QED BY <2>1, <2>2
<1>6. ASSUME NEW j \in Jobs, KillLoads(j)
      PROVE  FirstTyped' /\ SecondTyped' /\ SharedTyped' /\ cliTyped' /\ Killing'
  <2>1. FirstTyped' /\ SecondTyped' /\ SharedTyped'
    BY <1>1, <1>6
       DEF KillLoads, orchVars, secondVars, runnerVars, FirstTyped, SecondTyped,
           SharedTyped, OwnTyped
  <2>2. cliTyped' /\ Killing'
    BY <1>1, <1>6 DEF KillLoads, SharedTyped, Killing, cliTyped
  <2>3. QED BY <2>1, <2>2
<1>7. CASE KillSends
  <2>1. cli.job \in Jobs
    BY <1>1, <1>7 DEF KillSends, Killing
  <2>2. SharedTyped'
    BY <1>1, <1>7, <2>1, KillJobTyped DEF KillSends, orchVars
  <2>3. handles' = handles
    BY <1>7 DEF KillSends, KillJob, runnerVars
  <2>4. FirstTyped' /\ SecondTyped'
    BY <1>1, <1>7, <2>3
       DEF KillSends, orchVars, secondVars, FirstTyped, SecondTyped, OwnTyped
  <2>5. cliTyped' /\ Killing'
    BY <1>1, <1>7 DEF KillSends, Killing, cliTyped
  <2>6. QED BY <2>2, <2>4, <2>5
<1>8. CASE KillSaves \/ Reset
  <2>1. KillSaves => KilledList \in JobLists
    <3>1. SUFFICES ASSUME KillSaves PROVE KilledList \in JobLists
      OBVIOUS
    <3>2. cli.job \in Jobs /\ cli.list \in JobLists
      BY <1>1, <3>1 DEF KillSaves, Killing, cliTyped, NoKill
    <3>3. QED BY <3>2, ListOperationsTyped DEF KilledList, Status, Reasons
  <2>2. file' \in JobLists
    BY <1>8, <2>1, YamlTyped DEF KillSaves, Reset, KilledList
  <2>3. cliTyped' /\ Killing'
    <3>1. CASE KillSaves
      <4>1. cli' = NoKill
        BY <3>1 DEF KillSaves
      <4>2. NoKill \in [job: Jobs \cup {Nobody}, list: JobLists, sent: BOOLEAN]
        BY YamlTyped DEF NoKill
      <4>3. QED BY <4>1, <4>2, YamlTyped DEF Killing, cliTyped, NoKill
    <3>2. CASE Reset
      BY <1>1, <3>2 DEF Reset, Killing, cliTyped, NoKill
    <3>3. QED BY <1>8, <3>1, <3>2
  <2>4. QED
    BY <1>1, <1>8, <2>2, <2>3
       DEF KillSaves, Reset, firstVars, secondVars, FirstTyped, SecondTyped,
           SharedTyped, OwnTyped
<1>9. CASE UNCHANGED allVars
  BY <1>1, <1>9 DEF allVars, firstVars, secondVars, FirstTyped, SecondTyped, SharedTyped,
                    OwnTyped, Killing, cliTyped, NoKill
<1>10. QED BY <1>3, <1>4, <1>5, <1>6, <1>7, <1>8, <1>9 DEF NodePilotNext

(***************************************************************************)
(* What the whole program starts from.                                     *)
(***************************************************************************)
LEMMA AllInit ==
    ASSUME NodePilotInit
    PROVE  NodePilotTypeOK /\ Killing /\ Init /\ Other!Init
<1>1. Other!Init
  <2>1. Second!Init
    BY DEF NodePilotInit
  <2>2. QED
    BY <2>1, Zenon
       DEF Second!Init, Other!Init, Second!NoCode, Other!NoCode, Second!NoProcess,
         Other!NoProcess, Second!RunnerInit, Other!RunnerInit, Second!Yaml, Other!Yaml
<1>2. TypeOK /\ Other!TypeOK
  BY <1>1, TypeInit, Other!TypeInit, Assumptions
     DEF NodePilotInit, Other!IsFiniteSet, IsFiniteSet
<1>3. cli \in [job: Jobs \cup {Nobody}, list: JobLists, sent: BOOLEAN] /\ Killing
  BY YamlTyped DEF NodePilotInit, NoKill, Killing
<1>4. QED BY <1>1, <1>2, <1>3, Typings, AllTypings DEF NodePilotInit

(***************************************************************************)
(* Types hold in both schedulers, in the kill command and on the host.     *)
(***************************************************************************)
THEOREM NodePilotTypes == NodePilotSpec => []NodePilotTypeOK
<1>1. NodePilotInit => NodePilotTypeOK /\ Killing
  BY AllInit
<1>2. NodePilotTypeOK /\ Killing /\ [NodePilotNext]_allVars => NodePilotTypeOK' /\ Killing'
  BY NodePilotTypeStep
<1>3. QED BY <1>1, <1>2, PTL DEF NodePilotSpec

-----------------------------------------------------------------------------
(* Job lists. *)

\* All that a job list promises.
Sound(list) ==
    Apart(list) /\ Alone(list) /\ WithinCap(list) /\ DepsDone(list) /\ SkipsJustified(list)

\* The lists there are: in the memory of either scheduler, on disk, and in the
\* hands of a kill.
ListsSound == Sound(jobs) /\ Sound(jobs2) /\ Sound(file) /\ Sound(cli.list)

(***************************************************************************)
(* The queue file's list is sound, and a step of a list leaves it so.      *)
(***************************************************************************)
LEMMA SoundSteps ==
    /\ Sound(Yaml)
    /\ \A list \in JobLists : \A new :
         Sound(list) /\ (ListStep(list, new) \/ Released(list, new)) => Sound(new)
<1>1. Sound(Yaml)
  BY YamlStatus
     DEF Sound, Apart, Held, Alone, WithinCap, Running, With, DepsDone, SkipsJustified
<1>2. ASSUME NEW list \in JobLists, NEW new, Sound(list),
             ListStep(list, new) \/ Released(list, new)
      PROVE  Sound(new)
  BY <1>2, ApartStep, AloneStep, WithinCapStep, DepsDoneStep, SkipsJustifiedStep DEF Sound
<1>3. QED BY <1>1, <1>2

\* How a scheduler changes a list of its own and the one on disk.
Moves(list, new) ==
    \/ new = list /\ file' = list
    \/ new = file /\ file' = file
    \/ new = list /\ file' = file
    \/ ListStep(list, new) /\ file' = file
    \/ new = Yaml /\ file' = file
    \/ new = list /\ Released(file, file')

(***************************************************************************)
(* That is how both schedulers do.                                         *)
(***************************************************************************)
LEMMA AllMoves ==
    ASSUME NodePilotTypeOK
    PROVE  /\ Passes /\ FirstActs => Moves(jobs, jobs')
           /\ Other!Passes /\ SecondActs => Moves(jobs2, jobs2')
<1>1. FirstTyped /\ SecondTyped /\ SharedTyped
  BY AllTypings
<1>2. ASSUME Passes, FirstActs PROVE Moves(jobs, jobs')
  <2>1. Rests \/ Saves \/ Loads \/ Works \/ Ending \/ Edited
    BY <1>1, <1>2, Typings, StepsOfSchedulers, ListsMove
  <2>2. QED BY <2>1 DEF Rests, Saves, Loads, Works, Ending, Edited, Moves
<1>3. ASSUME Other!Passes, SecondActs PROVE Moves(jobs2, jobs2')
  <2>1. \/ Other!Rests \/ Other!Saves \/ Other!Loads \/ Other!Works \/ Other!Ending
        \/ Other!Edited
    BY <1>1, <1>3, Typings, StepsOfSchedulers, Other!ListsMove, Assumptions
       DEF Other!IsFiniteSet, IsFiniteSet
  <2>2. Other!Yaml = Yaml
    BY Zenon
       DEF Yaml, Other!Yaml
  <2>3. Other!ListStep(jobs2, jobs2') => ListStep(jobs2, jobs2')
    BY Zenon
       DEF Allocations, Other!Allocations, Blocked, Other!Blocked, Candidates,
           Other!Candidates, Cardinality, Other!Cardinality, Chosen, Other!Chosen,
           CoresFit, Other!CoresFit, DepsSatisfied, Other!DepsSatisfied, ExclusiveFree,
           Other!ExclusiveFree, FirstN, Other!FirstN, FormatCpuList,
           Other!FormatCpuList, Free, Other!Free, Held, Other!Held, IsFirstRun,
           Other!IsFirstRun, IsRun, Other!IsRun, JobEnded, Other!JobEnded, JobSkipped,
           Other!JobSkipped, JobTried, Other!JobTried, Launched, Other!Launched,
           ListStep, Other!ListStep, LiveJob, Other!LiveJob, Lives, Other!Lives,
           LivesIn, Other!LivesIn, MapThenFoldSet, Other!MapThenFoldSet, MapThenSumSet,
           Other!MapThenSumSet, NoGate, Other!NoGate, NoReading, Other!NoReading,
           NodeAdmits, Other!NodeAdmits, NotLaunched, Other!NotLaunched, OccupiedCores,
           Other!OccupiedCores, ParseCpuList, Other!ParseCpuList, Placements,
           Other!Placements, Primaries, Other!Primaries, RamFits, Other!RamFits, Ranks,
           Other!Ranks, Readings, Other!Readings, RunStarts, Other!RunStarts, Running,
           Other!Running, RunningCores, Other!RunningCores, RunningRam,
           Other!RunningRam, Settled, Other!Settled, Siblings, Other!Siblings, Skipped,
           Other!Skipped, SliceUsed, Other!SliceUsed, UnderCap, Other!UnderCap, Unread,
           Other!Unread, UsedGb, Other!UsedGb, WillInterleave, Other!WillInterleave,
           With, Other!With, Zombied, Other!Zombied
  <2>4. Other!Released(file, file') => Released(file, file')
    BY DEF Other!Released, Released
  <2>5. QED
    BY <2>1, <2>2, <2>3, <2>4
       DEF Other!Rests, Other!Saves, Other!Loads, Other!Works, Other!Ending, Other!Edited,
           Moves
<1>4. QED BY <1>2, <1>3

(***************************************************************************)
(* A list and the one on disk stay sound as they move.                     *)
(***************************************************************************)
LEMMA MovesSound ==
    ASSUME NEW list \in JobLists, NEW new, file \in JobLists,
           Sound(list), Sound(file), Moves(list, new)
    PROVE  Sound(new) /\ Sound(file')
BY SoundSteps DEF Moves

(***************************************************************************)
(* What a kill writes is a step of the list it loaded, however old that    *)
(* is: its target, which runs there, has failed.                           *)
(***************************************************************************)
LEMMA KilledIsStep ==
    ASSUME NodePilotTypeOK, Killing, cli # NoKill
    PROVE  cli.list \in JobLists /\ ListStep(cli.list, KilledList)
<1> DEFINE outcome == [status |-> "failed", reason |-> "killed_by_user"]
<1>1. cli.job \in Jobs /\ cli.list \in JobLists /\ cli.list[cli.job].status = "running"
  BY DEF NodePilotTypeOK, Killing
<1>2. /\ outcome.status \in {"done", "failed"}
      /\ KilledList = Settled(cli.list, cli.job, outcome)
  BY DEF KilledList
<1>3. JobEnded(cli.list, KilledList, cli.job)
  BY <1>1, <1>2 DEF JobEnded
<1>4. QED BY <1>1, <1>3 DEF ListStep

\* The inductive invariant: every list is sound, and the passes of both
\* schedulers are about the jobs they should be about.
ListInv ==
    NodePilotTypeOK /\ Killing /\ Passes /\ Other!Passes /\ ListsSound

(***************************************************************************)
(* Every step of every process keeps it.                                   *)
(***************************************************************************)
LEMMA ListInvStep ==
    ASSUME ListInv, [NodePilotNext]_allVars
    PROVE  ListInv'
<1>1. /\ TypeOK /\ Passes /\ Other!TypeOK /\ Other!Passes /\ Killing /\ NodePilotTypeOK
      /\ jobs \in JobLists /\ jobs2 \in JobLists /\ file \in JobLists
      /\ Sound(jobs) /\ Sound(jobs2) /\ Sound(file) /\ Sound(cli.list)
  BY Typings, AllTypings
     DEF ListInv, ListsSound, FirstTyped, SecondTyped, SharedTyped, OwnTyped
<1>2. NodePilotTypeOK' /\ Killing'
  BY <1>1, NodePilotTypeStep
<1> HIDE DEF Sound
<1>3. SUFFICES /\ Passes' /\ Other!Passes'
               /\ Sound(jobs') /\ Sound(jobs2') /\ Sound(file') /\ Sound(cli'.list)
  BY <1>2 DEF ListInv, ListsSound, Sound, Apart, Held, Alone, WithinCap, Running, With,
     DepsDone, DepsSatisfied, SkipsJustified
<1>4. UNCHANGED <<pc, jobs, todo>> => Passes'
  BY <1>1 DEF Passes, Running, Pending, With
<1>5. UNCHANGED <<pc2, jobs2, todo2>> => Other!Passes'
  BY <1>1 DEF Other!Passes, Other!Running, Other!Pending, Other!With
<1>6. CASE FirstActs
  <2>1. Passes' /\ Sound(jobs') /\ Sound(file')
    BY <1>1, <1>6, StepsOfSchedulers, PassesStep, AllMoves, MovesSound
  <2>2. UNCHANGED <<pc2, jobs2, todo2, cli>>
    BY <1>6 DEF FirstActs, secondVars
  <2>3. QED BY <1>1, <1>5, <2>1, <2>2
<1>7. CASE SecondActs
  <2>1. Other!Passes'
    BY <1>1, <1>7, StepsOfSchedulers, Other!PassesStep, Assumptions
       DEF Other!IsFiniteSet, IsFiniteSet
  <2>2. Sound(jobs2') /\ Sound(file')
    BY <1>1, <1>7, AllMoves, MovesSound
  <2>3. UNCHANGED <<pc, jobs, todo, cli>>
    BY <1>7 DEF SecondActs, firstVars
  <2>4. QED BY <1>1, <1>4, <2>1, <2>2, <2>3
<1>8. CASE HostActs \/ UNCHANGED allVars
  <2>1. UNCHANGED <<pc, jobs, todo, pc2, jobs2, todo2, file, cli>>
    BY <1>8 DEF HostActs, allVars, firstVars, secondVars
  <2>2. QED BY <1>1, <1>4, <1>5, <2>1
<1>9. ASSUME NEW j \in Jobs, KillLoads(j)
      PROVE  /\ Passes' /\ Other!Passes'
             /\ Sound(jobs') /\ Sound(jobs2') /\ Sound(file') /\ Sound(cli'.list)
  <2>1. UNCHANGED <<pc, jobs, todo, pc2, jobs2, todo2, file>> /\ cli'.list = file
    BY <1>9 DEF KillLoads, orchVars, secondVars
  <2>2. QED BY <1>1, <1>4, <1>5, <2>1
<1>10. CASE KillSends
  <2>1. UNCHANGED <<pc, jobs, todo, pc2, jobs2, todo2, file>> /\ cli'.list = cli.list
    BY <1>1, <1>10 DEF KillSends, orchVars, secondVars, NodePilotTypeOK
  <2>2. QED BY <1>1, <1>4, <1>5, <2>1
<1>11. CASE KillSaves \/ Reset
  <2>1. UNCHANGED <<pc, jobs, todo, pc2, jobs2, todo2>>
    BY <1>11 DEF KillSaves, Reset, firstVars, secondVars
  <2>2. Sound(file')
    BY <1>1, <1>11, SoundSteps, KilledIsStep DEF KillSaves, Reset, KilledList, NoKill
  <2>3. Sound(cli'.list)
    BY <1>1, <1>11, SoundSteps DEF KillSaves, Reset, NoKill
  <2>4. QED BY <1>1, <1>4, <1>5, <2>1, <2>2, <2>3
<1>12. QED BY <1>6, <1>7, <1>8, <1>9, <1>10, <1>11 DEF NodePilotNext

(***************************************************************************)
(* Whoever overwrites whose save, every job list there is keeps its        *)
(* promises: cores apart, exclusive jobs alone, the cap, dependencies      *)
(* done, a cause for every skip.  Processes that save whole lists cannot   *)
(* mix two of them (save_state, from_queue, cmd_kill).                     *)
(***************************************************************************)
THEOREM ListsSoundEverywhere == NodePilotSpec => []ListsSound
<1>1. NodePilotInit => ListInv
  <2> SUFFICES ASSUME NodePilotInit PROVE ListInv
    OBVIOUS
  <2>1. NodePilotTypeOK /\ Killing /\ Init /\ Other!Init /\ Second!Init
    BY AllInit DEF NodePilotInit
  <2>2. /\ pc = "down" /\ pc2 = "down"
        /\ jobs = Yaml /\ file = Yaml /\ jobs2 = Second!Yaml /\ cli.list = Yaml
    BY <2>1 DEF NodePilotInit, NoKill, Init, Second!Init
  <2>3. Second!Yaml = Yaml
    BY Zenon
       DEF Yaml, Second!Yaml
  <2>4. Passes /\ Other!Passes
    BY <2>2 DEF Passes, Other!Passes
  <2>5. QED
    BY <2>1, <2>2, <2>3, <2>4, SoundSteps DEF ListInv, ListsSound
<1>2. ListInv /\ [NodePilotNext]_allVars => ListInv'
  BY ListInvStep
<1>3. ListInv => ListsSound
  BY DEF ListInv
<1>4. QED BY <1>1, <1>2, <1>3, PTL DEF NodePilotSpec

(***************************************************************************)
(* No job list anywhere, in either scheduler, on disk or held by a kill    *)
(* command, has a job that was launched before its dependencies were done  *)
(* (_deps_satisfied).                                                      *)
(***************************************************************************)
THEOREM DependenciesRespectedByAll == NodePilotSpec => []DepsRespectedByAll
<1>1. DepsDone(jobs2) /\ DepsDone(file) => Second!DepsRespected
  BY Zenon
     DEF Second!DepsRespected, DepsDone, Second!DepsDone, DepsSatisfied,
         Second!DepsSatisfied
<1>2. ListsSound => DepsRespectedByAll
  BY <1>1 DEF ListsSound, Sound, DepsRespectedByAll, DepsRespected
<1>3. QED BY <1>2, ListsSoundEverywhere, PTL

-----------------------------------------------------------------------------
(* Processes. *)

(***************************************************************************)
(* Where the jobs live is a matter of the table alone.                     *)
(***************************************************************************)
LEMMA SameLives ==
    /\ Other!NeverTwice <=> NeverTwice
    /\ (Other!NeverTwice <=> NeverTwice)'
    /\ Both!NeverTwice <=> NeverTwice
    /\ (Both!NeverTwice <=> NeverTwice)'
<1>1. /\ Other!NeverTwice <=> NeverTwice
      /\ (Other!NeverTwice <=> NeverTwice)'
  BY Zenon
     DEF Lives, Other!Lives, LivesIn, Other!LivesIn, NeverTwice, Other!NeverTwice
<1>2. /\ Both!NeverTwice <=> NeverTwice
      /\ (Both!NeverTwice <=> NeverTwice)'
  BY Zenon
     DEF Lives, Both!Lives, LivesIn, Both!LivesIn, NeverTwice, Both!NeverTwice
<1>3. QED BY <1>1, <1>2

(***************************************************************************)
(* A kill starts nothing.                                                  *)
(***************************************************************************)
LEMMA KillStartsNothing ==
    ASSUME SharedTyped, NEW j \in Jobs, KillJob(j),
           NEW q \in Pids, NEW k \in Jobs, LivesIn(os', q, k)
    PROVE  LivesIn(os, q, k)
<1>1. CASE Backend = "tmux"
  <2>1. PICK obey \in BOOLEAN : os' = HungUp(Target(j), obey)
    BY <1>1 DEF KillJob
  <2>2. \/ os'[q] = os[q] \/ os'[q] = NoProcess
        \/ os'[q] = [os[q] EXCEPT !.pane = FALSE]
    BY <2>1 DEF HungUp
  <2>3. NoProcess.owner # k
    BY RunnerAssumption DEF NoProcess
  <2>4. os[q] \in Process
    BY DEF SharedTyped
  <2>5. QED BY <2>2, <2>3, <2>4 DEF LivesIn, Process
<1>2. CASE Backend # "tmux"
  BY <1>2 DEF KillJob, runnerVars
<1>3. QED BY <1>1, <1>2

(***************************************************************************)
(* With scopes no job runs twice, also when two schedulers work on one     *)
(* queue and overwrite each other's job lists: the scope of a running job  *)
(* refuses the other's launch (wrap_scope_command).                        *)
(***************************************************************************)
THEOREM SchedulersPreventDoubles ==
    ASSUME Scoped
    PROVE  NodePilotSpec => []NeverTwice
<1>1. NodePilotInit => NeverTwice
  <2>1. Nobody \notin Jobs
    BY RunnerAssumption
  <2>2. QED
    BY <2>1 DEF NodePilotInit, Init, RunnerInit, NeverTwice, Lives, LivesIn, NoProcess
<1>2. NodePilotTypeOK /\ Killing /\ NeverTwice /\ [NodePilotNext]_allVars => NeverTwice'
  <2> SUFFICES ASSUME NodePilotTypeOK, Killing, NeverTwice, [NodePilotNext]_allVars
               PROVE  NeverTwice'
    OBVIOUS
  <2>1. CASE FirstActs
    BY <2>1, StepsOfSchedulers, NeverTwiceStep DEF NodePilotTypeOK
  <2>2. CASE SecondActs
    BY <2>2, StepsOfSchedulers, AllTypings, Typings, SameLives, Other!NeverTwiceStep,
       Assumptions DEF Other!IsFiniteSet, IsFiniteSet
  <2>3. CASE HostActs
    <3>1. BothTyped /\ SharedTyped
      BY AllTypings DEF FirstTyped, SecondTyped, BothTyped, OwnTyped
    <3>2. QED
      BY <2>3, <3>1, StepsOfSchedulers, Typings, SameLives, Both!NeverTwiceStep, Assumptions
         DEF Both!IsFiniteSet, IsFiniteSet
  <2>4. CASE KillSends
    <3>1. cli.job \in Jobs
      BY <2>4 DEF KillSends, Killing
    <3>2. QED BY <2>4, <3>1, AllTypings, KillStartsNothing
              DEF KillSends, NeverTwice, Lives, LivesIn
  <2>5. CASE (\E j \in Jobs : KillLoads(j)) \/ KillSaves \/ Reset \/ UNCHANGED allVars
    BY <2>5 DEF KillLoads, KillSaves, Reset, runnerVars, allVars, NeverTwice, Lives, LivesIn
  <2>6. QED BY <2>1, <2>2, <2>3, <2>4, <2>5 DEF NodePilotNext
<1>3. NodePilotInit => NodePilotTypeOK /\ Killing
  BY AllInit
<1>4. NodePilotTypeOK /\ Killing /\ [NodePilotNext]_allVars => NodePilotTypeOK' /\ Killing'
  BY NodePilotTypeStep
<1>5. QED BY <1>1, <1>2, <1>3, <1>4, PTL DEF NodePilotSpec
=============================================================================
