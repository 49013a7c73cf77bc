------------------------------ MODULE NodePilot ------------------------------
(***************************************************************************)
(* The whole program as its users run it: a scheduler process, a second    *)
(* one started on the same queue, and the kill and reset commands of       *)
(* cli.py.  Each is a process of its own; they share the state file and    *)
(* the host, and nothing locks the file.  Reboots, the pause file and      *)
(* edits of the state file are left to Orchestrator.                       *)
(***************************************************************************)
EXTENDS Orchestrator

VARIABLES
    cli,        \* the kill command: its target, the list it has loaded, and
                \* whether it has sent its signal
    pc2, jobs2, todo2, changed2, cooldown2, sinceOom2, boots2, handles2

firstVars  == <<pc, jobs, todo, changed, cooldown, sinceOom, boots, handles>>
secondVars == <<pc2, jobs2, todo2, changed2, cooldown2, sinceOom2, boots2, handles2>>
allVars    == <<firstVars, secondVars, file, paused, os, journal, ended, cli>>

\* Another run command on the same queue file.
Second == INSTANCE Orchestrator WITH
    pc <- pc2, jobs <- jobs2, todo <- todo2, changed <- changed2,
    cooldown <- cooldown2, sinceOom <- sinceOom2, boots <- boots2, handles <- handles2

\* The host, where a child of either scheduler is a zombie until waited for.
Shared == INSTANCE Runner WITH handles <- handles \cup handles2

NoKill == [job |-> Nobody, list |-> Yaml, sent |-> FALSE]

\* The list in memory of each scheduler is one the program can build, whoever
\* else wrote the file it was loaded from.
NodePilotTypeOK ==
    /\ TypeOK
    /\ Second!TypeOK
    /\ cli \in [job: Jobs \cup {Nobody}, list: JobLists, sent: BOOLEAN]

NodePilotInit == Init /\ Second!Init /\ cli = NoKill

FirstActs ==
    /\ Start \/ Rerun \/ Loop \/ Stop \/ Crash \/ TimePasses
    /\ UNCHANGED <<secondVars, cli>>

SecondActs ==
    /\ "second" \in Events
    /\ \/ Second!Start \/ Second!Rerun \/ Second!Loop \/ Second!Stop \/ Second!Crash
       \/ Second!TimePasses
    /\ UNCHANGED <<firstVars, cli>>

HostActs ==
    /\ UNCHANGED <<firstVars, secondVars, file, paused, cli>>
    /\ Shared!Host

\* nodepilot kill: from_queue, and the search for a running job with the id.
KillLoads(j) ==
    /\ "kill" \in Events
    /\ cli = NoKill
    /\ file[j].status = "running"
    /\ cli' = [job |-> j, list |-> file, sent |-> FALSE]
    /\ UNCHANGED <<orchVars, secondVars, runnerVars>>

\* runner.kill, whatever has become of the job since.  This process has no
\* handles, so it waits for nothing.
KillSends ==
    /\ cli # NoKill
    /\ ~cli.sent
    /\ KillJob(cli.job)
    /\ cli' = [cli EXCEPT !.sent = TRUE]
    /\ UNCHANGED <<orchVars, secondVars>>

\* Mutant: the mark is put into the file as it is now, whatever it says by then.
KillMerges ==
    /\ cli.sent
    /\ file' = Settled(file, cli.job,
                       [status |-> "failed", reason |-> "killed_by_user"])
    /\ cli' = NoKill
    /\ UNCHANGED <<firstVars, secondVars, paused, os, journal, ended>>

\* The killed job is marked and the whole list, as loaded, is saved.
KillSaves ==
    /\ cli.sent
    /\ file' = Settled(cli.list, cli.job,
                       [status |-> "failed", reason |-> "killed_by_user"])
    /\ cli' = NoKill
    /\ UNCHANGED <<firstVars, secondVars, paused, os, journal, ended>>

\* nodepilot reset: the state file is deleted.
Reset ==
    /\ "reset" \in Events
    /\ file # Yaml
    /\ file' = Yaml
    /\ UNCHANGED <<firstVars, secondVars, paused, os, journal, ended, cli>>

NodePilotNext ==
    \/ FirstActs
    \/ SecondActs
    \/ HostActs
    \/ \E j \in Jobs : KillLoads(j)
    \/ KillSends
    \/ KillSaves
    \/ Reset

NodePilotSpec == NodePilotInit /\ [][NodePilotNext]_allVars

-----------------------------------------------------------------------------
\* No list, in either scheduler, on disk or in the hands of a kill, ever has a
\* launched job with a dependency that is not done: processes that overwrite
\* each other's saves only ever write whole lists (_deps_satisfied, save_state).
DepsRespectedByAll ==
    DepsRespected /\ Second!DepsRespected /\ DepsDone(cli.list)

\* state.py:5, README.md:482: "finished jobs stay finished": killing one job
\* leaves the jobs that have finished finished.
KillSparesFinished ==
    [][\A j \in Jobs : (KillSaves /\ j # cli.job /\ file[j].status \in Terminal)
          => file'[j].status = file[j].status]_allVars
=============================================================================
