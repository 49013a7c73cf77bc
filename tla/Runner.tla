------------------------------- MODULE Runner -------------------------------
(***************************************************************************)
(* runner.py over the host's process table, with either backend.           *)
(* os[p] is what the host holds under process id p: the leader of the      *)
(* session a launch made (and, in "kids", whether descendants outlive it), *)
(* a foreign process, or nothing.  The kernel, systemd, tmux and the       *)
(* journal are external: they are modelled from what runner.py and         *)
(* cgroups.py use.  A "zombie" is a child that has ended and whose status  *)
(* its handle keeps, whether poll has waited for it or not; its id is not  *)
(* given away before.                                                      *)
(*                                                                         *)
(* With tmux a job is a session named after it, and the process is the     *)
(* command of its pane.  job.session is then the name, which says no more  *)
(* than the id: the model puts the pane's process in its place and reads   *)
(* of it only that it is not empty.                                        *)
(***************************************************************************)
EXTENDS Queue, FiniteSetsExt

CONSTANTS
    Nobody, Foreign,    \* owners that are not jobs
    Scoped,             \* jobs run in systemd scopes under memory_slice
    ScopeName,          \* scope_unit_name, [Jobs -> unit]
    HostCpus,           \* where a process that left its block may run
    ExitCodes,          \* the codes commands end with, 128 + n for signal n
    Backend,            \* Config.runner: "subprocess" or "tmux"
    LongerNames,        \* [Jobs -> jobs whose session name only begins like this one's]
    Mentions,           \* [Jobs -> owners of the processes whose command line contains
                        \* this one's id: jobs, and Foreign for everybody else's]
    Tools,              \* which of numactl and taskset are on PATH
    Events              \* the kinds of environment events of a run

ASSUME RunnerAssumption ==
    /\ Nobody \notin Jobs
    /\ Foreign \notin Jobs
    /\ Nobody # Foreign
    /\ Scoped \in BOOLEAN
    /\ HostCpus \subseteq Nat
    /\ ExitCodes \subseteq Nat
    /\ Backend \in {"subprocess", "tmux"}
    /\ LongerNames \in [Jobs -> SUBSET Jobs]
    /\ Mentions \in [Jobs -> SUBSET (Jobs \cup {Foreign})]

VARIABLES
    os,         \* [Pids -> process]
    handles,    \* _procs: the pids with a retained Popen handle
    journal,    \* an OOM kill is in the kernel log of the last five minutes
    ended       \* history: how the command of each job last ended

runnerVars == <<os, handles, journal, ended>>

NoCode == -1        \* None as an exit code
Hup    == 129       \* the code of a command that SIGHUP ends
Codes  == ExitCodes \cup {NoCode, 1, Hup, 137}

Process ==
    [owner: Jobs \cup {Nobody, Foreign}, state: {"free", "up", "zombie"},
     code: Codes, kids: BOOLEAN, cpus: SUBSET Nat,
     mem: Int,          \* GiB it has touched
     pane: BOOLEAN]     \* it is the command of a live tmux session

NoProcess == [owner |-> Nobody, state |-> "free", code |-> NoCode,
              kids |-> FALSE, cpus |-> {}, mem |-> 0, pane |-> FALSE]

RunnerTypeOK ==
    /\ os \in [Pids -> Process]
    /\ handles \subseteq Pids
    /\ journal \in BOOLEAN
    /\ ended \in [Jobs -> Codes]

RunnerInit ==
    /\ os = [p \in Pids |-> NoProcess]
    /\ handles = {}
    /\ journal = FALSE
    /\ ended = [j \in Jobs |-> NoCode]

\* The processes of job j that run on the host.
LivesIn(table, p, j) == table[p].owner = j /\ (table[p].state = "up" \/ table[p].kids)
Lives(p, j) == LivesIn(os, p, j)
LiveJob(p) == \E j \in Jobs : Lives(p, j)
Alive(j) == \E p \in Pids : Lives(p, j)

\* memory.current of memory_slice: its scopes hold every process of a job.
SliceUsed == MapThenSumSet(LAMBDA p : os[p].mem, Pids)

\* A process that is waited for leaves the table; its id stays taken while
\* descendants are in its process group.
Waited(proc) ==
    IF proc.kids THEN [proc EXCEPT !.state = "free", !.code = NoCode] ELSE NoProcess

\* cgroups.scope_is_active: the scope directory lasts as long as it holds a
\* process, and is found by the unit name alone.
ScopeIn(table, j) ==
    /\ Scoped
    /\ \E k \in Jobs, p \in Pids : ScopeName[k] = ScopeName[j] /\ LivesIn(table, p, k)

ScopeActive(j) == ScopeIn(os, j)

\* What tmux -t nodepilot_<id> means: the session of that name, else the only
\* one whose name begins with it.
Target(j) ==
    LET panes(S) == {p \in Pids : os[p].pane /\ os[p].owner \in S}
    IN  IF panes({j}) # {} THEN panes({j})
        ELSE IF Cardinality(panes(LongerNames[j])) = 1 THEN panes(LongerNames[j])
        ELSE {}

\* is_alive: has-session, and for a process poll with a handle and _pid_alive
\* without (which takes a zombie for gone and any process under the id for
\* the job).
IsAlive(j, session) ==
    /\ session # NoSession
    /\ IF Backend = "tmux" THEN Target(j) # {} ELSE os[session].state = "up"

\* Runner.returncode of a job that is not alive.
Returncode(session) == IF session \in handles THEN os[session].code ELSE NoCode

\* Mutant: every code up to 128 is taken for a success.
OutcomeLenient(code, hint) ==
    CASE code = 137 /\ hint       -> [status |-> "failed", reason |-> "oom_killed"]
      [] code = 137 /\ ~hint      -> [status |-> "failed", reason |-> "killed_signal"]
      [] code > 128 /\ code # 137 -> [status |-> "failed", reason |-> "signal"]
      [] OTHER                    -> [status |-> "done", reason |-> ""]

\* reap's classification.
Outcome(code, hint) ==
    CASE code = 137 /\ hint       -> [status |-> "failed", reason |-> "oom_killed"]
      [] code = 137 /\ ~hint      -> [status |-> "failed", reason |-> "killed_signal"]
      [] code = NoCode /\ hint    -> [status |-> "failed", reason |-> "oom_killed"]
      [] code \in {NoCode, 0}     -> [status |-> "done", reason |-> ""]
      [] code > 128 /\ code # 137 -> [status |-> "failed", reason |-> "signal"]
      [] OTHER                    -> [status |-> "failed", reason |-> "exit"]

\* Mutant: the handle of a reaped job is kept.
ForgetNothing(session) == UNCHANGED <<os, handles>>

\* _forget, and the wait that poll did before it.
Forget(session) ==
    /\ handles' = handles \ {session}
    /\ os' = IF session \in handles
             THEN [os EXCEPT ![session] = Waited(os[session])]
             ELSE os

\* The table after tmux kill-session: the commands of the sessions get SIGHUP
\* and obey at once, or later (JobEnds), or never.
HungUp(panes, obey) ==
    [p \in Pids |-> IF p \notin panes THEN os[p]
                    ELSE IF obey THEN NoProcess
                    ELSE [os[p] EXCEPT !.pane = FALSE]]

EndedBy(panes, obey) ==
    [j \in Jobs |-> IF obey /\ \E p \in panes : os[p].owner = j THEN Hup ELSE ended[j]]

\* What build_command makes of a placement: without a core list, or without
\* numactl and taskset, the command is not pinned.
StartCpus(cpu_list) ==
    IF cpu_list # {} /\ Tools # {} THEN ParseCpuList(cpu_list) ELSE HostCpus

\* The process of a started command, and the remains of one that systemd-run
\* refused with exit code 1.
Spawned(j, cpus) ==
    [NoProcess EXCEPT !.owner = j, !.state = "up", !.cpus = cpus,
                      !.mem = IF "grow" \in Events THEN 0 ELSE JobRam[j],
                      !.pane = Backend = "tmux"]

Refused(j) ==
    IF Backend = "tmux" THEN NoProcess
    ELSE [NoProcess EXCEPT !.owner = j, !.state = "zombie", !.code = 1]

\* Mutant: the scope gets a new name at every launch.
StartUnnamed(j, p, cpus) ==
    \E obey \in BOOLEAN :
        LET stale == IF Backend = "tmux" THEN Target(j) ELSE {}
        IN  /\ os[p] = NoProcess
            /\ os' = [HungUp(stale, obey) EXCEPT ![p] = Spawned(j, cpus)]
            /\ handles' = IF Backend = "tmux" THEN handles ELSE handles \cup {p}
            /\ ended' = [EndedBy(stale, obey) EXCEPT ![j] = NoCode]
            /\ UNCHANGED journal

\* Mutant: the handle is not retained, and the ended child is waited for.
StartForgotten(j, p, cpus) ==
    /\ os[p] = NoProcess
    /\ os' = [os EXCEPT ![p] = Spawned(j, cpus)]
    /\ ended' = [ended EXCEPT ![j] = NoCode]
    /\ UNCHANGED <<handles, journal>>

\* Runner.start.  With tmux a stale session is killed first.  systemd-run
\* fails, and the command does not run, while a scope of the same name exists.
StartProcess(j, p, cpus) ==
    \E obey \in BOOLEAN :
        LET stale    == IF Backend = "tmux" THEN Target(j) ELSE {}
            table    == HungUp(stale, obey)
            collides == ScopeIn(table, j)
        IN  /\ os[p] = NoProcess
            /\ os' = [table EXCEPT ![p] = IF collides THEN Refused(j) ELSE Spawned(j, cpus)]
            /\ handles' = IF Backend = "tmux" THEN handles ELSE handles \cup {p}
            /\ ended' = [EndedBy(stale, obey) EXCEPT ![j] = IF collides THEN 1 ELSE NoCode]
            /\ UNCHANGED journal

\* kill.  SIGTERM to the process group: the job ends at a time and with a code
\* of its own choosing, or goes on, which JobEnds allows at any moment.
KillJob(j) ==
    IF Backend = "tmux"
    THEN \E obey \in BOOLEAN :
            /\ os' = HungUp(Target(j), obey)
            /\ ended' = EndedBy(Target(j), obey)
            /\ UNCHANGED <<handles, journal>>
    ELSE UNCHANGED runnerVars

\* _pids_for_job: with tmux pgrep -f, which finds every process with the id
\* anywhere in its command line, whoever's it is; else the group of the
\* session's process, which is not found once that has left the table.
ProcessesOf(j, session) ==
    IF Backend = "tmux" THEN {p \in Pids : \E k \in Mentions[j] : Lives(p, k)}
    ELSE {p \in Pids : p = session /\ os[p].state # "free"}

\* Mutant: the block is compared the wrong way round.
PinBackwards(j, session, block) ==
    os' = [p \in Pids |->
              IF "taskset" \in Tools /\ p \in ProcessesOf(j, session) /\ ~(block \subseteq os[p].cpus)
              THEN [os[p] EXCEPT !.cpus = block]
              ELSE os[p]]

\* enforce_pin: processes of the job that are off its block are put back on it.
Pin(j, session, block) ==
    os' = [p \in Pids |->
              IF "taskset" \in Tools /\ p \in ProcessesOf(j, session) /\ ~(os[p].cpus \subseteq block)
              THEN [os[p] EXCEPT !.cpus = block]
              ELSE os[p]]

\* The orchestrator's process is gone: its handles with it, and its zombie
\* children are waited for by init.
OrphansAll ==
    /\ os' = [p \in Pids |-> IF p \in handles /\ os[p].state = "zombie"
                             THEN Waited(os[p]) ELSE os[p]]
    /\ handles' = {}
    /\ UNCHANGED <<journal, ended>>

-----------------------------------------------------------------------------
(* The host. *)

\* The leader of session p ends; descendants may live on.  Only a child of
\* the living orchestrator becomes a zombie.
Ends(p, code, kids) ==
    /\ os[p].owner \in Jobs
    /\ os[p].state = "up"
    /\ kids => "kids" \in Events
    /\ LET proc == [os[p] EXCEPT !.state = "zombie", !.code = code, !.kids = kids,
                                 !.mem = IF kids THEN @ ELSE 0, !.pane = FALSE]
       IN  os' = [os EXCEPT ![p] = IF p \in handles THEN proc ELSE Waited(proc)]
    /\ ended' = [ended EXCEPT ![os[p].owner] = code]
    /\ UNCHANGED handles

JobEnds(p) ==
    /\ \E code \in ExitCodes, kids \in BOOLEAN : Ends(p, code, kids)
    /\ UNCHANGED journal

OomKill(p) ==
    /\ "oom" \in Events
    /\ \E kids \in BOOLEAN : Ends(p, 137, kids)
    /\ journal' = TRUE

KidsEnd(p) ==
    /\ os[p].kids
    /\ LET proc == [os[p] EXCEPT !.kids = FALSE, !.mem = 0]
       IN  os' = [os EXCEPT ![p] = IF proc.state = "free" THEN NoProcess ELSE proc]
    /\ UNCHANGED <<handles, journal, ended>>

\* A job that starts small takes the memory it declared: its scope's MemoryMax
\* keeps it from taking more.
Grows(p) ==
    /\ "grow" \in Events
    /\ os[p].owner \in Jobs
    /\ os[p].state = "up"
    /\ os[p].mem < JobRam[os[p].owner]
    /\ os' = [os EXCEPT ![p].mem = JobRam[os[p].owner]]
    /\ UNCHANGED <<handles, journal, ended>>

\* A process of the job leaves its core block (sched_setaffinity).
Drifts(p) ==
    /\ "drift" \in Events
    /\ os[p].owner \in Jobs
    /\ os[p].state = "up"
    /\ os[p].cpus # HostCpus
    /\ os' = [os EXCEPT ![p].cpus = HostCpus]
    /\ UNCHANGED <<handles, journal, ended>>

\* Somebody else's process takes a free id.
ForeignStarts(p) ==
    /\ "foreign" \in Events
    /\ os[p] = NoProcess
    /\ os' = [os EXCEPT ![p] = [NoProcess EXCEPT !.owner = Foreign, !.state = "up",
                                                 !.cpus = HostCpus]]
    /\ UNCHANGED <<handles, journal, ended>>

ForeignEnds(p) ==
    /\ os[p].owner = Foreign
    /\ os' = [os EXCEPT ![p] = NoProcess]
    /\ UNCHANGED <<handles, journal, ended>>

JournalAges ==
    /\ journal
    /\ journal' = FALSE
    /\ UNCHANGED <<os, handles, ended>>

Host ==
    \/ \E p \in Pids : \/ JobEnds(p) \/ OomKill(p) \/ KidsEnd(p)
                       \/ Grows(p) \/ Drifts(p) \/ ForeignStarts(p)
                       \/ ForeignEnds(p)
    \/ JournalAges
=============================================================================
