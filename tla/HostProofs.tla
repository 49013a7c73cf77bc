------------------------------ MODULE HostProofs ------------------------------
(***************************************************************************)
(* What the scheduler keeps of the host's processes, where the code has    *)
(* what it takes: systemd scopes against doubles, retained Popen handles   *)
(* against lost exit codes and ids given away too early.                   *)
(*                                                                         *)
(* Processes of a job appear only by a launch: every other step leaves at  *)
(* most those that were there (NoneAppears).                               *)
(***************************************************************************)
EXTENDS OrchestratorProofs

Appears == \E q \in Pids, k \in Jobs : LivesIn(os', q, k) /\ ~LivesIn(os, q, k)

(***************************************************************************)
(* An entry of the table is of no job, or what it was, or an ended leader  *)
(* whose descendants live on only where it or they lived before.           *)
(***************************************************************************)
Wanes(old, new) ==
    \/ new.owner \notin Jobs
    \/ new.owner = old.owner /\ new.state = old.state /\ (new.kids => old.kids)
    \/ /\ new.owner = old.owner
       /\ new.state # "up"
       /\ new.kids => old.state = "up" \/ old.kids

(***************************************************************************)
(* A process that wanes does not come to life.                             *)
(***************************************************************************)
LEMMA WaningProcess ==
    ASSUME NEW table, NEW q \in Pids, NEW k \in Jobs, Wanes(os[q], table[q]),
           LivesIn(table, q, k)
    PROVE  LivesIn(os, q, k)
BY DEF Wanes, LivesIn

(***************************************************************************)
(* A free id is of no job; a process that is waited for wanes.             *)
(***************************************************************************)
LEMMA WaitedWanes ==
    ASSUME NEW proc \in Process
    PROVE  /\ NoProcess.owner \notin Jobs
           /\ Wanes(proc, Waited(proc))
           /\ \A old \in Process :
                (/\ old.owner = proc.owner /\ old.state = "up" /\ proc.state = "zombie")
                  => Wanes(old, Waited(proc)) /\ Wanes(old, proc)
<1>1. NoProcess.owner \notin Jobs
  BY RunnerAssumption DEF NoProcess
<1>2. CASE proc.kids
  BY <1>1, <1>2 DEF Waited, Wanes, Process
<1>3. CASE ~proc.kids
  BY <1>1, <1>3 DEF Waited, Wanes, Process
<1>4. QED BY <1>1, <1>2, <1>3

(***************************************************************************)
(* No step but a launch puts a process of a job on the host.               *)
(***************************************************************************)
LEMMA NoneAppears ==
    ASSUME TypeOK, [Next]_vars, \A j \in Jobs : ~Launch(j)
    PROVE  ~Appears
<1>1. os \in [Pids -> Process]
  BY DEF TypeOK, RunnerTypeOK
<1> SUFFICES \A q \in Pids : Wanes(os[q], os'[q])
  BY WaningProcess DEF Appears
<1>2. CASE os' = os
  BY <1>2 DEF Wanes
<1>3. ASSUME NEW session, Forget(session) PROVE \A q \in Pids : Wanes(os[q], os'[q])
  BY <1>1, <1>3, WaitedWanes DEF Forget, Wanes
<1>4. CASE OrphansAll
  BY <1>1, <1>4, WaitedWanes DEF OrphansAll, Wanes
<1>5. ASSUME NEW j, NEW session, NEW block, Pin(j, session, block)
      PROVE  \A q \in Pids : Wanes(os[q], os'[q])
  BY <1>1, <1>5 DEF Pin, Process, Wanes
<1>6. CASE os' = [p \in Pids |-> NoProcess]
  BY <1>1, <1>6, WaitedWanes DEF Wanes
<1>7. CASE Host
  <2>1. ASSUME NEW p \in Pids, NEW code, NEW kids \in BOOLEAN, Ends(p, code, kids)
        PROVE  \A q \in Pids : Wanes(os[q], os'[q])
    <3> DEFINE proc == [os[p] EXCEPT !.state = "zombie", !.code = code, !.kids = kids,
                                     !.mem = IF kids THEN @ ELSE 0, !.pane = FALSE]
    <3>1. PICK mem, pane : proc = [os[p] EXCEPT !.state = "zombie", !.code = code,
                                                !.kids = kids, !.mem = mem, !.pane = pane]
      OBVIOUS
    <3>2. /\ proc.owner = os[p].owner /\ proc.state = "zombie" /\ proc.kids = kids
          /\ os[p].state = "up"
      <4>1. os[p].state = "up"
        BY <2>1 DEF Ends
      <4> HIDE DEF proc
      <4>2. QED BY <1>1, <3>1, <4>1 DEF Process
    <3>3. os' = [os EXCEPT ![p] = IF p \in handles THEN proc ELSE Waited(proc)]
      BY <2>1 DEF Ends
    <3>4. Wanes(os[p], proc)
      BY <3>2 DEF Wanes
    <3>5. Wanes(os[p], Waited(proc))
      <4>1. CASE kids
        <5>1. /\ Waited(proc) = [proc EXCEPT !.state = "free", !.code = NoCode]
          BY <3>2, <4>1 DEF Waited
        <5>2. Waited(proc).owner = os[p].owner /\ Waited(proc).state = "free"
          <6> HIDE DEF proc
          <6>1. Waited(proc) = [os[p] EXCEPT !.state = "free", !.code = NoCode,
                                             !.kids = kids, !.mem = mem, !.pane = pane]
            BY <1>1, <3>1, <5>1 DEF Process
          <6>2. QED BY <1>1, <6>1 DEF Process
        <5>3. QED BY <3>2, <5>2 DEF Wanes
      <4>2. CASE ~kids
        BY <1>1, <3>2, <4>2, WaitedWanes DEF Waited, Wanes
      <4>3. QED BY <4>1, <4>2
    <3>6. QED BY <1>1, <3>3, <3>4, <3>5 DEF Wanes
  <2>2. ASSUME NEW p \in Pids, JobEnds(p) \/ OomKill(p)
        PROVE  \A q \in Pids : Wanes(os[q], os'[q])
    BY <2>1, <2>2 DEF JobEnds, OomKill
  <2>3. ASSUME NEW p \in Pids, KidsEnd(p) PROVE \A q \in Pids : Wanes(os[q], os'[q])
    <3>1. \A q \in Pids \ {p} : os'[q] = os[q]
      BY <1>1, <2>3 DEF KidsEnd
    <3>2. \/ os'[p] = NoProcess
          \/ os'[p] = [os[p] EXCEPT !.kids = FALSE, !.mem = 0]
      BY <1>1, <2>3 DEF KidsEnd
    <3>3. CASE os'[p] = [os[p] EXCEPT !.kids = FALSE, !.mem = 0]
      <4>1. PICK m : os'[p] = [os[p] EXCEPT !.kids = FALSE, !.mem = m]
        BY <3>3
      <4>2. /\ os'[p].owner = os[p].owner /\ os'[p].state = os[p].state
            /\ os'[p].kids = FALSE
        BY <1>1, <4>1 DEF Process
      <4>3. QED BY <3>1, <4>2 DEF Wanes
    <3>4. QED BY <1>1, <3>1, <3>2, <3>3, WaitedWanes DEF Wanes
  <2>4. ASSUME NEW p \in Pids, Grows(p) \/ Drifts(p)
        PROVE  \A q \in Pids : Wanes(os[q], os'[q])
    BY <1>1, <2>4 DEF Grows, Drifts, Process, Wanes
  <2>5. ASSUME NEW p \in Pids, ForeignStarts(p) \/ ForeignEnds(p)
        PROVE  \A q \in Pids : Wanes(os[q], os'[q])
    <3>1. \A q \in Pids \ {p} : os'[q] = os[q]
      BY <1>1, <2>5 DEF ForeignStarts, ForeignEnds
    <3>2. CASE ForeignStarts(p)
      <4>1. os'[p].owner = Foreign
        BY <1>1, <3>2, NoProcessTyped DEF ForeignStarts, Process
      <4>2. QED BY <3>1, <4>1, RunnerAssumption DEF Wanes
    <3>3. CASE ForeignEnds(p)
      BY <1>1, <3>1, <3>3, WaitedWanes DEF ForeignEnds, Wanes
    <3>4. QED BY <2>5, <3>2, <3>3
  <2>6. CASE JournalAges
    BY <1>2, <2>6 DEF JournalAges
  <2>7. QED BY <1>7, <2>2, <2>3, <2>4, <2>5, <2>6 DEF Host
<1>8. CASE Loop
  <2>1. CASE Reconciled \/ Tick \/ Reaped \/ SkipsDone \/ PinsDone \/ EndTick
    BY <1>2, <2>1
       DEF Reconciled, Tick, Reaped, SkipsDone, PinsDone, EndTick, runnerVars
  <2>2. ASSUME NEW j \in Jobs,
               Reconcile(j) \/ StillRuns(j) \/ Skip(j) \/ Defer(j) \/ LaunchFails(j)
        PROVE  os' = os
    BY <2>2 DEF Reconcile, StillRuns, Skip, Defer, LaunchFails, runnerVars
  <2>3. ASSUME NEW j \in Jobs, Reap(j) PROVE \A q \in Pids : Wanes(os[q], os'[q])
    BY <1>3, <2>3 DEF Reap
  <2>4. ASSUME NEW j \in Jobs, EnforcePin(j) PROVE \A q \in Pids : Wanes(os[q], os'[q])
    BY <1>2, <1>5, <2>4 DEF EnforcePin
  <2>5. QED BY <1>2, <1>8, <2>1, <2>2, <2>3, <2>4 DEF Loop
<1>9. CASE Start \/ Rerun
  BY <1>2, <1>9 DEF Start, Rerun, runnerVars
<1>10. CASE Stop \/ Crash
  BY <1>4, <1>10 DEF Stop, Crash, Dies
<1>11. CASE Reboot
  BY <1>6, <1>11 DEF Reboot
<1>12. CASE World
  BY <1>2, <1>7, <1>12 DEF World, TimePasses, Pause, Release, runnerVars
<1>13. CASE UNCHANGED vars
  BY <1>2, <1>13 DEF vars
<1>14. QED BY <1>8, <1>9, <1>10, <1>11, <1>12, <1>13 DEF Next

(***************************************************************************)
(* With scopes a launch of a job that lives starts nothing: systemd-run    *)
(* refuses the name.                                                       *)
(***************************************************************************)
LEMMA LaunchOfNone ==
    ASSUME TypeOK, Scoped, NEW j \in Jobs, NEW p \in Pids, NEW cpus,
           StartProcess(j, p, cpus), NEW q \in Pids, NEW k \in Jobs, LivesIn(os', q, k)
    PROVE  \/ LivesIn(os, q, k)
           \/ /\ q = p /\ k = j
              /\ \A r \in Pids \ {p} : ~LivesIn(os', r, j)
<1>1. PICK table :
          /\ \E obey \in BOOLEAN, stale \in SUBSET Pids : table = HungUp(stale, obey)
          /\ os' = [table EXCEPT ![p] = IF ScopeIn(table, j) THEN Refused(j)
                                         ELSE Spawned(j, cpus)]
  <2>1. Target(j) \in SUBSET Pids
    BY DEF Target
  <2>2. PICK obey \in BOOLEAN :
            os' = LET stale == IF Backend = "tmux" THEN Target(j) ELSE {}
                      table == HungUp(stale, obey)
                  IN  [table EXCEPT ![p] = IF ScopeIn(table, j) THEN Refused(j)
                                           ELSE Spawned(j, cpus)]
    BY Zenon DEF StartProcess
  <2>3. (IF Backend = "tmux" THEN Target(j) ELSE {}) \in SUBSET Pids
    BY <2>1
  <2>4. QED BY <2>2, <2>3
<1>2. os \in [Pids -> Process] /\ DOMAIN table = Pids
  BY <1>1 DEF TypeOK, RunnerTypeOK, HungUp
<1>3. \A r \in Pids : Wanes(os[r], table[r])
  <2>1. NoProcess.owner \notin Jobs
    BY RunnerAssumption DEF NoProcess
  <2>2. QED BY <1>1, <1>2, <2>1 DEF HungUp, Wanes, Process
<1>4. \A r \in Pids \ {p} : os'[r] = table[r]
  BY <1>1, <1>2
<1>5. CASE q # p
  <2>1. LivesIn(table, q, k)
    BY <1>4, <1>5 DEF LivesIn
  <2>2. QED BY <1>3, <2>1, WaningProcess
<1>6. CASE q = p /\ ScopeIn(table, j)
  <2>1. os'[p] = Refused(j)
    BY <1>1, <1>2, <1>6
  <2>2. ~LivesIn(os', p, k)
    BY <2>1, RunnerAssumption DEF LivesIn, Refused, NoProcess
  <2>3. QED BY <1>6, <2>2
<1>7. CASE q = p /\ ~ScopeIn(table, j)
  <2>1. os'[p] = Spawned(j, cpus)
    BY <1>1, <1>2, <1>7
  <2>2. k = j
    BY <1>7, <2>1 DEF LivesIn, Spawned, NoProcess
  <2>3. \A r \in Pids : ~LivesIn(table, r, j)
    BY <1>7 DEF ScopeIn
  <2>4. QED BY <1>4, <1>7, <2>2, <2>3 DEF LivesIn
<1>8. QED BY <1>5, <1>6, <1>7

(***************************************************************************)
(* With scopes no step makes a second process of a job.                    *)
(***************************************************************************)
LEMMA NeverTwiceStep ==
    ASSUME Scoped, TypeOK, NeverTwice, [Next]_vars
    PROVE  NeverTwice'
<1> SUFFICES ASSUME NEW k \in Jobs, NEW q \in Pids, NEW r \in Pids,
                    LivesIn(os', q, k), LivesIn(os', r, k)
             PROVE  q = r
  BY DEF NeverTwice, Lives, LivesIn
<1>1. CASE \A j \in Jobs : ~Launch(j)
  <2>1. LivesIn(os, q, k) /\ LivesIn(os, r, k)
    BY <1>1, NoneAppears DEF Appears
  <2>2. QED BY <2>1 DEF NeverTwice, Lives
<1>2. ASSUME NEW j \in Jobs, Launch(j) PROVE q = r
  <2>1. PICK p, cpus : p \in Pids /\ StartProcess(j, p, cpus)
    BY <1>2 DEF Launch
  <2>2. CASE LivesIn(os, q, k) /\ LivesIn(os, r, k)
    BY <2>2 DEF NeverTwice, Lives
  <2>3. CASE ~LivesIn(os, q, k) \/ ~LivesIn(os, r, k)
    BY <2>1, <2>3, LaunchOfNone
  <2>4. QED BY <2>2, <2>3
<1>3. QED BY <1>1, <1>2

(***************************************************************************)
(* With scopes no job ever runs twice at the same time: not after a crash  *)
(* before the save, not after a failed liveness test, not with tmux        *)
(* sessions that outlive their kill (wrap_scope_command names the scope    *)
(* after the job).                                                         *)
(***************************************************************************)
THEOREM ScopesPreventDoubles ==
    ASSUME Scoped
    PROVE  Spec => []NeverTwice
<1>1. Init => NeverTwice
  <2>1. Nobody \notin Jobs
    BY RunnerAssumption
  <2>2. QED BY <2>1 DEF Init, RunnerInit, NeverTwice, Lives, LivesIn, NoProcess
<1>2. TypeOK /\ NeverTwice /\ [Next]_vars => NeverTwice'
  BY NeverTwiceStep
<1>3. QED BY <1>1, <1>2, TypeCorrect, PTL DEF Spec

(***************************************************************************)
(* With scopes reconciliation fails a job only when nothing of it runs     *)
(* any more, whatever became of its tracked process.                       *)
(***************************************************************************)
THEOREM ScopesSpareTheLiving ==
    ASSUME Scoped
    PROVE  Spec => ZombiesAreDead
<1>1. TypeOK /\ [Next]_vars =>
        [\A j \in Jobs : (pc = "reconcile" /\ pc' = "reconcile" /\ jobs'[j] # jobs[j])
                           => ~Alive(j)]_vars
  <2> SUFFICES ASSUME TypeOK, [Next]_vars, NEW j \in Jobs, pc = "reconcile",
                      pc' = "reconcile", jobs'[j] # jobs[j]
               PROVE  ~Alive(j)
    OBVIOUS
  <2>1. PICK i \in Jobs : Reconcile(i)
    <3>1. ~Start /\ ~Rerun /\ ~Stop /\ ~Crash /\ ~Reboot
      BY DEF Start, Rerun, Stop, Crash, Reboot, Dies
    <3>2. ~World
      BY DEF World, TimePasses, Pause, Release, orchVars
    <3>3. ~UNCHANGED vars
      BY DEF vars
    <3>4. ~Reconciled /\ ~Tick /\ ~Reaped /\ ~SkipsDone /\ ~PinsDone /\ ~EndTick
      BY DEF Reconciled, Tick, Reaped, SkipsDone, PinsDone, EndTick
    <3>5. \A i \in Jobs : /\ ~Reap(i) /\ ~StillRuns(i) /\ ~Skip(i) /\ ~EnforcePin(i)
                          /\ ~Defer(i) /\ ~Launch(i) /\ ~LaunchFails(i)
      BY DEF Reap, StillRuns, Skip, EnforcePin, Defer, Launch, LaunchFails, Visits, Starts
    <3>6. QED BY <3>1, <3>2, <3>3, <3>4, <3>5 DEF Next, Loop
  <2>2. jobs' = Zombied(jobs, i) /\ ~ScopeActive(i)
    BY <2>1 DEF Reconcile
  <2>3. j = i
    BY <2>2 DEF Zombied, TypeOK, JobLists
  <2>4. QED BY <2>2, <2>3 DEF ScopeActive, ScopeIn, Alive, Lives
<1>2. QED BY <1>1, TypeCorrect, PTL DEF Spec, ZombiesAreDead

-----------------------------------------------------------------------------
(* What one step does to the table. *)

Others(p) == \A q \in Pids \ {p} : os'[q] = os[q]

\* The command of session p ends with the code: a child of the scheduler stays
\* as a zombie, and of another only its descendants stay.
CommandEnded(p, code) ==
    /\ os[p].owner \in Jobs /\ os[p].state = "up"
    /\ ended' = [ended EXCEPT ![os[p].owner] = code]
    /\ \/ os'[p] = NoProcess /\ p \notin handles
       \/ /\ os'[p].owner = os[p].owner
          /\ os'[p].cpus = os[p].cpus
          /\ os'[p].kids => "kids" \in Events
          /\ os'[p].mem = IF os'[p].kids THEN os[p].mem ELSE 0
          /\ IF p \in handles THEN os'[p].state = "zombie" /\ os'[p].code = code
             ELSE os'[p].state = "free" /\ os'[p].kids

\* An entry keeps its owner, its leader's state, its cores and its pane.
Keeps(old, new) ==
    /\ new.owner = old.owner /\ new.state = old.state /\ new.code = old.code
    /\ new.cpus = old.cpus /\ new.pane = old.pane

KidsEnded(p) ==
    /\ os[p].kids
    /\ \/ os'[p] = NoProcess /\ os[p].state = "free"
       \/ /\ Keeps(os[p], os'[p])
          /\ ~os'[p].kids /\ os'[p].mem = 0

Grown(p) ==
    /\ "grow" \in Events /\ os[p].owner \in Jobs /\ os[p].state = "up"
    /\ Keeps(os[p], os'[p])
    /\ os'[p].kids = os[p].kids /\ os'[p].mem = JobRam[os[p].owner]

Drifted(p) ==
    /\ "drift" \in Events
    /\ os'[p].owner = os[p].owner /\ os'[p].state = os[p].state
    /\ os'[p].code = os[p].code /\ os'[p].pane = os[p].pane
    /\ os'[p].kids = os[p].kids /\ os'[p].mem = os[p].mem

ForeignCame(p) ==
    /\ "foreign" \in Events /\ os[p] = NoProcess
    /\ os'[p].owner = Foreign /\ os'[p].state = "up" /\ ~os'[p].kids /\ os'[p].mem = 0

ForeignWent(p) == os[p].owner = Foreign /\ os'[p] = NoProcess

\* The ways in which the host changes the entry of p alone.
HostMoved(p) ==
    \/ \E code \in ExitCodes \cup {137} : CommandEnded(p, code)
    \/ /\ ended' = ended
       /\ KidsEnded(p) \/ Grown(p) \/ Drifted(p) \/ ForeignCame(p) \/ ForeignWent(p)

(***************************************************************************)
(* The end of a command changes the table as CommandEnded says.            *)
(***************************************************************************)
LEMMA EndsMoves ==
    ASSUME RunnerTypeOK, NEW p \in Pids, NEW code, NEW kids \in BOOLEAN, Ends(p, code, kids)
    PROVE  CommandEnded(p, code) /\ Others(p) /\ handles' = handles
<1>1. os[p] \in Process
  BY DEF RunnerTypeOK
<1> DEFINE proc == [os[p] EXCEPT !.state = "zombie", !.code = code, !.kids = kids,
                                 !.mem = IF kids THEN @ ELSE 0, !.pane = FALSE]
<1>2. PICK mem : mem = IF kids THEN os[p].mem ELSE 0
  OBVIOUS
<1>3. proc = [os[p] EXCEPT !.state = "zombie", !.code = code, !.kids = kids,
                           !.mem = mem, !.pane = FALSE]
  BY <1>2
<1>4. /\ os' = [os EXCEPT ![p] = IF p \in handles THEN proc ELSE Waited(proc)]
      /\ os[p].owner \in Jobs /\ os[p].state = "up"
      /\ kids => "kids" \in Events
      /\ ended' = [ended EXCEPT ![os[p].owner] = code]
      /\ handles' = handles
  BY DEF Ends
<1> HIDE DEF proc
<1>5. Others(p) /\ os'[p] = IF p \in handles THEN proc ELSE Waited(proc)
  BY <1>4 DEF Others, RunnerTypeOK
<1>6. /\ proc.owner = os[p].owner /\ proc.state = "zombie" /\ proc.code = code
      /\ proc.kids = kids /\ proc.mem = mem /\ proc.cpus = os[p].cpus
  BY <1>1, <1>3 DEF Process
<1>7. CASE p \in handles
  BY <1>2, <1>4, <1>5, <1>6, <1>7 DEF CommandEnded
<1>8. CASE p \notin handles /\ ~kids
  <2>1. os'[p] = NoProcess
    BY <1>5, <1>6, <1>8 DEF Waited
  <2>2. QED BY <1>4, <1>5, <1>8, <2>1 DEF CommandEnded
<1>9. CASE p \notin handles /\ kids
  <2>1. os'[p] = [proc EXCEPT !.state = "free", !.code = NoCode]
    BY <1>5, <1>6, <1>9 DEF Waited
  <2>2. os'[p] = [os[p] EXCEPT !.state = "free", !.code = NoCode, !.kids = kids,
                               !.mem = mem, !.pane = FALSE]
    BY <1>1, <1>3, <2>1 DEF Process
  <2>3. /\ os'[p].owner = os[p].owner /\ os'[p].state = "free"
        /\ os'[p].kids = kids /\ os'[p].mem = mem /\ os'[p].cpus = os[p].cpus
    BY <1>1, <2>2 DEF Process
  <2>4. QED BY <1>2, <1>4, <1>5, <1>9, <2>3 DEF CommandEnded
<1>10. QED BY <1>7, <1>8, <1>9

(***************************************************************************)
(* Every step of the host leaves the handles alone and changes one entry   *)
(* at most, in one of these ways.                                          *)
(***************************************************************************)
LEMMA HostMoves ==
    ASSUME RunnerTypeOK, Host
    PROVE  /\ handles' = handles
           /\ \/ os' = os /\ ended' = ended
              \/ \E p \in Pids : Others(p) /\ HostMoved(p)
<1>0. os \in [Pids -> Process] /\ NoProcess \in Process
  BY NoProcessTyped DEF RunnerTypeOK
<1>1. ASSUME NEW p \in Pids, JobEnds(p) \/ OomKill(p)
      PROVE  handles' = handles /\ Others(p) /\ HostMoved(p)
  <2>1. PICK code \in ExitCodes \cup {137}, kids \in BOOLEAN : Ends(p, code, kids)
    BY <1>1 DEF JobEnds, OomKill
  <2>2. QED BY <2>1, EndsMoves DEF HostMoved
<1>2. ASSUME NEW p \in Pids, KidsEnd(p)
      PROVE  handles' = handles /\ Others(p) /\ HostMoved(p)
  <2>1. PICK m : m = 0
    OBVIOUS
  <2>2. PICK proc : proc = [os[p] EXCEPT !.kids = FALSE, !.mem = m]
    OBVIOUS
  <2>3. ~proc.kids /\ proc.mem = 0 /\ Keeps(os[p], proc)
    BY <1>0, <2>1, <2>2 DEF Keeps, Process
  <2>4. /\ os[p].kids /\ handles' = handles /\ ended' = ended
        /\ os' = [os EXCEPT ![p] = IF proc.state = "free" THEN NoProcess ELSE proc]
    BY <1>2, <2>1, <2>2 DEF KidsEnd
  <2>5. KidsEnded(p)
    BY <1>0, <2>3, <2>4 DEF KidsEnded, Keeps
  <2>6. QED BY <1>0, <2>4, <2>5 DEF Others, HostMoved
<1>3. ASSUME NEW p \in Pids, Grows(p)
      PROVE  handles' = handles /\ Others(p) /\ HostMoved(p)
  <2>1. handles' = handles /\ Others(p) /\ ended' = ended
    BY <1>0, <1>3 DEF Grows, Others
  <2>2. Grown(p)
    BY <1>0, <1>3 DEF Grows, Grown, Keeps, Process
  <2>3. QED BY <2>1, <2>2 DEF HostMoved
<1>4. ASSUME NEW p \in Pids, Drifts(p)
      PROVE  handles' = handles /\ Others(p) /\ HostMoved(p)
  <2>1. handles' = handles /\ Others(p) /\ ended' = ended
    BY <1>0, <1>4 DEF Drifts, Others
  <2>2. Drifted(p)
    BY <1>0, <1>4 DEF Drifts, Drifted, Process
  <2>3. QED BY <2>1, <2>2 DEF HostMoved
<1>5. ASSUME NEW p \in Pids, ForeignStarts(p)
      PROVE  handles' = handles /\ Others(p) /\ HostMoved(p)
  <2>1. handles' = handles /\ Others(p) /\ ended' = ended
    BY <1>0, <1>5 DEF ForeignStarts, Others
  <2>2. ForeignCame(p)
    BY <1>0, <1>5 DEF ForeignStarts, ForeignCame, NoProcess
  <2>3. QED BY <2>1, <2>2 DEF HostMoved
<1>6. ASSUME NEW p \in Pids, ForeignEnds(p)
      PROVE  handles' = handles /\ Others(p) /\ HostMoved(p)
  BY <1>0, <1>6 DEF ForeignEnds, Others, ForeignWent, HostMoved
<1>7. CASE JournalAges
  BY <1>7 DEF JournalAges
<1>8. QED BY <1>1, <1>2, <1>3, <1>4, <1>5, <1>6, <1>7, Zenon DEF Host

\* A process was waited for: of it only its descendants stay.
Buried(old, new) ==
    \/ new = NoProcess /\ ~old.kids
    \/ /\ new.owner = old.owner /\ new.state = "free" /\ old.kids /\ new.kids
       /\ new.mem = old.mem

(***************************************************************************)
(* _forget buries the process whose handle it drops, and no other.         *)
(***************************************************************************)
LEMMA ForgetMoves ==
    ASSUME RunnerTypeOK, NEW session, Forget(session)
    PROVE  /\ handles' = handles \ {session}
           /\ \A q \in Pids : \/ os'[q] = os[q] /\ (q = session => q \notin handles)
                              \/ q = session /\ q \in handles /\ Buried(os[q], os'[q])
<1>1. ASSUME NEW proc \in Process PROVE Buried(proc, Waited(proc))
  BY DEF Buried, Waited, Process
<1>2. CASE session \in handles
  <2>1. session \in Pids
    BY <1>2 DEF RunnerTypeOK
  <2>2. os' = [os EXCEPT ![session] = Waited(os[session])]
    BY <1>2 DEF Forget
  <2>3. QED BY <1>1, <1>2, <2>1, <2>2 DEF Forget, RunnerTypeOK
<1>3. CASE session \notin handles
  BY <1>3 DEF Forget
<1>4. QED BY <1>2, <1>3

(***************************************************************************)
(* The end of the scheduler's process buries its zombies.                  *)
(***************************************************************************)
LEMMA OrphansMove ==
    ASSUME RunnerTypeOK, OrphansAll
    PROVE  /\ handles' = {} /\ ended' = ended
           /\ \A q \in Pids :
                \/ os'[q] = os[q] /\ ~(q \in handles /\ os[q].state = "zombie")
                \/ os[q].state = "zombie" /\ Buried(os[q], os'[q])
<1>1. ASSUME NEW proc \in Process PROVE Buried(proc, Waited(proc))
  BY DEF Buried, Waited, Process
<1>2. QED BY <1>1 DEF OrphansAll, RunnerTypeOK

(***************************************************************************)
(* enforce_pin changes the cores of processes it takes for the job's.      *)
(***************************************************************************)
LEMMA PinMoves ==
    ASSUME RunnerTypeOK, NEW j, NEW session, NEW block, Pin(j, session, block), NEW q \in Pids
    PROVE  \/ os'[q] = os[q]
           \/ /\ q \in ProcessesOf(j, session)
              /\ os'[q].cpus = block
              /\ os'[q].owner = os[q].owner /\ os'[q].state = os[q].state
              /\ os'[q].code = os[q].code /\ os'[q].pane = os[q].pane
              /\ os'[q].kids = os[q].kids /\ os'[q].mem = os[q].mem
BY DEF Pin, RunnerTypeOK, Process

\* The command of a launched job runs, or systemd-run refused it.
Begun(p, j, cpus) ==
    /\ os'[p].owner = j /\ os'[p].state = "up" /\ ~os'[p].kids
    /\ os'[p].cpus = cpus
    /\ os'[p].mem = (IF "grow" \in Events THEN 0 ELSE JobRam[j])
    /\ Backend = "tmux" => os'[p].pane
    /\ ended'[j] = NoCode

Rejected(p, j) ==
    /\ ended'[j] = 1
    /\ IF Backend = "tmux" THEN os'[p] = NoProcess
       ELSE /\ os'[p].owner = j /\ os'[p].state = "zombie" /\ os'[p].code = 1
            /\ ~os'[p].kids /\ os'[p].mem = 0

\* tmux kill-session was called on the session of q.
Hung(q) ==
    \/ os'[q] = NoProcess
    \/ /\ os'[q].owner = os[q].owner /\ os'[q].state = os[q].state
       /\ os'[q].code = os[q].code /\ os'[q].kids = os[q].kids
       /\ os'[q].mem = os[q].mem /\ os'[q].cpus = os[q].cpus

(***************************************************************************)
(* A launch takes a free id, and but for a stale session it touches no     *)
(* other process.                                                          *)
(***************************************************************************)
LEMMA LaunchMoves ==
    ASSUME RunnerTypeOK, NEW j \in Jobs, NEW p \in Pids, NEW cpus, StartProcess(j, p, cpus)
    PROVE  /\ os[p] = NoProcess
           /\ handles' = IF Backend = "tmux" THEN handles ELSE handles \cup {p}
           /\ \A q \in Pids \ {p} :
                os'[q] = os[q] \/ (Backend = "tmux" /\ q \in Target(j) /\ Hung(q))
           /\ Backend # "tmux" => \A k \in Jobs \ {j} : ended'[k] = ended[k]
           /\ Begun(p, j, cpus) \/ Rejected(p, j)
<1> DEFINE stale == IF Backend = "tmux" THEN Target(j) ELSE {}
<1>1. PICK obey \in BOOLEAN : \E collides :
          /\ os[p] = NoProcess
          /\ os' = [HungUp(stale, obey) EXCEPT
                      ![p] = IF collides THEN Refused(j) ELSE Spawned(j, cpus)]
          /\ handles' = IF Backend = "tmux" THEN handles ELSE handles \cup {p}
          /\ ended' = [EndedBy(stale, obey) EXCEPT
                         ![j] = IF collides THEN 1 ELSE NoCode]
  BY Zenon DEF StartProcess
<1>10. PICK collides :
          /\ os' = [HungUp(stale, obey) EXCEPT
                      ![p] = IF collides THEN Refused(j) ELSE Spawned(j, cpus)]
          /\ ended' = [EndedBy(stale, obey) EXCEPT
                         ![j] = IF collides THEN 1 ELSE NoCode]
  BY <1>1
<1>2. DOMAIN HungUp(stale, obey) = Pids /\ DOMAIN EndedBy(stale, obey) = Jobs
  BY DEF HungUp, EndedBy
<1>3. /\ os'[p] = IF collides THEN Refused(j) ELSE Spawned(j, cpus)
      /\ \A q \in Pids \ {p} : os'[q] = HungUp(stale, obey)[q]
      /\ ended'[j] = IF collides THEN 1 ELSE NoCode
      /\ \A k \in Jobs \ {j} : ended'[k] = EndedBy(stale, obey)[k]
  BY <1>10, <1>2
<1>4. ASSUME NEW q \in Pids \ {p}
      PROVE  os'[q] = os[q] \/ (Backend = "tmux" /\ q \in Target(j) /\ Hung(q))
  <2>1. CASE q \notin stale
    BY <1>3, <2>1 DEF HungUp
  <2>2. CASE q \in stale
    <3>1. Backend = "tmux" /\ q \in Target(j)
      BY <2>2
    <3>2. os'[q] = NoProcess \/ os'[q] = [os[q] EXCEPT !.pane = FALSE]
      BY <1>3, <2>2 DEF HungUp
    <3>3. QED BY <3>1, <3>2 DEF Hung, RunnerTypeOK, Process
  <2>3. QED BY <2>1, <2>2
<1>5. ASSUME Backend # "tmux", NEW k \in Jobs \ {j} PROVE ended'[k] = ended[k]
  BY <1>3, <1>5 DEF EndedBy
<1>6. CASE collides
  <2>1. os'[p] = Refused(j) /\ ended'[j] = 1
    BY <1>3, <1>6
  <2>2. Rejected(p, j)
    BY <2>1 DEF Rejected, Refused, NoProcess
  <2>3. QED BY <1>1, <1>4, <1>5, <2>2
<1>7. CASE ~collides
  <2>1. os'[p] = Spawned(j, cpus) /\ ended'[j] = NoCode
    BY <1>3, <1>7
  <2>2. Begun(p, j, cpus)
    <3>1. PICK m : m = IF "grow" \in Events THEN 0 ELSE JobRam[j]
      OBVIOUS
    <3>2. PICK b \in BOOLEAN : b = (Backend = "tmux")
      OBVIOUS
    <3>3. os'[p] = [NoProcess EXCEPT !.owner = j, !.state = "up", !.cpus = cpus, !.mem = m,
                                     !.pane = b]
      BY <2>1, <3>1, <3>2 DEF Spawned
    <3>4. /\ os'[p].owner = j /\ os'[p].state = "up" /\ os'[p].kids = FALSE
          /\ os'[p].cpus = cpus /\ os'[p].mem = m /\ os'[p].pane = b
      BY <3>3 DEF NoProcess
    <3>5. QED BY <2>1, <3>1, <3>2, <3>4 DEF Begun
  <2>3. QED BY <1>1, <1>4, <1>5, <2>2
<1>8. QED BY <1>6, <1>7

-----------------------------------------------------------------------------
(* The handles that the scheduler keeps. *)

\* A retained handle is of a running job, a zombie has its handle, and a new
\* process starts with none.
Retained ==
    /\ \A p \in handles : \E j \in Running(jobs) : jobs[j].session = p
    /\ \A p \in Pids : os[p].state = "zombie" => p \in handles
    /\ pc \in {"down", "reconcile"} => handles = {}

(***************************************************************************)
(* Every step keeps it: the launch takes the only handle it needs, and the *)
(* reap, the end of the process and the reboot drop what they must.        *)
(***************************************************************************)
LEMMA RetainedStep ==
    ASSUME "rerun" \notin Events, TypeOK, Passes, Retained, [Next]_vars
    PROVE  Retained'
<1>0. /\ RunnerTypeOK /\ jobs \in JobLists /\ os \in [Pids -> Process] /\ handles \subseteq Pids
      /\ NoProcess.state # "zombie"
  BY DEF TypeOK, RunnerTypeOK, NoProcess
<1>1. ASSUME handles' = handles, os' = os, jobs' = jobs,
             pc' \in {"down", "reconcile"} => pc \in {"down", "reconcile"}
      PROVE  Retained'
  BY <1>1 DEF Retained, Running, With
<1>2. CASE Start \/ Rerun
  BY <1>2 DEF Start, Rerun, Retained, runnerVars
<1>3. CASE Reconciled \/ Tick \/ Reaped \/ SkipsDone \/ PinsDone \/ EndTick
  BY <1>1, <1>3 DEF Reconciled, Tick, Reaped, SkipsDone, PinsDone, EndTick, runnerVars
<1>4. ASSUME NEW j \in Jobs, Reconcile(j) PROVE Retained'
  BY <1>4 DEF Reconcile, Visits, Retained, runnerVars
<1>5. ASSUME NEW j \in Jobs, Reap(j) PROVE Retained'
  <2>1. /\ handles' = handles \ {jobs[j].session}
        /\ \A q \in Pids : \/ os'[q] = os[q] /\ (q = jobs[j].session => q \notin handles)
                           \/ q = jobs[j].session /\ q \in handles /\ Buried(os[q], os'[q])
    BY <1>0, <1>5, ForgetMoves DEF Reap
  <2>2. \A i \in Jobs \ {j} : jobs'[i] = jobs[i]
    BY <1>0, <1>5 DEF Reap, Settled, JobLists
  <2>3. \A p \in handles' : \E i \in Running(jobs') : jobs'[i].session = p
    BY <2>1, <2>2 DEF Retained, Running, With
  <2>4. \A q \in Pids : os'[q].state = "zombie" => q \in handles'
    BY <1>0, <2>1 DEF Retained, Buried
  <2>5. pc' \notin {"down", "reconcile"}
    BY <1>5 DEF Reap, Visits
  <2>6. QED BY <2>3, <2>4, <2>5 DEF Retained
<1>6. ASSUME NEW j \in Jobs, StillRuns(j) \/ Defer(j) PROVE Retained'
  BY <1>1, <1>6 DEF StillRuns, Defer, Visits, runnerVars
<1>7. ASSUME NEW j \in Jobs, Skip(j) PROVE Retained'
  <2>1. jobs[j].status = "pending" /\ \A i \in Jobs \ {j} : jobs'[i] = jobs[i]
    BY <1>0, <1>7 DEF Skip, Blocked, Skipped, JobLists
  <2>2. QED BY <1>7, <2>1 DEF Skip, Retained, Running, With, runnerVars
<1>8. ASSUME NEW j \in Jobs, EnforcePin(j) PROVE Retained'
  <2>1. \A q \in Pids : os'[q].state = os[q].state
    BY <1>0, <1>8, PinMoves DEF EnforcePin
  <2>2. QED BY <1>8, <2>1 DEF EnforcePin, Visits, Retained, Running, With
<1>9. ASSUME NEW j \in Jobs, Launch(j) PROVE Retained'
  <2>1. PICK p \in Pids, pl \in Allocations(jobs, j) :
            /\ StartProcess(j, p, StartCpus(pl.cpu_list))
            /\ jobs' = Launched(jobs, j, pl, p)
    BY <1>9 DEF Launch
  <2>2. /\ \A i \in Jobs \ {j} : jobs'[i] = jobs[i]
        /\ jobs'[j].status = "running" /\ jobs'[j].session = p
    BY <1>0, <2>1 DEF Launched, JobLists, JobRecord
  <2>3. jobs[j].status = "pending" /\ pc' = "launch"
    BY <1>9 DEF Launch, Starts, FirstToLaunch, Passes, Pending, With
  <2>4. /\ handles' = IF Backend = "tmux" THEN handles ELSE handles \cup {p}
        /\ \A q \in Pids \ {p} :
             os'[q] = os[q] \/ (Backend = "tmux" /\ q \in Target(j) /\ Hung(q))
        /\ Begun(p, j, StartCpus(pl.cpu_list)) \/ Rejected(p, j)
    BY <1>0, <2>1, LaunchMoves
  <2>5. \A q \in handles' : \E i \in Running(jobs') : jobs'[i].session = q
    BY <2>2, <2>3, <2>4 DEF Retained, Running, With
  <2>6. \A q \in Pids : os'[q].state = "zombie" => q \in handles'
    BY <1>0, <2>4 DEF Retained, Hung, Begun, Rejected
  <2>7. QED BY <2>3, <2>5, <2>6 DEF Retained
<1>10. ASSUME NEW j \in Jobs, LaunchFails(j) PROVE Retained'
  <2>1. jobs[j].status = "pending" /\ pc' = "launch"
    BY <1>10 DEF LaunchFails, Starts, FirstToLaunch, Passes, Pending, With
  <2>2. \A i \in Jobs \ {j} : jobs'[i] = jobs[i]
    BY <1>0, <1>10 DEF LaunchFails, NotLaunched, JobLists
  <2>3. QED BY <1>10, <2>1, <2>2 DEF LaunchFails, Retained, Running, With, runnerVars
<1>11. CASE Stop \/ Crash
  <2>1. OrphansAll
    BY <1>11 DEF Stop, Crash, Dies
  <2>2. QED BY <1>0, <2>1, OrphansMove DEF Retained, Buried
<1>12. CASE Reboot
  BY <1>0, <1>12 DEF Reboot, Retained
<1>13. CASE World
  <2>1. CASE Host /\ UNCHANGED orchVars
    <3>1. /\ handles' = handles
          /\ os' = os \/ \E p \in Pids : Others(p) /\ HostMoved(p)
      BY <1>0, <2>1, HostMoves
    <3>2. \A q \in Pids : os'[q].state = "zombie" => q \in handles'
      BY <1>0, <3>1 DEF Retained, Others, HostMoved, CommandEnded, KidsEnded, Grown, Drifted,
         ForeignCame, ForeignWent, Keeps
    <3>3. QED BY <2>1, <3>1, <3>2 DEF Retained, Running, With, orchVars
  <2>2. CASE TimePasses \/ Pause \/ \E j \in Jobs : Release(j)
    BY <1>1, <2>2 DEF TimePasses, Pause, Release, runnerVars
  <2>3. QED BY <1>13, <2>1, <2>2 DEF World
<1>14. CASE UNCHANGED vars
  BY <1>1, <1>14 DEF vars
<1>15. QED
  BY <1>2, <1>3, <1>4, <1>5, <1>6, <1>7, <1>8, <1>9, <1>10, <1>11, <1>12, <1>13, <1>14
     DEF Next, Loop

\* A running job has a session.
Named(list) == \A j \in Running(list) : list[j].session \in Pids

(***************************************************************************)
(* A launch records a session, and nothing else makes a job running.       *)
(***************************************************************************)
LEMMA NamedStep ==
    ASSUME NEW list \in JobLists, NEW new, Named(list),
           ListStep(list, new) \/ Released(list, new)
    PROVE  Named(new)
<1> USE DEF JobLists, JobRecord, Named, Running, With
<1>1. ASSUME NEW j \in Jobs, JobEnded(list, new, j) PROVE Named(new)
  <2>1. \A i \in Jobs \ {j} : new[i] = list[i]
    BY <1>1 DEF JobEnded, Settled, Zombied
  <2>2. list[j] \in JobRecord
    OBVIOUS
  <2>3. CASE new = Zombied(list, j)
    <3>1. new[j].status = "failed"
      BY <2>2, <2>3 DEF Zombied
    <3>2. QED BY <2>1, <3>1
  <2>4. ASSUME NEW outcome, outcome.status \in {"done", "failed"},
               new = Settled(list, j, outcome)
        PROVE  Named(new)
    <3>1. new[j].status = outcome.status
      BY <2>2, <2>4 DEF Settled
    <3>2. QED BY <2>1, <2>4, <3>1
  <2>5. QED BY <1>1, <2>3, <2>4 DEF JobEnded
<1>2. ASSUME NEW j \in Jobs, JobSkipped(list, new, j) PROVE Named(new)
  <2>1. \A i \in Jobs \ {j} : new[i] = list[i]
    BY <1>2 DEF JobSkipped, Skipped
  <2>2. new[j].status = "skipped"
    BY <1>2 DEF JobSkipped, Skipped
  <2>3. QED BY <2>1, <2>2
<1>3. ASSUME NEW j \in Jobs, JobTried(list, new, j) PROVE Named(new)
  <2>1. PICK pl : \/ new = NotLaunched(list, j, pl)
                  \/ \E p \in Pids : new = Launched(list, j, pl, p)
    BY <1>3 DEF JobTried
  <2>2. \A i \in Jobs \ {j} : new[i] = list[i]
    BY <2>1 DEF NotLaunched, Launched
  <2>3. list[j] \in JobRecord
    OBVIOUS
  <2>4. CASE new = NotLaunched(list, j, pl)
    <3>1. new[j].status = "failed"
      BY <2>3, <2>4 DEF NotLaunched
    <3>2. QED BY <2>2, <3>1
  <2>5. ASSUME NEW p \in Pids, new = Launched(list, j, pl, p) PROVE Named(new)
    <3>1. new[j].session = p
      BY <2>3, <2>5 DEF Launched
    <3>2. QED BY <2>2, <3>1
  <2>6. QED BY <2>1, <2>4, <2>5
<1>4. CASE Released(list, new)
  BY <1>4 DEF Released
<1>5. QED BY <1>1, <1>2, <1>3, <1>4 DEF ListStep

(***************************************************************************)
(* So in the list in memory and in the file.                               *)
(***************************************************************************)
LEMMA SessionsNamed == Spec => [](Named(jobs) /\ Named(file))
<1>1. Named(Yaml)
  BY YamlStatus DEF Named, Running, With
<1>2. Init => Named(jobs) /\ Named(file)
  BY <1>1 DEF Init
<1>3. TypeOK /\ Passes /\ (Named(jobs) /\ Named(file)) /\ [Next]_vars =>
        (Named(jobs) /\ Named(file))'
  <2> SUFFICES ASSUME TypeOK, Passes, Named(jobs), Named(file), [Next]_vars
               PROVE  Named(jobs') /\ Named(file')
    BY DEF Named
  <2>1. jobs \in JobLists /\ file \in JobLists
    BY DEF TypeOK
  <2>2. QED
    BY <1>1, <2>1, ListsMove, NamedStep DEF Rests, Saves, Loads, Works, Ending, Edited
<1>4. QED BY <1>2, <1>3, TypeCorrect, PassesCorrect, PTL DEF Spec

(***************************************************************************)
(* While run is called once in a process, the handles kept at rest are     *)
(* exactly those that running jobs still need, whatever ends, fails to     *)
(* start, crashes or reboots in between.                                   *)
(***************************************************************************)
THEOREM HandlesAreOfRunning ==
    ASSUME "rerun" \notin Events
    PROVE  Spec => []HandlesOfRunning
<1>1. Init => Retained
  BY DEF Init, RunnerInit, Retained, NoProcess
<1>2. TypeOK /\ Passes /\ Retained /\ [Next]_vars => Retained'
  BY RetainedStep
<1>3. Named(jobs) /\ Retained => HandlesOfRunning
  <2> SUFFICES ASSUME Named(jobs), Retained, NEW j \in Jobs, jobs[j].status = "running",
                      os[jobs[j].session].state = "zombie"
               PROVE  jobs[j].session \in handles
    BY DEF HandlesOfRunning, Retained, Running, With
  <2>1. QED BY DEF Retained, Named, Running, With
<1>4. QED BY <1>1, <1>2, <1>3, TypeCorrect, PassesCorrect, SessionsNamed, PTL DEF Spec

-----------------------------------------------------------------------------
(* Stops without crashes: the list that stands knows every process. *)

\* The process is up, and with tmux its session is its job's.
Stands(p, i) ==
    /\ os[p].state = "up"
    /\ Backend = "tmux" => os[p].owner = i /\ os[p].pane

(***************************************************************************)
(* A job whose recorded process is up keeps its entry through every step   *)
(* but a reboot or a crash: no reap, reconciliation or reload touches it.  *)
(***************************************************************************)
LEMMA Spared ==
    ASSUME "crash" \notin Events, TypeOK, Passes, Flagged, [Next]_vars, ~Reboot,
           NEW i \in Running(Standing), NEW p \in Pids, Standing[i].session = p, Stands(p, i)
    PROVE  i \in Jobs /\ Standing'[i] = Standing[i]
<1>0. jobs \in JobLists /\ file \in JobLists /\ i \in Jobs /\ Standing[i].status = "running"
  BY DEF TypeOK, Running, With
<1>1. IsAlive(i, p)
  BY QueueAssumption DEF Stands, IsAlive, Target
<1> USE DEF Standing, Up
<1>2. CASE Start \/ Rerun
  BY <1>2, <1>0 DEF Start, Rerun
<1>3. CASE Reconciled \/ Tick \/ Reaped \/ SkipsDone \/ PinsDone \/ EndTick
  BY <1>3, <1>0 DEF Reconciled, Tick, Reaped, SkipsDone, PinsDone, EndTick
<1>4. ASSUME NEW j \in Jobs, Reconcile(j) PROVE Standing'[i] = Standing[i]
  <2>1. CASE j = i
    BY <1>0, <1>1, <1>4, <2>1 DEF Reconcile, Visits
  <2>2. CASE j # i
    BY <1>0, <1>4, <2>2 DEF Reconcile, Visits, Zombied, JobLists
  <2>3. QED BY <2>1, <2>2
<1>5. ASSUME NEW j \in Jobs, Reap(j) PROVE Standing'[i] = Standing[i]
  <2>1. j # i
    BY <1>0, <1>1, <1>5 DEF Reap, Visits
  <2>2. QED BY <1>0, <1>5, <2>1 DEF Reap, Visits, Settled, JobLists
<1>6. ASSUME NEW j \in Jobs, StillRuns(j) \/ Defer(j) \/ EnforcePin(j)
      PROVE  Standing'[i] = Standing[i]
  BY <1>6, <1>0 DEF StillRuns, Defer, EnforcePin, Visits
<1>7. ASSUME NEW j \in Jobs, Skip(j) PROVE Standing'[i] = Standing[i]
  BY <1>0, <1>7 DEF Skip, Blocked, Skipped, JobLists
<1>8. ASSUME NEW j \in Jobs, Launch(j) \/ LaunchFails(j) PROVE Standing'[i] = Standing[i]
  <2>1. jobs[j].status = "pending" /\ pc = "launch" /\ pc' = pc
    BY <1>8 DEF Launch, LaunchFails, Starts, FirstToLaunch, Passes, Pending, With
  <2>2. \E pl : jobs' = NotLaunched(jobs, j, pl) \/ \E q : jobs' = Launched(jobs, j, pl, q)
    BY <1>8 DEF Launch, LaunchFails
  <2>3. jobs'[i] = jobs[i]
    BY <1>0, <2>1, <2>2 DEF NotLaunched, Launched, JobLists
  <2>4. QED BY <2>1, <2>3
<1>9. CASE Stop
  BY <1>0, <1>9 DEF Stop, Dies, Flagged
<1>10. CASE World
  <2>1. ASSUME NEW j \in Jobs, Release(j) PROVE Standing'[i] = Standing[i]
    BY <1>0, <2>1 DEF Release, JobLists
  <2>2. QED BY <1>0, <1>10, <2>1 DEF World, TimePasses, Pause, orchVars
<1>11. CASE UNCHANGED vars
  BY <1>0, <1>11 DEF vars
<1>12. QED
  BY <1>0, <1>2, <1>3, <1>4, <1>5, <1>6, <1>7, <1>8, <1>9, <1>10, <1>11
     DEF Next, Loop, Crash

Tracked ==
    /\ NothingUntracked
    /\ \A p \in Pids : ~os[p].kids
    /\ Backend = "tmux" =>
         \A p \in Pids : os[p].owner \in Jobs /\ os[p].state = "up" => os[p].pane

\* What a step other than a launch leaves of a process.
Ebbs(q) ==
    /\ ~os'[q].kids
    /\ (os'[q].owner \in Jobs /\ os'[q].state = "up") =>
         /\ os[q].owner = os'[q].owner /\ os[q].state = "up" /\ os'[q].pane = os[q].pane
         /\ os'[q].cpus = os[q].cpus \/ "drift" \in Events \/ pc = "pin"

(***************************************************************************)
(* No step but a launch makes a process, and none gives one to another     *)
(* job.                                                                    *)
(***************************************************************************)
LEMMA EbbsStep ==
    ASSUME "kids" \notin Events, TypeOK, [Next]_vars, \A j \in Jobs : ~Launch(j),
           \A q \in Pids : ~os[q].kids, NEW q \in Pids
    PROVE  Ebbs(q)
<1>0. RunnerTypeOK /\ os \in [Pids -> Process] /\ os[q] \in Process
  BY DEF TypeOK, RunnerTypeOK
<1>1. NoProcess.owner \notin Jobs /\ NoProcess.state = "free" /\ ~NoProcess.kids
  BY RunnerAssumption DEF NoProcess
<1>2. CASE os'[q] = os[q]
  BY <1>2 DEF Ebbs
<1>3. CASE Buried(os[q], os'[q])
  BY <1>1, <1>3 DEF Ebbs, Buried
<1>4. ASSUME NEW j \in Jobs, Reap(j) PROVE Ebbs(q)
  BY <1>0, <1>2, <1>3, <1>4, ForgetMoves DEF Reap
<1>5. ASSUME NEW j \in Jobs, EnforcePin(j) PROVE Ebbs(q)
  <2>1. CASE Pin(j, jobs[j].session, ParseCpuList(jobs[j].cpu_list))
    BY <1>0, <1>2, <1>5, <2>1, PinMoves DEF Ebbs, EnforcePin, Visits
  <2>2. QED BY <1>2, <1>5, <2>1 DEF EnforcePin
<1>6. CASE Stop \/ Crash
  BY <1>0, <1>2, <1>3, <1>6, OrphansMove DEF Stop, Crash, Dies
<1>7. CASE Reboot
  BY <1>0, <1>1, <1>7 DEF Reboot, Ebbs
<1>8. CASE Host
  <2>1. os' = os \/ \E p \in Pids : Others(p) /\ HostMoved(p)
    BY <1>0, <1>8, HostMoves
  <2>2. CASE HostMoved(q)
    <3>1. ASSUME NEW code, CommandEnded(q, code) PROVE Ebbs(q)
      BY <1>0, <1>1, <3>1 DEF CommandEnded, Ebbs
    <3>2. CASE KidsEnded(q)
      BY <1>0, <3>2 DEF KidsEnded
    <3>3. CASE Grown(q)
      BY <1>0, <3>3 DEF Grown, Keeps, Ebbs
    <3>4. CASE Drifted(q)
      BY <1>0, <3>4 DEF Drifted, Ebbs
    <3>5. CASE ForeignCame(q)
      BY <3>5, RunnerAssumption DEF ForeignCame, Ebbs
    <3>6. CASE ForeignWent(q)
      BY <1>1, <3>6 DEF ForeignWent, Ebbs
    <3>7. QED BY <2>2, <3>1, <3>2, <3>3, <3>4, <3>5, <3>6 DEF HostMoved
  <2>3. QED BY <1>2, <2>1, <2>2 DEF Others
<1>9. CASE os' = os
  BY <1>2, <1>9
<1>10. CASE Loop
  <2>1. ASSUME NEW j \in Jobs,
               Reconcile(j) \/ StillRuns(j) \/ Skip(j) \/ Defer(j) \/ LaunchFails(j)
        PROVE  os' = os
    BY <2>1 DEF Reconcile, StillRuns, Skip, Defer, LaunchFails, runnerVars
  <2>2. CASE Reconciled \/ Tick \/ Reaped \/ SkipsDone \/ PinsDone \/ EndTick
    BY <1>9, <2>2 DEF Reconciled, Tick, Reaped, SkipsDone, PinsDone, EndTick, runnerVars
  <2>3. QED BY <1>4, <1>5, <1>9, <1>10, <2>1, <2>2 DEF Loop
<1>11. CASE World
  BY <1>8, <1>9, <1>11 DEF World, TimePasses, Pause, Release, runnerVars
<1>12. CASE Start \/ Rerun \/ UNCHANGED vars
  BY <1>9, <1>12 DEF Start, Rerun, runnerVars, vars
<1>13. QED BY <1>6, <1>7, <1>10, <1>11, <1>12 DEF Next

(***************************************************************************)
(* A launch records the process it makes, and what the list in memory      *)
(* forgets at a reboot is gone from the host too.                          *)
(***************************************************************************)
LEMMA TrackedStep ==
    ASSUME "crash" \notin Events, "kids" \notin Events,
           Backend = "tmux" => \A j \in Jobs : LongerNames[j] = {},
           TypeOK, Passes, Flagged, Tracked, [Next]_vars
    PROVE  Tracked'
<1>0. /\ RunnerTypeOK /\ jobs \in JobLists
      /\ NoProcess.owner \notin Jobs /\ NoProcess.state = "free" /\ ~NoProcess.kids
  BY RunnerAssumption DEF TypeOK, NoProcess
<1>1. \A p \in Pids, k \in Jobs : Lives(p, k) <=> os[p].owner = k /\ os[p].state = "up"
  BY DEF Tracked, Lives, LivesIn
<1>2. ASSUME NEW p \in Pids, NEW k \in Jobs, os[p].owner = k, os[p].state = "up"
      PROVE  k \in Running(Standing) /\ Standing[k].session = p /\ Stands(p, k)
  BY <1>1, <1>2 DEF Tracked, NothingUntracked, Standing, Stands, Running, With
<1>3. CASE ~Reboot /\ \A j \in Jobs : ~Launch(j)
  <2>1. \A q \in Pids : Ebbs(q)
    BY <1>3, EbbsStep DEF Tracked
  <2>2. ASSUME NEW p \in Pids, NEW k \in Jobs, LivesIn(os', p, k)
        PROVE  Standing'[k].status = "running" /\ Standing'[k].session = p
    <3>1. os[p].owner = k /\ os[p].state = "up"
      BY <2>1, <2>2 DEF LivesIn, Ebbs
    <3>2. k \in Running(Standing) /\ Standing[k].session = p /\ Stands(p, k)
      BY <1>2, <3>1
    <3>3. Standing'[k] = Standing[k]
      BY <1>3, <3>2, Spared
    <3>4. QED BY <3>2, <3>3 DEF Running, With
  <2>3. NothingUntracked'
    BY <2>2 DEF NothingUntracked, Standing, Lives
  <2>4. QED BY <2>1, <2>3 DEF Tracked, Ebbs
<1>4. CASE Reboot
  BY <1>0, <1>4 DEF Reboot, Tracked, NothingUntracked, Lives, LivesIn
<1>5. ASSUME NEW j \in Jobs, Launch(j) PROVE Tracked'
  <2>1. PICK p \in Pids, pl \in Allocations(jobs, j) :
            /\ StartProcess(j, p, StartCpus(pl.cpu_list))
            /\ jobs' = Launched(jobs, j, pl, p)
    BY <1>5 DEF Launch
  <2>2. /\ \A i \in Jobs \ {j} : jobs'[i] = jobs[i]
        /\ jobs'[j].status = "running" /\ jobs'[j].session = p
    BY <1>0, <2>1 DEF Launched, JobLists, JobRecord
  <2>3. jobs[j].status = "pending" /\ pc = "launch" /\ pc' = "launch"
    BY <1>5 DEF Launch, Starts, FirstToLaunch, Passes, Pending, With
  <2>4. /\ \A q \in Pids \ {p} :
             os'[q] = os[q] \/ (Backend = "tmux" /\ q \in Target(j) /\ Hung(q))
        /\ Begun(p, j, StartCpus(pl.cpu_list)) \/ Rejected(p, j)
    BY <1>0, <2>1, LaunchMoves
  <2>5. \A q \in Pids : ~(os[q].owner = j /\ os[q].state = "up")
    BY <1>2, <2>3 DEF Running, With, Standing
  <2>6. ASSUME Backend = "tmux", NEW q \in Target(j) PROVE os[q].owner = j
    <3>1. LongerNames[j] = {}
      BY <2>6
    <3>2. {r \in Pids : os[r].pane /\ os[r].owner \in LongerNames[j]} = {}
      BY <3>1
    <3>3. QED BY <2>6, <3>2 DEF Target
  <2>7. ASSUME NEW q \in Pids \ {p}
        PROVE  /\ ~os'[q].kids
               /\ (os'[q].owner \in Jobs /\ os'[q].state = "up") =>
                    os'[q] = os[q] /\ os[q].owner # j
    BY <1>0, <2>4, <2>5, <2>6 DEF Hung, Tracked
  <2>8. /\ ~os'[p].kids
        /\ (os'[p].owner \in Jobs /\ os'[p].state = "up") =>
             os'[p].owner = j /\ (Backend = "tmux" => os'[p].pane)
    BY <1>0, <2>4 DEF Begun, Rejected
  <2>9. ASSUME NEW q \in Pids, NEW k \in Jobs, LivesIn(os', q, k)
        PROVE  jobs'[k].status = "running" /\ jobs'[k].session = q
    <3>1. CASE q = p
      BY <2>2, <2>8, <2>9, <3>1 DEF LivesIn
    <3>2. CASE q # p
      <4>1. os[q].owner = k /\ os[q].state = "up" /\ k # j
        BY <2>7, <2>9, <3>2 DEF LivesIn
      <4>2. jobs[k].status = "running" /\ jobs[k].session = q
        BY <1>2, <2>3, <4>1 DEF Standing, Running, With
      <4>3. QED BY <2>2, <4>1, <4>2
    <3>3. QED BY <3>1, <3>2
  <2>10. NothingUntracked'
    BY <2>3, <2>9 DEF NothingUntracked, Lives
  <2>11. QED BY <2>7, <2>8, <2>10 DEF Tracked
<1>6. QED BY <1>3, <1>4, <1>5

(***************************************************************************)
(* Where the scheduler is only ever stopped between its steps, and a       *)
(* command ends with all its descendants, every live process of a job is   *)
(* the recorded one of a job that is running in the list the next pass     *)
(* goes by (runner.py's is_alive, state.py's save and load). With tmux no  *)
(* other session's name may begin with the job's.                          *)
(***************************************************************************)
THEOREM NothingGoesUntracked ==
    ASSUME "crash" \notin Events, "kids" \notin Events,
           Backend = "tmux" => \A j \in Jobs : LongerNames[j] = {}
    PROVE  Spec => []NothingUntracked
<1>1. Init => Flagged
  BY DEF Init, Flagged, Up
<1>2. TypeOK /\ Flagged /\ [Next]_vars => Flagged'
  BY FlaggedStep
<1>3. Init => Tracked
  BY RunnerAssumption DEF Init, RunnerInit, Tracked, NothingUntracked, Lives, LivesIn, NoProcess
<1>4. TypeOK /\ Passes /\ Flagged /\ Tracked /\ [Next]_vars => Tracked'
  BY TrackedStep
<1>5. Tracked => NothingUntracked
  BY DEF Tracked
<1>6. QED
  BY <1>1, <1>2, <1>3, <1>4, <1>5, TypeCorrect, PassesCorrect, PTL DEF Spec

-----------------------------------------------------------------------------
(* What follows for the cores that processes run on. *)

(***************************************************************************)
(* Without scopes too no job then runs twice: the launch pass starts only  *)
(* pending jobs, and a process that lives belongs to a running one.        *)
(***************************************************************************)
THEOREM StopsPreventDoubles ==
    ASSUME "crash" \notin Events, "kids" \notin Events,
           Backend = "tmux" => \A j \in Jobs : LongerNames[j] = {}
    PROVE  Spec => []NeverTwice
<1>1. NothingUntracked => NeverTwice
  BY DEF NothingUntracked, NeverTwice
<1>2. QED BY <1>1, NothingGoesUntracked, PTL

\* Every process of a job runs within the cores that a running job holds whose
\* recorded process it is (with tmux, its own job).
Confined ==
    \A p \in Pids, k \in Jobs : Lives(p, k) =>
        \E i \in Running(Standing) :
            /\ Standing[i].session = p
            /\ os[p].cpus \subseteq Held(Standing, i)
            /\ Backend = "tmux" => i = k

\* The set-up under which placements bind processes.
Binding ==
    /\ "crash" \notin Events /\ "kids" \notin Events /\ "drift" \notin Events
    /\ Tools # {}
    /\ \A j \in Jobs : JobCores[j] >= 1
    /\ Backend = "tmux" => \A j \in Jobs : LongerNames[j] = {} /\ Mentions[j] \subseteq {j}

(***************************************************************************)
(* Every step keeps it. The launch starts the process on the cores it      *)
(* records, and enforce_pin pins it to the cores of the job whose process  *)
(* it is.                                                                  *)
(***************************************************************************)
LEMMA ConfinedStep ==
    ASSUME Binding, TypeOK, Passes, Flagged, Tracked, Confined, [Next]_vars
    PROVE  Confined'
<1>0. /\ RunnerTypeOK /\ jobs \in JobLists
      /\ NoProcess.owner \notin Jobs /\ NoProcess.state = "free" /\ ~NoProcess.kids
  BY RunnerAssumption DEF TypeOK, NoProcess
<1>1. ASSUME NEW p \in Pids, NEW k \in Jobs, os[p].owner = k, os[p].state = "up"
      PROVE  \E i \in Running(Standing) :
               /\ i \in Jobs
               /\ Standing[i].session = p
               /\ os[p].cpus \subseteq Held(Standing, i)
               /\ Backend = "tmux" => i = k
               /\ Stands(p, i)
  <2>1. PICK i \in Running(Standing) :
               /\ Standing[i].session = p
               /\ os[p].cpus \subseteq Held(Standing, i)
               /\ Backend = "tmux" => i = k
    BY <1>1 DEF Confined, Lives, LivesIn
  <2>2. Stands(p, i)
    BY <1>1, <2>1 DEF Stands, Tracked
  <2>3. QED BY <2>1, <2>2 DEF Running, With
<1>2. ASSUME NEW p \in Pids, NEW k \in Jobs, LivesIn(os', p, k), ~Reboot,
             \A j \in Jobs : ~Launch(j)
      PROVE  \E i \in Running(Standing') :
               /\ Standing'[i].session = p
               /\ os'[p].cpus \subseteq Held(Standing', i)
               /\ Backend = "tmux" => i = k
  <2>0. Ebbs(p)
    BY <1>2, EbbsStep DEF Tracked, Binding
  <2>1. /\ os[p].owner = k /\ os[p].state = "up"
        /\ os'[p].cpus = os[p].cpus \/ pc = "pin"
    BY <1>2, <2>0 DEF LivesIn, Ebbs, Binding
  <2>2. PICK i \in Running(Standing) :
               /\ i \in Jobs
               /\ Standing[i].session = p
               /\ os[p].cpus \subseteq Held(Standing, i)
               /\ Backend = "tmux" => i = k
               /\ Stands(p, i)
    BY <1>1, <2>1
  <2>3. Standing'[i] = Standing[i]
    BY <1>2, <2>2, Spared DEF Binding
  <2>4. i \in Running(Standing') /\ Held(Standing', i) = Held(Standing, i)
    BY <2>2, <2>3 DEF Running, With, Held
  <2>5. CASE os'[p].cpus = os[p].cpus
    BY <2>2, <2>3, <2>4, <2>5
  <2>6. ASSUME NEW j \in Jobs, EnforcePin(j), os'[p].cpus # os[p].cpus
        PROVE  \E h \in Running(Standing') :
                 /\ Standing'[h].session = p
                 /\ os'[p].cpus \subseteq Held(Standing', h)
                 /\ Backend = "tmux" => h = k
    <3>1. /\ pc = "pin" /\ pc' = "pin" /\ jobs' = jobs /\ j \in Running(jobs)
          /\ Pin(j, jobs[j].session, ParseCpuList(jobs[j].cpu_list))
      BY <2>6 DEF EnforcePin, Visits, FirstInFile, Passes
    <3>2. /\ p \in ProcessesOf(j, jobs[j].session)
          /\ os'[p].cpus = ParseCpuList(jobs[j].cpu_list)
      BY <1>0, <2>6, <3>1, PinMoves
    <3>3. os'[p].cpus = Held(jobs, j)
      BY <3>1, <3>2 DEF Held, Running, With
    <3>4. CASE Backend = "tmux"
      <4>1. \E h \in Mentions[j] : Lives(p, h)
        BY <3>2, <3>4 DEF ProcessesOf
      <4>2. k = j
        BY <2>1, <3>4, <4>1 DEF Binding, Lives, LivesIn
      <4>3. jobs[j].session = p
        BY <2>2, <3>1, <3>4, <4>2 DEF Standing
      <4>4. QED BY <3>1, <3>3, <4>2, <4>3 DEF Standing
    <3>5. CASE Backend # "tmux"
      BY <3>1, <3>2, <3>3, <3>5 DEF ProcessesOf, Standing
    <3>6. QED BY <3>4, <3>5
  <2>7. ASSUME \A j \in Jobs : ~EnforcePin(j) PROVE os'[p].cpus = os[p].cpus
    <3>1. CASE pc = "pin"
      <4>1. ~Loop \/ PinsDone
        BY <1>2, <2>7, <3>1
           DEF Loop, Reconciled, Tick, Reaped, SkipsDone, EndTick, Reconcile, Reap, StillRuns,
               Skip, Defer, LaunchFails, Starts, Visits
      <4>2. CASE Host
        <5>1. os' = os \/ \E q \in Pids : Others(q) /\ HostMoved(q)
          BY <1>0, <4>2, HostMoves
        <5>2. CASE HostMoved(p)
          BY <1>0, <1>2, <2>1, <5>2, RunnerAssumption
             DEF HostMoved, CommandEnded, KidsEnded, Grown, Keeps, Drifted, ForeignCame,
                 ForeignWent, LivesIn, Tracked, Binding
        <5>3. QED BY <5>1, <5>2 DEF Others
      <4>3. CASE PinsDone \/ Rerun \/ Start \/ UNCHANGED vars
        BY <4>3 DEF PinsDone, Rerun, Start, runnerVars, vars
      <4>4. CASE World
        BY <4>2, <4>4 DEF World, TimePasses, Pause, Release, runnerVars
      <4>5. ~Stop /\ ~Crash
        BY <3>1 DEF Stop, Crash, Binding
      <4>6. QED BY <1>2, <4>1, <4>3, <4>4, <4>5 DEF Next
    <3>2. QED BY <2>1, <3>1
  <2>8. QED BY <2>5, <2>6, <2>7
<1>3. CASE ~Reboot /\ \A j \in Jobs : ~Launch(j)
  BY <1>2, <1>3 DEF Confined, Lives, Standing
<1>4. CASE Reboot
  BY <1>0, <1>4 DEF Reboot, Confined, Lives, LivesIn
<1>5. ASSUME NEW j \in Jobs, Launch(j) PROVE Confined'
  <2>1. PICK p \in Pids, pl \in Allocations(jobs, j) :
            /\ StartProcess(j, p, StartCpus(pl.cpu_list))
            /\ jobs' = Launched(jobs, j, pl, p)
    BY <1>5 DEF Launch
  <2>2. /\ \A i \in Jobs \ {j} : jobs'[i] = jobs[i]
        /\ jobs'[j].status = "running" /\ jobs'[j].session = p
        /\ jobs'[j].cpu_list = pl.cpu_list
    BY <1>0, <2>1 DEF Launched, JobLists, JobRecord
  <2>3. jobs[j].status = "pending" /\ pc = "launch" /\ pc' = "launch"
    BY <1>5 DEF Launch, Starts, FirstToLaunch, Passes, Pending, With
  <2>4. /\ \A q \in Pids \ {p} :
             os'[q] = os[q] \/ (Backend = "tmux" /\ q \in Target(j) /\ Hung(q))
        /\ Begun(p, j, StartCpus(pl.cpu_list)) \/ Rejected(p, j)
    BY <1>0, <2>1, LaunchMoves
  <2>5. StartCpus(pl.cpu_list) = ParseCpuList(pl.cpu_list)
    <3>1. Cardinality(ParseCpuList(pl.cpu_list)) = JobCores[j] /\ JobCores[j] >= 1
      BY PlacementsAreFree, QueueAssumption DEF Allocations, Binding
    <3>2. pl.cpu_list # {}
      BY <3>1, ParseOfEmpty, FS_EmptySet
    <3>3. QED BY <3>2 DEF StartCpus, Binding
  <2>6. Tracked'
    BY TrackedStep DEF Binding
  <2>7. ASSUME NEW q \in Pids, NEW k \in Jobs, LivesIn(os', q, k)
        PROVE  \E i \in Running(jobs') :
                 /\ jobs'[i].session = q
                 /\ os'[q].cpus \subseteq Held(jobs', i)
                 /\ Backend = "tmux" => i = k
    <3>1. CASE q = p
      <4>1. Begun(p, j, StartCpus(pl.cpu_list))
        BY <1>0, <2>4, <2>7, <3>1 DEF Rejected, LivesIn
      <4>2. k = j /\ os'[q].cpus = Held(jobs', j)
        BY <2>2, <2>5, <2>7, <3>1, <4>1 DEF Begun, LivesIn, Held
      <4>3. QED BY <2>2, <3>1, <4>2 DEF Running, With
    <3>2. CASE q # p
      <4>1. os[q].owner = k /\ os[q].state = "up" /\ os'[q].cpus = os[q].cpus
        BY <1>0, <2>4, <2>7, <3>2 DEF Hung, LivesIn, Tracked
      <4>2. PICK i \in Running(Standing) :
                 /\ i \in Jobs
                 /\ Standing[i].session = q
                 /\ os[q].cpus \subseteq Held(Standing, i)
                 /\ Backend = "tmux" => i = k
        BY <1>1, <4>1
      <4>3. i # j /\ Standing = jobs
        BY <2>3, <4>2 DEF Standing, Running, With
      <4>4. jobs'[i] = jobs[i]
        BY <2>2, <4>2, <4>3
      <4>5. QED BY <4>1, <4>2, <4>3, <4>4 DEF Running, With, Held
    <3>3. QED BY <3>1, <3>2
  <2>8. QED BY <2>3, <2>7 DEF Confined, Lives, Standing
<1>6. QED BY <1>3, <1>4, <1>5

(***************************************************************************)
(* With placements that bind, the processes of two jobs never run on a     *)
(* common core: the scheduler's separate allocations hold on the host.     *)
(***************************************************************************)
THEOREM HostKeepsCoresApart ==
    ASSUME Binding
    PROVE  Spec => []HostCoresApart
<1>1. Init => Flagged
  BY DEF Init, Flagged, Up
<1>2. TypeOK /\ Flagged /\ [Next]_vars => Flagged'
  BY FlaggedStep
<1>3. Init => Tracked /\ Confined
  BY RunnerAssumption
     DEF Init, RunnerInit, Tracked, Confined, NothingUntracked, Lives, LivesIn, NoProcess
<1>4. TypeOK /\ Passes /\ Flagged /\ Tracked /\ [Next]_vars => Tracked'
  BY TrackedStep DEF Binding
<1>5. TypeOK /\ Passes /\ Flagged /\ Tracked /\ Confined /\ [Next]_vars => Confined'
  BY ConfinedStep
<1>6. Confined /\ CoresApart => HostCoresApart
  <2> SUFFICES ASSUME Confined, CoresApart, NEW p \in Pids, NEW q \in Pids, p # q,
                      NEW j \in Jobs, NEW k \in Jobs, Lives(p, j), Lives(q, k)
               PROVE  os[p].cpus \cap os[q].cpus = {}
    BY DEF HostCoresApart, LiveJob
  <2>1. PICK i \in Running(Standing) :
            Standing[i].session = p /\ os[p].cpus \subseteq Held(Standing, i)
    BY DEF Confined
  <2>2. PICK h \in Running(Standing) :
            Standing[h].session = q /\ os[q].cpus \subseteq Held(Standing, h)
    BY DEF Confined
  <2>3. i \in Jobs /\ h \in Jobs /\ i # h
    BY <2>1, <2>2 DEF Running, With
  <2>4. Apart(Standing)
    BY DEF CoresApart, Standing
  <2>5. Held(Standing, i) \cap Held(Standing, h) = {}
    BY <2>3, <2>4 DEF Apart
  <2>6. QED BY <2>1, <2>2, <2>5
<1>7. QED
  BY <1>1, <1>2, <1>3, <1>4, <1>5, <1>6, TypeCorrect, PassesCorrect, CoresNeverShared, PTL
     DEF Spec

-----------------------------------------------------------------------------
(* Exit codes: a handle for every running job. *)

\* The set-up in which no job outlives its scheduler unseen: children of one
\* process that ends with its host, and no stranger under an id after that.
Attended ==
    /\ Backend = "subprocess"
    /\ "stop" \notin Events /\ "crash" \notin Events
    /\ "foreign" \notin Events \/ "reboot" \notin Events

\* The child of a running job is there, and its handle will give its exit code.
Known(j) ==
    LET p == jobs[j].session
    IN  /\ p \in handles
        /\ os[p].owner = j
        /\ \/ os[p].state = "up"
           \/ os[p].state = "zombie" /\ os[p].code = ended[j] /\ ended[j] # NoCode

Bare == \A p \in Pids : os[p].owner \notin Jobs /\ os[p].state # "up"

\* After a reboot nothing is left of the jobs that ran before.
Lost == "foreign" \notin Events /\ Bare

KnowsAll == Up => \A j \in Running(jobs) :
                     Known(j) \/ (pc = "reconcile" /\ j \in todo /\ Lost)

NoneWhenDown == ~Up => /\ handles = {}
                       /\ \A p \in Pids : os[p].owner \notin Jobs
                       /\ Running(file) = {} \/ Lost

OnlyRecorded ==
    \A p \in Pids : (os[p].state = "up" /\ os[p].owner \in Jobs) =>
        Up /\ jobs[os[p].owner].status = "running" /\ jobs[os[p].owner].session = p

DoneEndedZero ==
    \A j \in Jobs : "done" \in {jobs[j].status, file[j].status} => ended[j] = 0

Accounted == KnowsAll /\ NoneWhenDown /\ OnlyRecorded /\ DoneEndedZero

(***************************************************************************)
(* What the host does on its own keeps the account.                        *)
(***************************************************************************)
LEMMA AccountedHost ==
    ASSUME Attended, TypeOK, Agrees, Accounted, Host, UNCHANGED orchVars
    PROVE  Accounted'
<1>0. /\ RunnerTypeOK /\ os \in [Pids -> Process] /\ handles \subseteq Pids
      /\ ended \in [Jobs -> Codes]
      /\ NoProcess.owner \notin Jobs /\ NoProcess.state = "free"
      /\ pc' = pc /\ jobs' = jobs /\ file' = file /\ todo' = todo
  BY RunnerAssumption DEF TypeOK, RunnerTypeOK, NoProcess, orchVars
<1>1. handles' = handles
  BY <1>0, HostMoves
<1>2. CASE os' = os /\ ended' = ended
  BY <1>0, <1>1, <1>2
     DEF Accounted, KnowsAll, NoneWhenDown, OnlyRecorded, DoneEndedZero, Known, Lost, Bare, Up,
         Running, With
<1>3. ASSUME NEW p \in Pids, Others(p), NEW code \in ExitCodes \cup {137}, CommandEnded(p, code)
      PROVE  Accounted'
  <2> DEFINE k == os[p].owner
  <2>1. /\ k \in Jobs /\ os[p].state = "up"
        /\ ended'[k] = code /\ \A i \in Jobs \ {k} : ended'[i] = ended[i]
    BY <1>0, <1>3 DEF CommandEnded
  <2>2. Up /\ jobs[k].status = "running" /\ jobs[k].session = p
    BY <2>1 DEF Accounted, OnlyRecorded
  <2>3. ~Bare
    BY <2>1 DEF Bare
  <2>4. \A i \in Running(jobs) : Known(i)
    BY <2>2, <2>3 DEF Accounted, KnowsAll, Lost
  <2>5. p \in handles
    BY <2>1, <2>2, <2>4 DEF Known, Running, With
  <2>6. os'[p].owner = k /\ os'[p].state = "zombie" /\ os'[p].code = code /\ code # NoCode
    BY <1>3, <2>5, RunnerAssumption DEF CommandEnded, NoCode
  <2>7. ASSUME NEW i \in Running(jobs) PROVE Known(i)'
    <3>1. CASE i = k
      BY <1>0, <1>1, <2>1, <2>2, <2>5, <2>6, <3>1 DEF Known
    <3>2. CASE i # k
      <4>1. /\ Known(i) /\ i \in Jobs /\ jobs[i].session # p
        BY <2>4, <3>2 DEF Known, Running, With
      <4>2. ended'[i] = ended[i]
        BY <2>1, <3>2, <4>1
      <4>3. os'[jobs[i].session] = os[jobs[i].session]
        BY <1>0, <1>3, <4>1 DEF Known, Others
      <4>4. QED BY <1>0, <1>1, <4>1, <4>2, <4>3 DEF Known
    <3>3. QED BY <3>1, <3>2
  <2>8. KnowsAll'
    BY <1>0, <2>7 DEF KnowsAll, Running, With
  <2>9. NoneWhenDown'
    BY <1>0, <2>2 DEF NoneWhenDown, Up
  <2>10. OnlyRecorded'
    BY <1>0, <1>3, <2>6 DEF Accounted, OnlyRecorded, Others, Up
  <2>11. DoneEndedZero'
    <3>1. file[k].status # "done"
      BY <2>1, <2>2 DEF Agrees, Terminal
    <3>2. QED BY <1>0, <2>1, <2>2, <3>1 DEF Accounted, DoneEndedZero
  <2>12. QED BY <2>8, <2>9, <2>10, <2>11 DEF Accounted
<1>4. ASSUME NEW p \in Pids, Others(p), ended' = ended,
             KidsEnded(p) \/ Grown(p) \/ Drifted(p) \/ ForeignCame(p) \/ ForeignWent(p)
      PROVE  Accounted'
  <2>1. \/ /\ os'[p].owner = os[p].owner /\ os'[p].state = os[p].state
           /\ os'[p].code = os[p].code
        \/ /\ os[p].owner \notin Jobs \/ os[p].state = "free"
           /\ os'[p].owner \notin Jobs
           /\ os'[p].state # "up" \/ "foreign" \in Events
    BY <1>0, <1>4, RunnerAssumption
       DEF KidsEnded, Grown, Drifted, ForeignCame, ForeignWent, Keeps
  <2>2. \A i \in Jobs : Known(i) => Known(i)'
    BY <1>0, <1>1, <1>4, <2>1 DEF Known, Others
  <2>3. Lost => Lost'
    BY <1>4, <2>1 DEF Lost, Bare, Others
  <2>4. KnowsAll'
    BY <1>0, <2>2, <2>3 DEF Accounted, KnowsAll, Up, Running, With
  <2>5. NoneWhenDown'
    BY <1>0, <1>1, <1>4, <2>1, <2>3 DEF Accounted, NoneWhenDown, Up, Running, With, Others
  <2>6. OnlyRecorded'
    BY <1>0, <1>4, <2>1 DEF Accounted, OnlyRecorded, Others, Up
  <2>7. DoneEndedZero'
    BY <1>0, <1>4 DEF Accounted, DoneEndedZero
  <2>8. QED BY <2>4, <2>5, <2>6, <2>7 DEF Accounted
<1>5. QED BY <1>0, <1>2, <1>3, <1>4, HostMoves DEF HostMoved

(***************************************************************************)
(* A pass over the jobs keeps the account.                                 *)
(***************************************************************************)
LEMMA AccountedLoop ==
    ASSUME Attended, TypeOK, Passes, Agrees, Accounted, Loop
    PROVE  Accounted'
<1>0. /\ RunnerTypeOK /\ os \in [Pids -> Process] /\ handles \subseteq Pids
      /\ ended \in [Jobs -> Codes] /\ jobs \in JobLists /\ NoProcess.owner \notin Jobs
  BY RunnerAssumption DEF TypeOK, RunnerTypeOK, NoProcess
<1>1. CASE Reconciled \/ Tick \/ Reaped \/ SkipsDone \/ PinsDone \/ EndTick
  <2>1. /\ os' = os /\ handles' = handles /\ ended' = ended /\ jobs' = jobs
        /\ file' = jobs \/ file' = file
        /\ Up /\ Up' /\ pc' # "reconcile"
        /\ pc = "reconcile" => todo = {}
    BY <1>1 DEF Reconciled, Tick, Reaped, SkipsDone, PinsDone, EndTick, runnerVars, Up
  <2>2. \A j \in Running(jobs) : Known(j)
    BY <2>1 DEF Accounted, KnowsAll
  <2>3. KnowsAll'
    BY <2>1, <2>2 DEF KnowsAll, Known, Running, With
  <2>4. QED
    BY <2>1, <2>3 DEF Accounted, NoneWhenDown, OnlyRecorded, DoneEndedZero
<1>2. ASSUME NEW j \in Jobs, StillRuns(j) \/ Defer(j) PROVE Accounted'
  BY <1>2 DEF StillRuns, Defer, Visits, runnerVars, Accounted, KnowsAll, Known, NoneWhenDown,
     OnlyRecorded, DoneEndedZero, Up, Running, With
<1>3. ASSUME NEW j \in Jobs, Reconcile(j) PROVE Accounted'
  <2>1. /\ pc = "reconcile" /\ pc' = pc /\ Up /\ Up' /\ j \in todo /\ todo' = todo \ {j}
        /\ os' = os /\ handles' = handles /\ ended' = ended /\ file' = file
        /\ jobs[j].status = "running"
    BY <1>3 DEF Reconcile, Visits, FirstInFile, Passes, Running, With, runnerVars, Up
  <2>2. Bare => ~IsAlive(j, jobs[j].session) /\ ~ScopeActive(j)
    <3>1. jobs[j].session \in Pids \cup {NoSession}
      BY <1>0 DEF JobLists, JobRecord
    <3>2. \A k \in Jobs, p \in Pids : Bare => ~LivesIn(os, p, k)
      BY DEF Bare, LivesIn
    <3>3. QED BY <3>1, <3>2 DEF Bare, IsAlive, ScopeActive, ScopeIn, Attended
  <2>3. CASE jobs' = jobs /\ (IsAlive(j, jobs[j].session) \/ ScopeActive(j))
    <3>1. Known(j)
      BY <2>1, <2>2, <2>3 DEF Accounted, KnowsAll, Lost, Running, With
    <3>2. KnowsAll'
      BY <2>1, <2>3, <3>1 DEF Accounted, KnowsAll, Known, Lost, Bare, Running, With
    <3>3. QED BY <2>1, <2>3, <3>2 DEF Accounted, NoneWhenDown, OnlyRecorded, DoneEndedZero
  <2>4. CASE jobs' = Zombied(jobs, j) /\ ~IsAlive(j, jobs[j].session)
    <3>1. (\A i \in Jobs \ {j} : jobs'[i] = jobs[i]) /\ jobs'[j].status = "failed"
      BY <1>0, <2>4 DEF Zombied, JobLists, JobRecord
    <3>2. \A p \in Pids : ~(os[p].state = "up" /\ os[p].owner = j)
      BY <2>4, QueueAssumption DEF Accounted, OnlyRecorded, IsAlive, Attended
    <3>3. KnowsAll'
      BY <2>1, <3>1 DEF Accounted, KnowsAll, Known, Lost, Bare, Running, With
    <3>4. QED BY <2>1, <3>1, <3>2, <3>3 DEF Accounted, NoneWhenDown, OnlyRecorded, DoneEndedZero
  <2>5. QED BY <1>3, <2>3, <2>4 DEF Reconcile
<1>4. ASSUME NEW j \in Jobs, Reap(j) PROVE Accounted'
  <2> DEFINE p == jobs[j].session
  <2>1. /\ pc = "reap" /\ pc' = pc /\ Up /\ Up' /\ ended' = ended /\ file' = file
        /\ jobs[j].status = "running" /\ ~IsAlive(j, p)
        /\ jobs' = Settled(jobs, j, Outcome(Returncode(p), journal))
    BY <1>4 DEF Reap, Visits, FirstInFile, Passes, Running, With, Up
  <2>2. Known(j)
    BY <2>1 DEF Accounted, KnowsAll, Running, With
  <2>3. /\ p \in handles /\ p \in Pids /\ os[p].owner = j /\ os[p].state = "zombie"
        /\ Returncode(p) = ended[j] /\ ended[j] # NoCode
    BY <1>0, <2>1, <2>2, QueueAssumption DEF Known, IsAlive, Attended, Returncode
  <2>4. Outcome(Returncode(p), journal).status = "done" => ended[j] = 0
    BY <2>3 DEF Outcome
  <2>5. /\ \A i \in Jobs \ {j} : jobs'[i] = jobs[i]
        /\ jobs'[j].status # "running"
        /\ jobs'[j].status = "done" => ended[j] = 0
    <3>1. Outcome(Returncode(p), journal).status \in {"done", "failed"}
      BY OutcomeTyped DEF TypeOK, RunnerTypeOK
    <3>2. QED BY <1>0, <2>1, <2>4, <3>1 DEF Settled, JobLists, JobRecord
  <2>6. /\ handles' = handles \ {p} /\ \A q \in Pids \ {p} : os'[q] = os[q]
        /\ os'[p].state # "up"
    <3>1. Forget(p)
      BY <1>4 DEF Reap
    <3>2. /\ handles' = handles \ {p}
          /\ \A q \in Pids : \/ os'[q] = os[q] /\ (q = p => q \notin handles)
                             \/ q = p /\ q \in handles /\ Buried(os[q], os'[q])
      BY <1>0, <3>1, ForgetMoves
    <3>3. QED BY <2>3, <3>2 DEF Buried, NoProcess
  <2>7. ASSUME NEW i \in Running(jobs') PROVE Known(i)'
    <3>1. i \in Running(jobs) /\ i # j /\ i \in Jobs /\ jobs'[i] = jobs[i]
      BY <2>5 DEF Running, With
    <3>2. Known(i)
      BY <2>1, <3>1 DEF Accounted, KnowsAll
    <3>3. jobs[i].session # p
      BY <2>3, <3>1, <3>2 DEF Known
    <3>4. QED BY <1>0, <2>1, <2>6, <3>1, <3>2, <3>3 DEF Known
  <2>8. OnlyRecorded'
    BY <2>1, <2>3, <2>5, <2>6 DEF Accounted, OnlyRecorded
  <2>9. DoneEndedZero'
    BY <2>1, <2>5 DEF Accounted, DoneEndedZero
  <2>10. QED BY <2>1, <2>7, <2>8, <2>9 DEF Accounted, KnowsAll, NoneWhenDown
<1>5. ASSUME NEW j \in Jobs, NEW new, jobs[j].status = "pending", new # "running", new # "done",
             jobs'[j].status = new, \A i \in Jobs \ {j} : jobs'[i] = jobs[i],
             os' = os, handles' = handles, ended' = ended, file' = file, Up, Up',
             pc # "reconcile"
      PROVE  Accounted'
  BY <1>5 DEF Accounted, KnowsAll, Known, NoneWhenDown, OnlyRecorded, DoneEndedZero,
     Running, With
<1>6. ASSUME NEW j \in Jobs, Skip(j) PROVE Accounted'
  <2>1. /\ jobs'[j].status = "skipped" /\ \A i \in Jobs \ {j} : jobs'[i] = jobs[i]
        /\ jobs[j].status = "pending"
    BY <1>0, <1>6 DEF Skip, Skipped, Blocked, JobLists, JobRecord
  <2>2. QED BY <1>5, <1>6, <2>1 DEF Skip, runnerVars, Up
<1>7. ASSUME NEW j \in Jobs, LaunchFails(j) PROVE Accounted'
  <2>1. /\ jobs'[j].status = "failed" /\ \A i \in Jobs \ {j} : jobs'[i] = jobs[i]
    BY <1>0, <1>7 DEF LaunchFails, NotLaunched, JobLists, JobRecord
  <2>2. jobs[j].status = "pending" /\ pc = "launch"
    BY <1>7 DEF LaunchFails, Starts, FirstToLaunch, Passes, Pending, With
  <2>3. QED BY <1>5, <1>7, <2>1, <2>2 DEF LaunchFails, Starts, runnerVars, Up
<1>8. ASSUME NEW j \in Jobs, EnforcePin(j) PROVE Accounted'
  <2>1. \A q \in Pids : /\ os'[q].owner = os[q].owner /\ os'[q].state = os[q].state
                        /\ os'[q].code = os[q].code
    BY <1>0, <1>8, PinMoves DEF EnforcePin
  <2>2. /\ jobs' = jobs /\ file' = file /\ handles' = handles /\ ended' = ended /\ Up /\ Up'
        /\ pc # "reconcile"
    BY <1>8 DEF EnforcePin, Visits, Up
  <2>3. KnowsAll'
    BY <1>0, <2>1, <2>2 DEF Accounted, KnowsAll, Known, Running, With
  <2>4. QED BY <2>1, <2>2, <2>3 DEF Accounted, NoneWhenDown, OnlyRecorded, DoneEndedZero
<1>9. ASSUME NEW j \in Jobs, Launch(j) PROVE Accounted'
  <2>1. PICK p \in Pids, pl \in Allocations(jobs, j) :
            /\ StartProcess(j, p, StartCpus(pl.cpu_list))
            /\ jobs' = Launched(jobs, j, pl, p)
    BY <1>9 DEF Launch
  <2>2. /\ \A i \in Jobs \ {j} : jobs'[i] = jobs[i]
        /\ jobs'[j].status = "running" /\ jobs'[j].session = p
    BY <1>0, <2>1 DEF Launched, JobLists, JobRecord
  <2>3. /\ jobs[j].status = "pending" /\ pc = "launch" /\ Up /\ Up' /\ file' = file
    BY <1>9 DEF Launch, Starts, FirstToLaunch, Passes, Pending, With, Up
  <2>4. /\ os[p] = NoProcess /\ handles' = handles \cup {p}
        /\ \A q \in Pids \ {p} : os'[q] = os[q]
        /\ \A k \in Jobs \ {j} : ended'[k] = ended[k]
        /\ Begun(p, j, StartCpus(pl.cpu_list)) \/ Rejected(p, j)
    BY <1>0, <2>1, LaunchMoves DEF Attended
  <2>5. /\ os'[p].owner = j
        /\ \/ os'[p].state = "up"
           \/ os'[p].state = "zombie" /\ os'[p].code = ended'[j] /\ ended'[j] # NoCode
    BY <2>4 DEF Begun, Rejected, Attended, NoCode
  <2>6. ASSUME NEW i \in Running(jobs') PROVE Known(i)'
    <3>1. CASE i = j
      BY <2>2, <2>4, <2>5, <3>1 DEF Known
    <3>2. CASE i # j
      <4>1. i \in Running(jobs) /\ i \in Jobs /\ jobs'[i] = jobs[i]
        BY <2>2, <3>2 DEF Running, With
      <4>2. Known(i)
        BY <2>3, <4>1 DEF Accounted, KnowsAll
      <4>3. jobs[i].session # p
        BY <1>0, <2>4, <4>1, <4>2 DEF Known
      <4>4. QED BY <1>0, <2>4, <3>2, <4>1, <4>2, <4>3 DEF Known
    <3>3. QED BY <3>1, <3>2
  <2>7. OnlyRecorded'
    BY <1>0, <2>2, <2>3, <2>4, <2>5 DEF Accounted, OnlyRecorded
  <2>8. DoneEndedZero'
    <3>1. file[j].status # "done"
      BY <2>3 DEF Agrees, Terminal
    <3>2. QED BY <2>2, <2>3, <2>4, <3>1 DEF Accounted, DoneEndedZero
  <2>9. QED BY <2>3, <2>6, <2>7, <2>8 DEF Accounted, KnowsAll, NoneWhenDown
<1>10. QED BY <1>1, <1>2, <1>3, <1>4, <1>6, <1>7, <1>8, <1>9 DEF Loop

(***************************************************************************)
(* Every step keeps the account.                                           *)
(***************************************************************************)
LEMMA AccountedStep ==
    ASSUME Attended, TypeOK, Passes, Agrees, Accounted, [Next]_vars
    PROVE  Accounted'
<1> USE DEF Accounted, KnowsAll, NoneWhenDown, OnlyRecorded, DoneEndedZero, Known, Lost, Bare,
        Up, Running, With
<1>1. CASE Start
  <2>1. /\ pc = "down" /\ pc' = "reconcile" /\ jobs' = file /\ file' = file
        /\ todo' = Running(file) /\ os' = os /\ handles' = handles /\ ended' = ended
    BY <1>1 DEF Start, runnerVars
  <2>2. QED BY <2>1
<1>2. CASE Rerun
  <2>1. /\ pc \notin {"down", "reconcile"} /\ pc' = "reconcile" /\ jobs' = jobs /\ file' = file
        /\ os' = os /\ handles' = handles /\ ended' = ended
    BY <1>2 DEF Rerun, runnerVars
  <2>2. QED BY <2>1
<1>3. CASE Reboot
  <2>1. /\ pc' = "down" /\ jobs' = Yaml /\ file' = file /\ ended' = ended /\ handles' = {}
        /\ \A p \in Pids : os'[p] = NoProcess
        /\ "foreign" \notin Events
    BY <1>3 DEF Reboot, Attended
  <2>2. NoProcess.owner \notin Jobs /\ NoProcess.state = "free"
    BY RunnerAssumption DEF NoProcess
  <2>3. \A j \in Jobs : Yaml[j].status # "done"
    BY YamlStatus
  <2>4. QED BY <2>1, <2>2, <2>3
<1>4. CASE Stop \/ Crash
  BY <1>4 DEF Stop, Crash, Attended
<1>5. CASE World
  <2>1. CASE TimePasses \/ Pause
    BY <2>1 DEF TimePasses, Pause, runnerVars
  <2>2. ASSUME NEW j \in Jobs, Release(j) PROVE Accounted'
    <3>1. /\ pc = "down" /\ pc' = pc /\ jobs' = jobs /\ os' = os /\ handles' = handles
          /\ ended' = ended
          /\ file'[j].status = "pending" /\ \A i \in Jobs \ {j} : file'[i] = file[i]
      BY <2>2 DEF Release, runnerVars, TypeOK, JobLists, JobRecord
    <3>2. QED BY <3>1
  <2>3. QED BY <1>5, <2>1, <2>2, AccountedHost DEF World
<1>6. CASE UNCHANGED vars
  BY <1>6 DEF vars
<1>7. QED BY <1>1, <1>2, <1>3, <1>4, <1>5, <1>6, AccountedLoop DEF Next

(***************************************************************************)
(* What the whole account starts from.                                     *)
(***************************************************************************)
LEMMA AccountedInit ==
    ASSUME Init
    PROVE  Agrees /\ Accounted
<1>1. \A p \in Pids : os[p].owner \notin Jobs /\ os[p].state = "free"
  BY RunnerAssumption DEF Init, RunnerInit, NoProcess
<1>2. Running(file) = {} /\ \A j \in Jobs : jobs[j].status # "done" /\ file[j].status # "done"
  BY YamlStatus DEF Init, Running, With
<1>3. pc = "down" /\ handles = {}
  BY DEF Init, RunnerInit
<1>4. QED
  BY <1>1, <1>2, <1>3
     DEF Accounted, KnowsAll, NoneWhenDown, OnlyRecorded, DoneEndedZero, Agrees, Up

(***************************************************************************)
(* A job whose scheduler is its parent to the end is done only if its      *)
(* command ended with exit code 0 (runner.py's returncode,                 *)
(* orchestrator.py's _reap).                                               *)
(***************************************************************************)
THEOREM DoneOnlyWithExitZero ==
    ASSUME Attended
    PROVE  Spec => []DoneMeansExitZero
<1>1. Init => Agrees /\ Accounted
  BY AccountedInit
<1>2. TypeOK /\ Passes /\ Agrees /\ [Next]_vars => Agrees'
  BY AgreesStep
<1>3. TypeOK /\ Passes /\ Agrees /\ Accounted /\ [Next]_vars => Accounted'
  BY AccountedStep
<1>4. Accounted => DoneMeansExitZero
  BY DEF Accounted, DoneEndedZero, DoneMeansExitZero
<1>5. QED
  BY <1>1, <1>2, <1>3, <1>4, TypeCorrect, PassesCorrect, PTL DEF Spec

(***************************************************************************)
(* Whatever the scheduler does for one job, while its handles account for  *)
(* the running ones, leaves the processes of others alone.                 *)
(***************************************************************************)
LEMMA LeftAloneStep ==
    ASSUME Attended, TypeOK, Passes, Accounted, [Next]_vars, NEW j \in Jobs, NEW p \in Pids,
           pc \in {"pin", "launch"}, pc' = pc, j \in todo, j \notin todo',
           os[p].owner \in (Jobs \cup {Foreign}) \ {j}
    PROVE  os'[p] = os[p]
<1>1. RunnerTypeOK /\ os \in [Pids -> Process]
  BY DEF TypeOK, RunnerTypeOK
<1>2. ~Start /\ ~Rerun /\ ~Stop /\ ~Crash /\ ~Reboot
  BY DEF Start, Rerun, Stop, Crash, Reboot, Dies
<1>3. ~World /\ ~UNCHANGED vars
  BY DEF World, TimePasses, Pause, Release, orchVars, vars
<1>4. ~Reconciled /\ ~Tick /\ ~Reaped /\ ~SkipsDone /\ ~PinsDone /\ ~EndTick
  BY DEF Reconciled, Tick, Reaped, SkipsDone, PinsDone, EndTick
<1>5. PICK i \in Jobs : Defer(i) \/ LaunchFails(i) \/ EnforcePin(i) \/ Launch(i)
  <2>1. \A i \in Jobs : ~Reconcile(i) /\ ~Reap(i) /\ ~StillRuns(i) /\ ~Skip(i)
    BY DEF Reconcile, Reap, StillRuns, Skip, Visits
  <2>2. QED BY <1>2, <1>3, <1>4, <2>1 DEF Next, Loop
<1>6. i = j
  BY <1>5 DEF Defer, LaunchFails, EnforcePin, Launch, Starts, Visits
<1>7. CASE Defer(i) \/ LaunchFails(i)
  BY <1>7 DEF Defer, LaunchFails, runnerVars
<1>8. CASE EnforcePin(i)
  <2>1. pc = "pin" /\ j \in Running(jobs)
    BY <1>8 DEF EnforcePin, Visits, Passes
  <2>2. os[jobs[j].session].owner = j
    BY <2>1 DEF Accounted, KnowsAll, Known, Up
  <2>3. p \notin ProcessesOf(j, jobs[j].session)
    BY <2>2 DEF ProcessesOf, Attended
  <2>4. CASE Pin(j, jobs[j].session, ParseCpuList(jobs[j].cpu_list))
    BY <1>1, <2>3, <2>4 DEF Pin
  <2>5. QED BY <1>6, <1>8, <2>4 DEF EnforcePin
<1>9. CASE Launch(i)
  <2>1. PICK q, cpus : q \in Pids /\ StartProcess(j, q, cpus)
    BY <1>6, <1>9 DEF Launch
  <2>2. os[q] = NoProcess /\ \A r \in Pids \ {q} : os'[r] = os[r]
    BY <1>1, <2>1, LaunchMoves DEF Attended
  <2>3. p # q
    BY <2>2, RunnerAssumption DEF NoProcess
  <2>4. QED BY <2>2, <2>3
<1>10. QED BY <1>5, <1>7, <1>8, <1>9

(***************************************************************************)
(* While every job is a child of its scheduler to the end, the retained    *)
(* handle keeps the id of an ended job from being given away before the    *)
(* list drops it (_procs, runner.py:96): neither enforce_pin nor a launch  *)
(* touches a process of another job or of a stranger, however often ids    *)
(* are used again.                                                         *)
(***************************************************************************)
THEOREM HandlesKeepIdsApart ==
    ASSUME Attended
    PROVE  Spec => OthersLeftAlone
<1>1. Init => Agrees /\ Accounted
  BY AccountedInit
<1>2. TypeOK /\ Passes /\ Agrees /\ [Next]_vars => Agrees'
  BY AgreesStep
<1>3. TypeOK /\ Passes /\ Agrees /\ Accounted /\ [Next]_vars => Accounted'
  BY AccountedStep
<1>4. TypeOK /\ Passes /\ Accounted /\ [Next]_vars =>
        [\A j \in Jobs, p \in Pids :
           (/\ pc \in {"pin", "launch"} /\ pc' = pc
            /\ j \in todo /\ j \notin todo'
            /\ os[p].owner \in (Jobs \cup {Foreign}) \ {j}) => os'[p] = os[p]]_vars
  BY LeftAloneStep
<1>5. QED
  BY <1>1, <1>2, <1>3, <1>4, TypeCorrect, PassesCorrect, PTL DEF Spec, OthersLeftAlone
=============================================================================
