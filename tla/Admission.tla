----------------------------- MODULE Admission -----------------------------
(***************************************************************************)
(* admission.py: may a pending job start now, given the job list and what  *)
(* the host's memory accounting reads.  The maxcore rule only words the    *)
(* reason of a positive decision, so it is not here.                       *)
(***************************************************************************)
EXTENDS Queue, FiniteSetsExt

CONSTANTS
    MaxConcurrent,  \* max_concurrent
    CoreBudget,     \* core_budget
    RamBudget,      \* ram_budget_gb
    RamSafety,      \* ram_safety_gb
    Meters          \* the readings [used, cap, free] the host can give

ASSUME AdmissionAssumption ==
    /\ MaxConcurrent \in Int
    /\ CoreBudget \in Int
    /\ RamBudget \in Int
    /\ RamSafety \in Int
    /\ Meters \subseteq [used: Int, cap: Int, free: Int]

RunningCores(list) == MapThenSumSet(LAMBDA j : JobCores[j], Running(list))
RunningRam(list)   == MapThenSumSet(LAMBDA j : JobRam[j], Running(list))

\* Mutant: an exclusive job only keeps later ones out.
ExclusiveOneWay(list, job) == Running(list) \cap Exclusive = {}

\* Exclusive mutex, both directions.
ExclusiveFree(list, job) ==
    /\ Running(list) \cap Exclusive = {}
    /\ job \in Exclusive => Running(list) = {}

\* Mutant: the cap is compared after the fact.
UnderCapLate(list) == Cardinality(Running(list)) <= MaxConcurrent

UnderCap(list) == Cardinality(Running(list)) < MaxConcurrent

CoresFit(list, job) == RunningCores(list) + JobCores[job] <= CoreBudget

\* Mutant: the job's own request is not counted.
RamFitsBefore(list, job, meter) ==
    IF meter.used # NoReading
    THEN LET cap == IF meter.cap = NoReading THEN RamBudget ELSE meter.cap
         IN  meter.used <= cap - RamSafety
    ELSE /\ RunningRam(list) <= RamBudget
         /\ meter.free # NoReading => meter.free >= JobRam[job] + RamSafety

\* Mutant: the slice's accounting is not read.
RamFitsDeclared(list, job, meter) == RunningRam(list) + JobRam[job] <= RamBudget

\* _check_ram: the slice's accounting when it reads, declared RAM and the
\* host's free memory when it does not.
RamFits(list, job, meter) ==
    IF meter.used # NoReading
    THEN LET cap == IF meter.cap = NoReading THEN RamBudget ELSE meter.cap
         IN  meter.used + JobRam[job] <= cap - RamSafety
    ELSE /\ RunningRam(list) + JobRam[job] <= RamBudget
         /\ meter.free # NoReading => meter.free >= JobRam[job] + RamSafety

\* can_launch, with the time left of the OOM cooldown.
CanLaunch(list, job, paused, cooldown, meter) ==
    /\ ~paused
    /\ cooldown = 0
    /\ ExclusiveFree(list, job)
    /\ UnderCap(list)
    /\ CoresFit(list, job)
    /\ RamFits(list, job, meter)
=============================================================================
