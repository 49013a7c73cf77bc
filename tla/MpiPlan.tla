------------------------------ MODULE MpiPlan ------------------------------
(***************************************************************************)
(* mpi.py: which cores of a job's block each MPI rank is bound to.  The    *)
(* scheduler does not call it; users do, with the CPU list a job was       *)
(* given.  A plan is a function from ranks to sets of cores.  The fixed    *)
(* flags and environments for Open MPI and OpenMP are left out.            *)
(***************************************************************************)
EXTENDS CpuList

\* threads_per_rank = None.  No plan is asked for with a number below 0, which
\* the code would treat as 1.
NoThreads == -1

\* sorted(S)[lo:hi]
Slice(S, lo, hi) == FirstN(S, hi) \ FirstN(S, lo)

Stride(cores, nprocs) == Cardinality(cores) \div nprocs

\* The cores meant for one rank, at least one (so is the stride of a plan).
Width(stride, threads) ==
    IF threads = NoThreads THEN stride ELSE IF threads < 1 THEN 1 ELSE threads

\* Mutant: what does not divide evenly is left over.
RankCoresEven(cores, nprocs, threads, rank) ==
    LET stride == Stride(cores, nprocs)
    IN  Slice(cores, rank * stride, rank * stride + Width(stride, threads))

\* Mutant: the end of the slice is included.
RankCoresInclusive(cores, nprocs, threads, rank) ==
    LET stride == Stride(cores, nprocs)
    IN  Slice(cores, rank * stride, rank * stride + Width(stride, threads) + 1)

\* The chunk of one rank; the last one takes what is left.
RankCores(cores, nprocs, threads, rank) ==
    LET stride == Stride(cores, nprocs)
        start  == rank * stride
    IN  Slice(cores, start,
              IF rank = nprocs - 1 THEN Cardinality(cores)
              ELSE start + Width(stride, threads))

\* rank_binding_plan: the one plan, or none where it raises ValueError.
RankBindingPlan(cpu_list, nprocs, threads) ==
    LET cores == ParseCpuList(cpu_list)
    IN  IF nprocs < 1 \/ Cardinality(cores) < nprocs THEN {}
        ELSE {[rank \in 0 .. nprocs - 1 |-> RankCores(cores, nprocs, threads, rank)]}

\* openmpi_rankfile: the slot list of each rank that has cores.
OpenmpiRankfile(plan) ==
    [rank \in {r \in DOMAIN plan : plan[r] # {}} |-> FormatCpuList(plan[rank])]
=============================================================================
