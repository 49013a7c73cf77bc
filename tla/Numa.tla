-------------------------------- MODULE Numa --------------------------------
(***************************************************************************)
(* The allocator of numa.py: which cores of which node a job gets.         *)
(* Placements is a set with the one placement allocate returns, or empty   *)
(* where it returns None.                                                  *)
(***************************************************************************)
EXTENDS CpuList

CONSTANTS
    NumaNodes,      \* node indices
    FirstNode,      \* the first key of the numa_nodes mapping
    NodeCpus,       \* [NumaNodes -> set of logical CPUs of the node]
    SmtSecondary    \* CPUs detect_smt_secondary reports

ASSUME NumaAssumption ==
    /\ NumaNodes \subseteq Nat
    /\ IsFiniteSet(NumaNodes)
    /\ FirstNode \in Nat
    /\ NodeCpus \in [NumaNodes -> SUBSET Nat]
    /\ \A node \in NumaNodes : IsFiniteSet(NodeCpus[node])
    /\ SmtSecondary \subseteq Nat

NoReading == -1                                \* None of node_memory_gb

\* node_memory_gb as allocate uses it: the anonymous pages, not the page cache.
NodeMemoryGb(meminfo) ==
    IF meminfo.readable THEN meminfo.active_anon + meminfo.inactive_anon ELSE NoReading

NoGate == [cap |-> 0, safety |-> 0]            \* the defaults of allocate
Unread == [node \in NumaNodes |-> NoReading]

Primaries(S) == S \ SmtSecondary
Siblings(S)  == S \cap SmtSecondary

\* Where a run of n consecutive ids of S can start.
RunStarts(S, n) == {c \in S : c .. (c + n - 1) \subseteq S}

\* _largest_contiguous_run: the first start, whatever longer run follows.
IsFirstRun(S, n, start) ==
    /\ start \in RunStarts(S, n)
    /\ \A other \in RunStarts(S, n) : start <= other

\* Mutant: SMT siblings are drawn like any other core.
ChosenAny(free, n) ==
    {<<FirstN(free, n), FALSE>>}

\* Mutant: when no run is long enough the job gets every free primary.
ChosenWhole(free, n) ==
    LET primaries == Primaries(free)
    IN  IF Cardinality(primaries) < n
        THEN {<<primaries \cup FirstN(Siblings(free), n - Cardinality(primaries)),
                FALSE>>}
        ELSE IF RunStarts(primaries, n) = {} THEN {<<primaries, FALSE>>}
        ELSE {<<start .. (start + n - 1), TRUE>> :
                start \in {s \in primaries : IsFirstRun(primaries, n, s)}}

\* The cores taken on a node with at least n free, and whether they are one
\* run: primaries first, siblings only for what the free primaries lack.
Chosen(free, n) ==
    LET primaries == Primaries(free)
    IN  IF Cardinality(primaries) < n
        THEN {<<primaries \cup FirstN(Siblings(free), n - Cardinality(primaries)),
                FALSE>>}
        ELSE IF RunStarts(primaries, n) = {} THEN {<<FirstN(primaries, n), FALSE>>}
        ELSE {<<start .. (start + n - 1), TRUE>> :
                start \in {s \in primaries : IsFirstRun(primaries, n, s)}}

WillInterleave(ram, threshold) == threshold > 0 /\ ram >= threshold

\* The anonymous memory a gated node is taken to use (0 if unreadable).
UsedGb(node, gated, anon) == IF gated /\ anon[node] # NoReading THEN anon[node] ELSE 0

\* Mutant: a node whose memory cannot be read is skipped.
NodeAdmitsReadable(node, ram, gate, gated, anon) ==
    gated => /\ anon[node] # NoReading
             /\ anon[node] + ram <= gate.cap - gate.safety

NodeAdmits(node, ram, gate, gated, anon) ==
    gated /\ anon[node] # NoReading => anon[node] + ram <= gate.cap - gate.safety

\* Mutant: occupied cores are not subtracted.
FreeAll(node, occupied) == NodeCpus[node]

Free(node, occupied) == NodeCpus[node] \ occupied

\* One candidate per node that has room.
Candidates(n, occupied, ram, threshold, gate, anon) ==
    LET gated == gate.cap > 0 /\ ~WillInterleave(ram, threshold)
    IN  UNION {{[cores |-> pick[1], node |-> node, contiguous |-> pick[2],
                 nfree |-> Cardinality(Free(node, occupied)),
                 used  |-> UsedGb(node, gated, anon),
                 smt_oversubscribed |-> Cardinality(Primaries(Free(node, occupied))) < n] :
                   pick \in Chosen(Free(node, occupied), n)} :
                 node \in {nd \in NumaNodes :
                              /\ Cardinality(Free(nd, occupied)) >= n
                              /\ NodeAdmits(nd, ram, gate, gated, anon)}}

\* Mutant: contiguity does not count.
RanksByRoom(a, b) ==
    \/ a.nfree > b.nfree
    \/ a.nfree = b.nfree /\ a.node <= b.node

\* Mutant: the node with the fewest free cores first (best fit).
RanksBestFit(a, b) ==
    \/ a.contiguous /\ ~b.contiguous
    \/ /\ a.contiguous = b.contiguous
       /\ \/ a.nfree < b.nfree
          \/ a.nfree = b.nfree /\ a.used < b.used
          \/ a.nfree = b.nfree /\ a.used = b.used /\ a.node <= b.node

\* The sort key (not contiguous, -free, used_gb, node): a sorts no later than b.
Ranks(a, b) ==
    \/ a.contiguous /\ ~b.contiguous
    \/ /\ a.contiguous = b.contiguous
       /\ \/ a.nfree > b.nfree
          \/ a.nfree = b.nfree /\ a.used < b.used
          \/ a.nfree = b.nfree /\ a.used = b.used /\ a.node <= b.node

\* allocate.  A request for no cores is placed on the first node, unpinned.
Placements(n, occupied, ram, threshold, gate, anon) ==
    IF n <= 0
    THEN {[cpu_list |-> {}, node |-> FirstNode, interleave |-> FALSE,
           contiguous |-> TRUE, smt_oversubscribed |-> FALSE]}
    ELSE LET candidates == Candidates(n, occupied, ram, threshold, gate, anon)
         IN  {[cpu_list |-> FormatCpuList(best.cores), node |-> best.node,
               interleave |-> WillInterleave(ram, threshold),
               contiguous |-> best.contiguous,
               smt_oversubscribed |-> best.smt_oversubscribed] :
                best \in {c \in candidates : \A other \in candidates : Ranks(c, other)}}
=============================================================================
