------------------------------ MODULE NumaPool ------------------------------
(***************************************************************************)
(* The allocator in use: slots take a placement (Orchestrator._launch) and *)
(* give it back (a job that is reaped), so the free cores of the nodes are *)
(* any set that a history of launches and exits leaves behind.  The nodes  *)
(* and the siblings are those that discovery finds, and a job that is      *)
(* given a block may lay MPI ranks on it.                                  *)
(***************************************************************************)
EXTENDS Numa, Topology, MpiPlan

CONSTANTS
    Slots,          \* bound: placements held at the same time
    Requests,       \* [n, ram] requests
    Reserved,       \* reserved_cores
    Threshold,      \* interleave_threshold_gb
    Gate,           \* node_ram_cap_gb, node_ram_safety_gb
    Readings        \* node_memory_gb readings [NumaNodes -> Int]

\* Config.numa_nodes_resolved and detect_smt_secondary are what the callers of
\* allocate pass to it.
ASSUME NumaPoolAssumption ==
    /\ NumaNodes = DOMAIN NumaNodesResolved
    /\ NodeCpus = [node \in NumaNodes |-> ParseCpuList(NumaNodesResolved[node])]
    /\ SmtSecondary = DetectSmtSecondary
    /\ Requests \subseteq [n: Int, ram: Int]
    /\ Reserved \subseteq Nat
    /\ Gate \in [cap: Int, safety: Int]
    /\ Readings \subseteq [NumaNodes -> Int]

VARIABLES
    held,           \* the placement of each slot, None when it holds none
    call            \* the last call of allocate, its environment and result

vars == <<held, call>>

None == [cpu_list |-> {}, node |-> -1]

Occupied == Reserved \cup UNION {ParseCpuList(held[s].cpu_list) : s \in Slots}

NoCall == [n |-> 0, ram |-> 0, occupied |-> {}, anon |-> Unread, result |-> {}]

Init ==
    /\ held = [s \in Slots |-> None]
    /\ call = NoCall

\* allocate with everything its interface takes.  _launch passes it no memory
\* gate; a pool without one is the case in which every reading is Unread.
Allocate(req, anon) ==
    Placements(req.n, Occupied, req.ram, Threshold, Gate, anon)

Call(req, anon) ==
    call' = [n |-> req.n, ram |-> req.ram, occupied |-> Occupied,
             anon |-> anon, result |-> Allocate(req, anon)]

Place(s, req, anon) ==
    /\ held[s] = None
    /\ Call(req, anon)
    /\ \E pl \in Allocate(req, anon) :
         held' = [held EXCEPT ![s] = [cpu_list |-> pl.cpu_list, node |-> pl.node]]

Defer(s, req, anon) ==
    /\ held[s] = None
    /\ Call(req, anon)
    /\ Allocate(req, anon) = {}
    /\ UNCHANGED held

Release(s) ==
    /\ held[s] # None
    /\ held' = [held EXCEPT ![s] = None]
    /\ call' = NoCall

Next ==
    \E s \in Slots :
        \/ \E req \in Requests, anon \in Readings :
              Place(s, req, anon) \/ Defer(s, req, anon)
        \/ Release(s)

Spec == Init /\ [][Next]_vars

-----------------------------------------------------------------------------
RoomOn(node) == NodeCpus[node] \ call.occupied

\* The last call was not subject to the memory gate.
Ungated == Gate.cap <= 0 \/ WillInterleave(call.ram, Threshold)

\* The cores a slot holds are on its node, and neither another slot nor the
\* operator's reservation has any of them, whatever came and went before
\* (allocate with the occupied set of Orchestrator._occupied_cores).
HeldApart ==
    \A s \in Slots : LET mine == ParseCpuList(held[s].cpu_list) IN
        /\ mine # {} => mine \subseteq NodeCpus[held[s].node] \ Reserved
        /\ \A t \in Slots \ {s} : mine \cap ParseCpuList(held[t].cpu_list) = {}

\* A placement has exactly the number of cores asked for, also on a
\* fragmented node and also through the CPU-list string and back.
ExactSize ==
    \A pl \in call.result :
        Cardinality(ParseCpuList(pl.cpu_list)) = IF call.n < 0 THEN 0 ELSE call.n

\* allocate answers None only when no node has room: fewer free cores than
\* asked for, or a memory reading over the gate's safe cap for a job that
\* will not interleave.
RefusesOnlyWhenFull ==
    (call # NoCall /\ call.result = {}) =>
        \A node \in NumaNodes :
            \/ Cardinality(RoomOn(node)) < call.n
            \/ /\ ~Ungated
               /\ call.anon[node] + call.ram > Gate.cap - Gate.safety

\* A placement takes an SMT sibling only when it takes every free primary
\* of its node too.
SiblingsLast ==
    \A pl \in call.result :
        Siblings(ParseCpuList(pl.cpu_list)) # {} =>
            Primaries(RoomOn(pl.node)) \subseteq ParseCpuList(pl.cpu_list)

\* A placement has two threads of one physical core only when it also has a
\* thread of every core of its node that has its primary free: "a job gets
\* distinct physical cores until it genuinely needs more" (numa.py:156).
DistinctCoresFirst ==
    \A pl \in call.result :
        LET mine == ParseCpuList(pl.cpu_list)
        IN  (\E group \in SiblingGroups : Cardinality(group \cap mine) > 1) =>
                \A group \in SiblingGroups :
                    Primary(group) \in RoomOn(pl.node) => group \cap mine # {}

\* A scattered placement is made only when no node could have given a run of
\* n free primaries (without a memory gate in the way).
ScatteredOnlyWhenFragmented ==
    \A pl \in call.result :
        (~pl.contiguous /\ Ungated) =>
            \A node \in NumaNodes : RunStarts(Primaries(RoomOn(node)), call.n) = {}

\* Among contiguous placements on equally loaded memory the node with the
\* most free cores is taken: jobs spread over the sockets.
SpreadsOverNodes ==
    \A pl \in call.result :
        (pl.contiguous /\ call.n > 0 /\ Ungated) =>
            \A node \in NumaNodes :
                RunStarts(Primaries(RoomOn(node)), call.n) # {} =>
                    Cardinality(RoomOn(node)) <= Cardinality(RoomOn(pl.node))

\* The slots of a rankfile for the block a slot holds name every core of it, and
\* no two ranks the same: "partitioned evenly and contiguously", "no core is
\* wasted" (mpi.py:76, 83), for every number of ranks the block has cores for.
RanksPartitionBlock ==
    \A s \in Slots :
        LET block == ParseCpuList(held[s].cpu_list)
        IN  \A nprocs \in 1 .. Cardinality(block) :
              \E plan \in RankBindingPlan(held[s].cpu_list, nprocs, NoThreads) :
                LET slots == OpenmpiRankfile(plan)
                IN  /\ DOMAIN slots = 0 .. nprocs - 1
                    /\ UNION {ParseCpuList(slots[r]) : r \in DOMAIN slots} = block
                    /\ \A q, r \in DOMAIN slots :
                         q # r => ParseCpuList(slots[q]) \cap ParseCpuList(slots[r]) = {}

\* With any number of threads up to the stride no two ranks of any plan share a
\* core (mpi.py:96: only larger ones may overlap).
RanksApartUpToStride ==
    \A s \in Slots :
        LET block == ParseCpuList(held[s].cpu_list)
        IN  \A nprocs \in 1 .. Cardinality(block) :
            \A threads \in {NoThreads} \cup 0 .. Stride(block, nprocs) :
            \A plan \in RankBindingPlan(held[s].cpu_list, nprocs, threads) :
            \A q, r \in DOMAIN plan : q # r => plan[q] \cap plan[r] = {}
=============================================================================
