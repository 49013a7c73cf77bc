------------------------------ MODULE Topology ------------------------------
(***************************************************************************)
(* Topology discovery of numa.py from what sysfs shows, and the choice     *)
(* between it and a configured map.  What a file holds that is missing or  *)
(* cannot be read is modelled as empty.                                    *)
(***************************************************************************)
EXTENDS CpuList

CONSTANTS
    Configured,     \* Config.numa_nodes, [nodes -> CPU list], empty to discover
    SysNodes,       \* node<i>/cpulist, [nodes -> CPU list]
    SysSiblings,    \* cpu<i>/topology/thread_siblings_list, [CPUs -> CPU list]
    Affinity        \* sched_getaffinity of the scheduler

\* The threads of each physical core the kernel lists.
SiblingGroups == {ParseCpuList(SysSiblings[cpu]) : cpu \in DOMAIN SysSiblings} \ {{}}

\* The kernel shows every thread of a core the same group.
ASSUME TopologyAssumption ==
    /\ \A node \in DOMAIN Configured : Configured[node] \in CpuLists
    /\ \A node \in DOMAIN SysNodes : SysNodes[node] \in CpuLists
    /\ \A cpu \in DOMAIN SysSiblings : SysSiblings[cpu] \in CpuLists
    /\ \A g, h \in SiblingGroups : g = h \/ g \cap h = {}
    /\ Affinity \subseteq Nat

\* detect: the nodes with CPUs, or one node of all the CPUs there are.
Detect ==
    LET known == {node \in DOMAIN SysNodes : SysNodes[node] # {}}
    IN  IF known # {} THEN [node \in known |-> SysNodes[node]]
        ELSE [node \in {0} |-> FormatCpuList(Affinity)]

\* Config.numa_nodes_resolved
NumaNodesResolved == IF DOMAIN Configured # {} THEN Configured ELSE Detect

\* The primary of a group is its lowest id.
Primary(group) == CHOOSE cpu \in group : \A other \in group : cpu <= other

\* Mutant: the odd ids are taken for the siblings.
OddSecondary == {cpu \in DOMAIN SysSiblings : cpu % 2 = 1}

\* detect_smt_secondary.  Each group is met once for every thread; as the
\* groups are the same or disjoint, the order of the directory does not matter
\* and passing over a group seen before only saves work.
DetectSmtSecondary == UNION {group \ {Primary(group)} : group \in SiblingGroups}
=============================================================================
