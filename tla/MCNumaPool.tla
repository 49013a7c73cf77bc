----------------------------- MODULE MCNumaPool -----------------------------
(* Small hosts for NumaPool. *)
EXTENDS NumaPool

\* Two sockets as sysfs shows them: three physical cores with adjacent
\* siblings, two with far ones, and a node of memory without CPUs.
NothingSet     == [node \in {} |-> {}]
SysTwoNodes    == [node \in 0 .. 2 |-> CASE node = 0 -> {<<0, 5>>}
                                      [] node = 1 -> {<<6, 7>>, <<8, 9>>}
                                      [] OTHER -> {}]
SysTwoThreads  == [cpu \in 0 .. 9 |->
                     IF cpu < 6 THEN {<<cpu - (cpu % 2), cpu + 1 - (cpu % 2)>>}
                     ELSE LET low == 6 + (cpu % 2) IN {<<low, low>>, <<low + 2, low + 2>>}]
AllCpus        == 0 .. 9
FoundNodes     == DOMAIN NumaNodesResolved
FoundCpus      == [node \in FoundNodes |-> ParseCpuList(NumaNodesResolved[node])]

ReserveOne    == {9}

\* Requests of every size that interleave, and one that the gate looks at.
MixedSizes    == {[n |-> n, ram |-> 9] : n \in 0 .. 5} \cup {[n |-> 2, ram |-> 6]}
GateAtTen     == [cap |-> 10, safety |-> 1]
NoFile         == [readable |-> FALSE]
Anon(gb)       == [readable |-> TRUE, active_anon |-> gb - 1, inactive_anon |-> 1]
MemReadings    ==
    {[node \in NumaNodes |-> NodeMemoryGb(file[node])] :
        file \in {[node \in NumaNodes |-> NoFile], [node \in NumaNodes |-> Anon(4)],
                  [node \in NumaNodes |-> IF node = 0 THEN Anon(4) ELSE NoFile]}}
=============================================================================
