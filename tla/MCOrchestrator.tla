--------------------------- MODULE MCOrchestrator ---------------------------
(* Small queues and hosts for Orchestrator. *)
EXTENDS Orchestrator, TLC

\* Two sockets of two cores.
TwoSockets     == {0, 1}
TwoSocketCpus  == [node \in TwoSockets |-> {2 * node, 2 * node + 1}]

\* One socket.
OneSocket      == {0}
OneSocketCpus  == [node \in OneSocket |-> 0 .. 1]
NoSmt          == {}
AllCpus        == UNION {NodeCpus[node] : node \in NumaNodes}

\* A pipeline and a job of its own: b needs a, c has two cores; both are urgent.
AB           == {"a", "b"}
ABC          == {"a", "b", "c"}
Rank         == [j \in Jobs |-> CASE j = "a" -> 1 [] j = "b" -> 2 [] j = "c" -> 3 [] OTHER -> 4]
FileOrder    == [j \in Jobs |-> CASE j = "b" -> 1 [] j = "a" -> 2 [] j = "c" -> 3 [] OTHER -> 4]
Prio         == [j \in Jobs |-> IF j \in {"b", "c"} THEN 50 ELSE 100]
OneEach      == [j \in Jobs |-> 1]
OneOrTwo     == [j \in Jobs |-> IF j = "c" THEN 2 ELSE 1]
Ram          == [j \in Jobs |-> 4]
Pipeline     == [j \in Jobs |-> IF j = "b" THEN {"a"} ELSE {}]
OnlyA        == {"a"}
OnlyB        == {"b"}
OnlyC        == {"c"}
OnlyH        == {"h"}
Empty        == {}
Units        == [j \in Jobs |-> j]

\* Process ids and session names are only ever compared for equality.
SamePids     == Permutations(Pids)

\* All but the history of exit codes, which no step reads.
NoHistory    == <<orchVars, os, handles, journal>>

\* What tmux and pgrep -f find under a job's name: its own, or b's under a's too,
\* as with the ids a and ab.
NoLonger     == [j \in Jobs |-> {}]
BBeginsLikeA == [j \in Jobs |-> IF j = "a" THEN {"b"} ELSE {}]
OwnId        == [j \in Jobs |-> {j}]

AInB         == [j \in Jobs |-> IF j = "a" THEN {"a", "b"} ELSE {"b"}]

\* Independent jobs, a fan-in, and a chain.
Free3        == [j \in Jobs |-> {}]
FanIn        == [j \in Jobs |-> IF j = "c" THEN {"a", "b"} ELSE {}]
Chain        == [j \in Jobs |-> CASE j = "b" -> {"a"} [] j = "c" -> {"b"} [] OTHER -> {}]

\* Two sockets of three cores, and four jobs for which each limit of ticks binds
\* alone: c and d have the memory but not the cores, c and a the cores but not
\* the memory, and a, b and d both but for the cap.
ThreeCoreCpus == [node \in TwoSockets |-> 3 * node .. 3 * node + 2]
ABCD         == {"a", "b", "c", "d"}
WideCAndD    == [j \in Jobs |-> CASE j = "c" -> 3 [] j = "d" -> 2 [] OTHER -> 1]
MostToC      == [j \in Jobs |-> CASE j = "c" -> 5 [] j = "d" -> 1 [] OTHER -> 2]

\* b fails or not; a needs b, c needs b and never fits its host, f needs a and
\* e, which is dormant; g needs an unknown id; h need not end.
Odd          == {"a", "b", "c", "e", "f", "g", "h"}
OddDeps      == [j \in Jobs |-> CASE j \in {"a", "c"} -> {"b"} [] j = "f" -> {"a", "e"}
                                [] j = "g" -> {"nowhere"} [] OTHER -> {}]
OddCores     == [j \in Jobs |-> IF j = "c" THEN 3 ELSE 1]
OddRank      == [j \in Jobs |-> CASE j = "a" -> 1 [] j = "b" -> 2 [] j = "c" -> 3 [] j = "e" -> 4
                                [] j = "f" -> 5 [] j = "g" -> 6 [] OTHER -> 7]
OddFile      == [j \in Jobs |-> 8 - OddRank[j]]
OnlyE        == {"e"}

\* Readings of the host's memory: none, or free memory that c does not fit.
NoMeter      == [used |-> NoReading, cap |-> NoReading, free |-> NoReading]
Ample        == {NoMeter}
Tight        == {NoMeter, [NoMeter EXCEPT !.free = 4]}
=============================================================================
