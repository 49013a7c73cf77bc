------------------------------ MODULE CpuList ------------------------------
(***************************************************************************)
(* CPU lists of numa.py ("0-3,8,12-13").  A list is the set of its parts,  *)
(* each the pair of its bounds; a singleton "8" is <<8, 8>>.  The order    *)
(* and the repetition of parts do not matter to the parser, so they are    *)
(* left out.                                                               *)
(***************************************************************************)
EXTENDS Integers, FiniteSets

\* Lists of non-negative ids (parse_cpu_list refuses inverted parts, which the
\* formatter never writes).
CpuLists == SUBSET (Nat \X Nat)

\* parse_cpu_list of a list that is not malformed.
ParseCpuList(spec) == UNION {part[1] .. part[2] : part \in spec}

\* A maximal run of consecutive ids of S.
IsRun(S, run) ==
    /\ run[1] .. run[2] \subseteq S
    /\ run[1] <= run[2]
    /\ run[1] - 1 \notin S
    /\ run[2] + 1 \notin S

\* format_cpu_list: consecutive ids collapse to one part.
FormatCpuList(cores) == {run \in cores \X cores : IsRun(cores, run)}

\* The n smallest elements of S: a slice [:n] of a sorted list.
FirstN(S, n) == {c \in S : Cardinality({d \in S : d < c}) < n}
=============================================================================
