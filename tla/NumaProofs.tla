----------------------------- MODULE NumaProofs -----------------------------
(***************************************************************************)
(* What allocate returns, for every topology, occupation and request.      *)
(***************************************************************************)
EXTENDS Numa, CpuListProofs

(***************************************************************************)
(* Whatever the way they are chosen in, the chosen cores are free ones.    *)
(***************************************************************************)
LEMMA ChosenAreFree ==
    ASSUME NEW free, NEW n, NEW pick \in Chosen(free, n)
    PROVE  pick[1] \subseteq free
<1> DEFINE primaries == Primaries(free)
<1>1. primaries \subseteq free /\ Siblings(free) \subseteq free
  BY DEF Primaries, Siblings
<1>2. \A S, k : FirstN(S, k) \subseteq S
  BY DEF FirstN
<1>3. CASE Cardinality(primaries) < n
  BY <1>1, <1>2, <1>3 DEF Chosen
<1>4. CASE ~(Cardinality(primaries) < n) /\ RunStarts(primaries, n) = {}
  BY <1>1, <1>2, <1>4 DEF Chosen
<1>5. CASE ~(Cardinality(primaries) < n) /\ RunStarts(primaries, n) # {}
  <2>1. PICK start \in {s \in primaries : IsFirstRun(primaries, n, s)} :
            pick = <<start .. (start + n - 1), TRUE>>
    BY <1>5 DEF Chosen
  <2>2. start \in RunStarts(primaries, n)
    BY <2>1 DEF IsFirstRun
  <2>3. pick[1] \subseteq primaries
    BY <2>1, <2>2 DEF RunStarts
  <2>4. QED BY <2>3, <1>1
<1>6. QED BY <1>3, <1>4, <1>5

(***************************************************************************)
(* On a node with room, n cores are chosen: siblings make up for what the  *)
(* primaries lack, a run has n ids, and so have the n smallest primaries.  *)
(***************************************************************************)
LEMMA ChosenAreEnough ==
    ASSUME NEW free \in SUBSET Nat, IsFiniteSet(free), NEW n \in Nat,
           n <= Cardinality(free), NEW pick \in Chosen(free, n)
    PROVE  Cardinality(pick[1]) = n
<1> DEFINE primaries == Primaries(free)
           siblings  == Siblings(free)
<1>1. /\ primaries \in SUBSET free /\ siblings \in SUBSET free
      /\ siblings = free \ primaries /\ primaries \cap siblings = {}
  BY DEF Primaries, Siblings
<1>2. /\ IsFiniteSet(primaries) /\ Cardinality(primaries) \in Nat
      /\ IsFiniteSet(siblings) /\ Cardinality(siblings) \in Nat
      /\ Cardinality(free) \in Nat
      /\ Cardinality(siblings) = Cardinality(free) - Cardinality(primaries)
  <2>1. free \cap primaries = primaries
    BY <1>1
  <2>2. QED BY <1>1, <2>1, FS_Subset, FS_CardinalityType, FS_Difference
<1>3. primaries \in SUBSET Nat /\ siblings \in SUBSET Nat
  BY <1>1
<1>4. CASE Cardinality(primaries) < n
  <2> DEFINE lack == n - Cardinality(primaries)
             more == FirstN(siblings, lack)
  <2>1. lack \in Nat /\ lack <= Cardinality(siblings)
    BY <1>2, <1>4
  <2>2. IsFiniteSet(more) /\ Cardinality(more) = lack
    BY <1>2, <1>3, <2>1, FirstNSize
  <2>3. primaries \cap more = {}
    BY <1>1 DEF FirstN
  <2>4. Cardinality(primaries \cup more) = n
    <3>1. Cardinality(primaries \cup more)
            = Cardinality(primaries) + Cardinality(more) - Cardinality(primaries \cap more)
      BY <1>2, <2>2, FS_Union, Zenon
    <3>2. Cardinality(primaries \cap more) = 0
      BY <2>3, FS_EmptySet, Zenon
    <3> HIDE DEF primaries, more
    <3>3. QED BY <1>2, <2>2, <3>1, <3>2
  <2>5. pick[1] = primaries \cup more
    BY <1>4 DEF Chosen
  <2>6. QED BY <2>4, <2>5
<1>5. CASE ~(Cardinality(primaries) < n) /\ RunStarts(primaries, n) = {}
  <2>1. pick[1] = FirstN(primaries, n)
    BY <1>5 DEF Chosen
  <2>2. QED BY <1>2, <1>3, <1>5, <2>1, FirstNSize
<1>6. CASE ~(Cardinality(primaries) < n) /\ RunStarts(primaries, n) # {}
  <2>1. PICK start \in {c \in primaries : IsFirstRun(primaries, n, c)} :
            pick = <<start .. (start + n - 1), TRUE>>
    BY <1>6 DEF Chosen
  <2>2. start \in Int /\ start + n - 1 \in Int
    BY <1>3
  <2>3. QED BY <2>1, <2>2, FS_Interval
<1>7. QED BY <1>4, <1>5, <1>6

(***************************************************************************)
(* The candidates: choices of cores on nodes with room, and all of them    *)
(* where the memory gate is off.                                           *)
(***************************************************************************)
LEMMA CandidatesAre ==
    ASSUME NEW n, NEW occupied, NEW ram, NEW threshold, NEW gate, NEW anon
    PROVE  /\ \A c \in Candidates(n, occupied, ram, threshold, gate, anon) :
                /\ c.node \in NumaNodes
                /\ Cardinality(Free(c.node, occupied)) >= n
                /\ \E pick \in Chosen(Free(c.node, occupied), n) :
                     c.cores = pick[1] /\ c.contiguous = pick[2]
                /\ c.nfree = Cardinality(Free(c.node, occupied))
           /\ \A node \in NumaNodes : \A pick \in Chosen(Free(node, occupied), n) :
                (/\ Cardinality(Free(node, occupied)) >= n
                 /\ gate.cap <= 0 \/ WillInterleave(ram, threshold)
                 /\ gate.cap \in Int) =>
                \E c \in Candidates(n, occupied, ram, threshold, gate, anon) :
                   c.node = node /\ c.cores = pick[1] /\ c.contiguous = pick[2]
<1> DEFINE isGated == gate.cap > 0 /\ ~WillInterleave(ram, threshold)
           Candidate(node, pick) ==
               [cores |-> pick[1], node |-> node, contiguous |-> pick[2],
                nfree |-> Cardinality(Free(node, occupied)),
                used  |-> UsedGb(node, isGated, anon),
                smt_oversubscribed |-> Cardinality(Primaries(Free(node, occupied))) < n]
           OfNode(node) == {Candidate(node, pick) : pick \in Chosen(Free(node, occupied), n)}
           Admitting == {nd \in NumaNodes : /\ Cardinality(Free(nd, occupied)) >= n
                                            /\ NodeAdmits(nd, ram, gate, isGated, anon)}
<1>1. Candidates(n, occupied, ram, threshold, gate, anon) = UNION {OfNode(node) : node \in Admitting}
  BY Zenon DEF Candidates
<1>2. \A node, pick : /\ Candidate(node, pick).cores = pick[1]
                      /\ Candidate(node, pick).node = node
                      /\ Candidate(node, pick).contiguous = pick[2]
                      /\ Candidate(node, pick).nfree = Cardinality(Free(node, occupied))
  OBVIOUS
<1>3. (gate.cap \in Int /\ (gate.cap <= 0 \/ WillInterleave(ram, threshold)))
        => \A node : NodeAdmits(node, ram, gate, isGated, anon)
  BY DEF NodeAdmits
<1>4. \A node : \A c : c \in OfNode(node) <=> \E pick \in Chosen(Free(node, occupied), n) :
                                                 c = Candidate(node, pick)
  OBVIOUS
<1> HIDE DEF Candidate, OfNode, isGated
<1>5. ASSUME NEW c \in Candidates(n, occupied, ram, threshold, gate, anon)
      PROVE  /\ c.node \in NumaNodes
             /\ Cardinality(Free(c.node, occupied)) >= n
             /\ \E pick \in Chosen(Free(c.node, occupied), n) :
                  c.cores = pick[1] /\ c.contiguous = pick[2]
             /\ c.nfree = Cardinality(Free(c.node, occupied))
  <2>1. PICK node \in Admitting : c \in OfNode(node)
    BY <1>1
  <2>2. PICK pick \in Chosen(Free(node, occupied), n) : c = Candidate(node, pick)
    BY <1>4, <2>1
  <2>3. c.node = node
    BY <1>2, <2>2
  <2>4. QED BY <1>2, <2>1, <2>2, <2>3
<1>6. ASSUME NEW node \in NumaNodes, NEW pick \in Chosen(Free(node, occupied), n),
             Cardinality(Free(node, occupied)) >= n,
             gate.cap <= 0 \/ WillInterleave(ram, threshold), gate.cap \in Int
      PROVE  \E c \in Candidates(n, occupied, ram, threshold, gate, anon) :
               c.node = node /\ c.cores = pick[1] /\ c.contiguous = pick[2]
  <2>1. node \in Admitting
    BY <1>3, <1>6
  <2>2. Candidate(node, pick) \in OfNode(node)
    BY <1>4
  <2>3. Candidate(node, pick) \in Candidates(n, occupied, ram, threshold, gate, anon)
    BY <1>1, <2>1, <2>2
  <2>4. QED BY <1>2, <2>3
<1>7. QED BY <1>5, <1>6

(***************************************************************************)
(* A candidate's cores are cores of its node that nobody occupies, as many *)
(* as were asked for.                                                      *)
(***************************************************************************)
LEMMA CandidatesAreFree ==
    ASSUME NEW n \in Nat, NEW occupied, NEW ram, NEW threshold, NEW gate, NEW anon,
           NEW c \in Candidates(n, occupied, ram, threshold, gate, anon)
    PROVE  /\ c.node \in NumaNodes
           /\ c.cores \subseteq NodeCpus[c.node] \ occupied
           /\ Cardinality(c.cores) = n
<1> DEFINE free == Free(c.node, occupied)
<1>1. /\ c.node \in NumaNodes /\ Cardinality(free) >= n
      /\ \E pick \in Chosen(free, n) : c.cores = pick[1]
  BY CandidatesAre
<1>2. PICK pick \in Chosen(free, n) : c.cores = pick[1]
  BY <1>1
<1>3. pick[1] \subseteq free
  BY ChosenAreFree
<1>4. free \in SUBSET Nat /\ IsFiniteSet(free)
  BY <1>1, NumaAssumption, FS_Subset DEF Free
<1>5. Cardinality(free) \in Nat
  BY <1>4, FS_CardinalityType
<1> HIDE DEF free
<1>6. Cardinality(pick[1]) = n
  BY <1>1, <1>4, <1>5, ChosenAreEnough
<1>7. QED BY <1>1, <1>2, <1>3, <1>6 DEF Free, free

(***************************************************************************)
(* What the choice on a node tells: a sibling is taken only with every     *)
(* free primary, and what is called contiguous is a run of primaries.      *)
(***************************************************************************)
LEMMA ChosenInOrder ==
    ASSUME NEW free, NEW n, NEW pick \in Chosen(free, n)
    PROVE  /\ Siblings(pick[1]) # {} => Primaries(free) \subseteq pick[1]
           /\ pick[2] \in BOOLEAN
<1> DEFINE primaries == Primaries(free)
<1>1. \A S : S \subseteq primaries => Siblings(S) = {}
  BY DEF Primaries, Siblings
<1>2. CASE Cardinality(primaries) < n
  <2>1. pick = <<primaries \cup FirstN(Siblings(free), n - Cardinality(primaries)), FALSE>>
    BY <1>2 DEF Chosen
  <2>2. QED BY <2>1
<1>3. CASE ~(Cardinality(primaries) < n) /\ RunStarts(primaries, n) = {}
  <2>1. pick = <<FirstN(primaries, n), FALSE>>
    BY <1>3 DEF Chosen
  <2>2. QED BY <1>1, <2>1 DEF FirstN
<1>4. CASE ~(Cardinality(primaries) < n) /\ RunStarts(primaries, n) # {}
  <2>1. PICK start \in {s \in primaries : IsFirstRun(primaries, n, s)} :
            pick = <<start .. (start + n - 1), TRUE>>
    BY <1>4 DEF Chosen
  <2>2. start .. (start + n - 1) \subseteq primaries
    BY <2>1 DEF IsFirstRun, RunStarts
  <2>3. QED BY <1>1, <2>1, <2>2
<1>5. QED BY <1>2, <1>3, <1>4

(***************************************************************************)
(* Where n free primaries follow each other, a run of them is chosen (and  *)
(* the node has room).                                                     *)
(***************************************************************************)
LEMMA RunsAreTaken ==
    ASSUME NEW free \in SUBSET Nat, IsFiniteSet(free), NEW n \in Nat \ {0},
           RunStarts(Primaries(free), n) # {}
    PROVE  /\ Cardinality(free) >= n
           /\ \E pick \in Chosen(free, n) : pick[2] = TRUE
<1> DEFINE primaries == Primaries(free)
           starts    == RunStarts(primaries, n)
<1>1. primaries \in SUBSET free /\ starts \in SUBSET Nat
  BY DEF Primaries, RunStarts
<1>2. PICK start \in starts : \A other \in starts : start <= other
  BY <1>1, LeastOf
<1>3. start \in primaries /\ start .. (start + n - 1) \subseteq primaries
  BY <1>2 DEF RunStarts
<1>4. Cardinality(start .. (start + n - 1)) = n
  <2>1. start \in Int /\ start + n - 1 \in Int /\ start <= start + n - 1
    BY <1>1, <1>2
  <2>2. Cardinality(start .. (start + n - 1)) = (start + n - 1) - start + 1
    BY <2>1, FS_Interval
  <2>3. QED BY <2>1, <2>2
<1>5. /\ IsFiniteSet(primaries) /\ Cardinality(primaries) >= n
      /\ Cardinality(primaries) \in Nat
  <2>1. IsFiniteSet(primaries)
    BY <1>1, FS_Subset
  <2>2. Cardinality(start .. (start + n - 1)) <= Cardinality(primaries)
    BY <1>3, <2>1, FS_Subset, Zenon
  <2>3. Cardinality(primaries) \in Nat
    BY <2>1, FS_CardinalityType
  <2> HIDE DEF primaries
  <2>4. QED BY <1>4, <2>1, <2>2, <2>3
<1>6. Cardinality(free) >= n
  <2>1. Cardinality(primaries) <= Cardinality(free)
    BY <1>1, FS_Subset
  <2>2. Cardinality(free) \in Nat
    BY FS_CardinalityType
  <2> HIDE DEF primaries
  <2>3. QED BY <1>5, <2>1, <2>2
<1>7. <<start .. (start + n - 1), TRUE>> \in Chosen(free, n)
  <2>1. ~(Cardinality(primaries) < n) /\ starts # {}
    <3> HIDE DEF primaries
    <3>1. QED BY <1>2, <1>5
  <2>2. IsFirstRun(primaries, n, start)
    BY <1>2 DEF IsFirstRun
  <2>3. Chosen(free, n)
          = {<<s .. (s + n - 1), TRUE>> : s \in {c \in primaries : IsFirstRun(primaries, n, c)}}
    BY <2>1 DEF Chosen
  <2>4. QED BY <1>3, <2>2, <2>3
<1>8. QED BY <1>6, <1>7

(***************************************************************************)
(* allocate hands out exactly as many cores as were asked for, none of     *)
(* them occupied or off the node it names, through the CPU-list string     *)
(* and back, with or without the memory gate.                              *)
(***************************************************************************)
THEOREM PlacementsAreFree ==
    ASSUME NEW n \in Int, NEW occupied, NEW ram, NEW threshold, NEW gate, NEW anon,
           NEW pl \in Placements(n, occupied, ram, threshold, gate, anon)
    PROVE  /\ pl.cpu_list \in CpuLists
           /\ pl.node \in Nat
           /\ ParseCpuList(pl.cpu_list) \cap occupied = {}
           /\ ParseCpuList(pl.cpu_list) # {} =>
                /\ pl.node \in NumaNodes
                /\ ParseCpuList(pl.cpu_list) \subseteq NodeCpus[pl.node]
           /\ Cardinality(ParseCpuList(pl.cpu_list)) = IF n < 0 THEN 0 ELSE n
           /\ IsFiniteSet(ParseCpuList(pl.cpu_list))
<1>1. CASE n <= 0
  <2>1. pl.cpu_list = {} /\ pl.node = FirstNode
    BY <1>1 DEF Placements
  <2>2. ParseCpuList(pl.cpu_list) = {}
    BY <2>1, ParseOfEmpty
  <2>3. /\ Cardinality(ParseCpuList(pl.cpu_list)) = IF n < 0 THEN 0 ELSE n
        /\ IsFiniteSet(ParseCpuList(pl.cpu_list))
    BY <1>1, <2>2, FS_EmptySet
  <2>4. pl.cpu_list \in CpuLists
    BY <2>1 DEF CpuLists
  <2>5. QED BY <2>1, <2>2, <2>3, <2>4, NumaAssumption
<1>2. CASE ~(n <= 0)
  <2> n \in Nat
    BY <1>2
  <2> DEFINE Placed(best) == [cpu_list |-> FormatCpuList(best.cores), node |-> best.node,
                              interleave |-> WillInterleave(ram, threshold),
                              contiguous |-> best.contiguous,
                              smt_oversubscribed |-> best.smt_oversubscribed]
  <2>0. PICK best \in Candidates(n, occupied, ram, threshold, gate, anon) : pl = Placed(best)
    BY <1>2 DEF Placements
  <2>1. pl.cpu_list = FormatCpuList(best.cores) /\ pl.node = best.node
    BY <2>0
  <2>2. /\ best.node \in NumaNodes
        /\ best.cores \subseteq NodeCpus[best.node] \ occupied
        /\ Cardinality(best.cores) = n
    BY CandidatesAreFree
  <2>3. best.cores \in SUBSET Nat /\ IsFiniteSet(best.cores)
    BY <2>2, NumaAssumption, FS_Subset
  <2>4. ParseCpuList(pl.cpu_list) = best.cores
    BY <2>1, <2>3, RoundTrip
  <2>5. pl.cpu_list \in CpuLists
    BY <2>1, <2>3, FormatTyped
  <2>6. Cardinality(ParseCpuList(pl.cpu_list)) = IF n < 0 THEN 0 ELSE n
    BY <1>2, <2>2, <2>4
  <2>7. pl.node \in Nat
    BY <2>1, <2>2, NumaAssumption
  <2>8. QED BY <2>1, <2>2, <2>3, <2>4, <2>5, <2>6, <2>7
<1>3. QED BY <1>1, <1>2

(***************************************************************************)
(* A placement of cores is a candidate that no other comes before.         *)
(***************************************************************************)
LEMMA PlacementsAreBest ==
    ASSUME NEW n \in Int, n > 0, NEW occupied, NEW ram, NEW threshold, NEW gate, NEW anon,
           NEW pl \in Placements(n, occupied, ram, threshold, gate, anon)
    PROVE  \E best \in Candidates(n, occupied, ram, threshold, gate, anon) :
             /\ \A other \in Candidates(n, occupied, ram, threshold, gate, anon) :
                  Ranks(best, other)
             /\ ParseCpuList(pl.cpu_list) = best.cores
             /\ pl.node = best.node
             /\ pl.contiguous = best.contiguous
<1> DEFINE Placed(best) == [cpu_list |-> FormatCpuList(best.cores), node |-> best.node,
                            interleave |-> WillInterleave(ram, threshold),
                            contiguous |-> best.contiguous,
                            smt_oversubscribed |-> best.smt_oversubscribed]
<1>1. PICK best \in Candidates(n, occupied, ram, threshold, gate, anon) :
          /\ \A other \in Candidates(n, occupied, ram, threshold, gate, anon) :
               Ranks(best, other)
          /\ pl = Placed(best)
  BY DEF Placements
<1>2. /\ pl.cpu_list = FormatCpuList(best.cores) /\ pl.node = best.node
      /\ pl.contiguous = best.contiguous
  BY <1>1
<1>3. best.cores \in SUBSET Nat /\ IsFiniteSet(best.cores)
  <2>1. n \in Nat
    OBVIOUS
  <2>2. best.node \in NumaNodes /\ best.cores \subseteq NodeCpus[best.node]
    BY <2>1, CandidatesAreFree
  <2>3. QED BY <2>2, NumaAssumption, FS_Subset
<1>4. QED BY <1>1, <1>2, <1>3, RoundTrip

-----------------------------------------------------------------------------
(* When allocate answers None. *)

\* The memory gate applies to a request.
Gated(ram, threshold, gate) == gate.cap > 0 /\ ~WillInterleave(ram, threshold)

(***************************************************************************)
(* A finite set has an element of least weight.                            *)
(***************************************************************************)
LEMMA LightestOf ==
    ASSUME NEW N, IsFiniteSet(N), NEW weight \in [N -> Int], NEW S \in SUBSET N, S # {}
    PROVE  \E m \in S : \A k \in S : weight[m] <= weight[k]
<1> DEFINE Good(T) == \E m \in T : \A k \in T : weight[m] <= weight[k]
           Bad == {n \in Nat : \E T \in SUBSET N : T # {} /\ Cardinality(T) = n /\ ~Good(T)}
<1>1. \A T \in SUBSET N : IsFiniteSet(T) /\ Cardinality(T) \in Nat
  BY FS_Subset, FS_CardinalityType
<1>2. SUFFICES ASSUME Bad # {} PROVE FALSE
  BY <1>1
<1> HIDE DEF Good
<1>3. PICK n \in Bad : \A m \in Bad : n <= m
  BY <1>2, LeastOf
<1>4. PICK T \in SUBSET N : T # {} /\ Cardinality(T) = n /\ ~Good(T)
  BY <1>3
<1>5. PICK x \in T : TRUE
  BY <1>4
<1> DEFINE R == T \ {x}
<1>6. /\ R \in SUBSET N /\ R \cup {x} = T
      /\ Cardinality(R) \in Nat /\ Cardinality(R) < n
  <2>1. Cardinality(R) = Cardinality(T) - 1
    BY <1>1, <1>5, FS_RemoveElement
  <2>2. QED BY <1>1, <1>4, <1>5, <2>1
<1>7. weight[x] \in Int /\ \A y \in R : weight[y] \in Int
  OBVIOUS
<1>8. CASE R = {}
  BY <1>4, <1>5, <1>6, <1>7, <1>8 DEF Good
<1>9. CASE R # {}
  <2>1. Good(R)
    <3>1. \A m \in Bad : ~(m < n)
      BY <1>3
    <3>2. QED BY <1>6, <1>9, <3>1
  <2>2. PICK m \in R : \A k \in R : weight[m] <= weight[k]
    BY <2>1 DEF Good
  <2>3. CASE weight[m] <= weight[x]
    BY <1>4, <1>6, <2>2, <2>3 DEF Good
  <2>4. CASE ~(weight[m] <= weight[x])
    <3>1. \A k \in T : weight[x] <= weight[k]
      BY <1>6, <1>7, <2>2, <2>4
    <3>2. QED BY <1>4, <3>1 DEF Good
  <2>5. QED BY <2>3, <2>4
<1>10. QED BY <1>8, <1>9

(***************************************************************************)
(* A node with room gives some choice of its cores.                        *)
(***************************************************************************)
LEMMA SomeChosen ==
    ASSUME NEW free \in SUBSET Nat, NEW n
    PROVE  Chosen(free, n) # {}
<1> DEFINE primaries == Primaries(free)
<1>1. CASE ~(Cardinality(primaries) < n) /\ RunStarts(primaries, n) # {}
  <2>1. RunStarts(primaries, n) \in SUBSET Nat
    BY DEF RunStarts, Primaries
  <2>2. PICK start \in RunStarts(primaries, n) :
               \A other \in RunStarts(primaries, n) : start <= other
    BY <1>1, <2>1, LeastOf
  <2>3. start \in primaries /\ IsFirstRun(primaries, n, start)
    BY <2>2 DEF IsFirstRun, RunStarts
  <2>4. <<start .. (start + n - 1), TRUE>> \in Chosen(free, n)
    BY <1>1, <2>3 DEF Chosen
  <2>5. QED BY <2>4
<1>2. CASE Cardinality(primaries) < n \/ RunStarts(primaries, n) = {}
  BY <1>2 DEF Chosen
<1>3. QED BY <1>1, <1>2

(***************************************************************************)
(* Every node that has room and passes the memory gate has a candidate,    *)
(* and what the order of candidates compares depends on the node alone.    *)
(***************************************************************************)
LEMMA CandidatePerNode ==
    ASSUME NEW n, NEW occupied, NEW ram, NEW threshold, NEW gate, NEW anon
    PROVE  /\ \A c \in Candidates(n, occupied, ram, threshold, gate, anon) :
                c.used = UsedGb(c.node, Gated(ram, threshold, gate), anon)
           /\ \A node \in NumaNodes :
                (/\ Cardinality(Free(node, occupied)) >= n
                 /\ NodeAdmits(node, ram, gate, Gated(ram, threshold, gate), anon)) =>
                  Candidates(n, occupied, ram, threshold, gate, anon) # {}
<1> DEFINE gated == Gated(ram, threshold, gate)
           Candidate(node, pick) ==
               [cores |-> pick[1], node |-> node, contiguous |-> pick[2],
                nfree |-> Cardinality(Free(node, occupied)),
                used  |-> UsedGb(node, gated, anon),
                smt_oversubscribed |-> Cardinality(Primaries(Free(node, occupied))) < n]
           OfNode(node) == {Candidate(node, pick) : pick \in Chosen(Free(node, occupied), n)}
           Admitting == {nd \in NumaNodes : /\ Cardinality(Free(nd, occupied)) >= n
                                            /\ NodeAdmits(nd, ram, gate, gated, anon)}
<1>1. Candidates(n, occupied, ram, threshold, gate, anon) = UNION {OfNode(node) : node \in Admitting}
  BY Zenon DEF Candidates, Gated
<1>2. \A node, pick : Candidate(node, pick).node = node
                      /\ Candidate(node, pick).used = UsedGb(node, gated, anon)
  OBVIOUS
<1>3. \A node : \A c : c \in OfNode(node) <=> \E pick \in Chosen(Free(node, occupied), n) :
                                                 c = Candidate(node, pick)
  OBVIOUS
<1> HIDE DEF Candidate, OfNode
<1>4. \A c \in Candidates(n, occupied, ram, threshold, gate, anon) :
          c.used = UsedGb(c.node, gated, anon)
  BY <1>1, <1>2, <1>3
<1>5. ASSUME NEW node \in Admitting
      PROVE  Candidates(n, occupied, ram, threshold, gate, anon) # {}
  <2>1. Free(node, occupied) \in SUBSET Nat
    BY NumaAssumption DEF Free
  <2>2. PICK pick : pick \in Chosen(Free(node, occupied), n)
    BY <2>1, SomeChosen
  <2>3. Candidate(node, pick) \in OfNode(node)
    BY <1>3, <2>2
  <2>4. QED BY <1>1, <2>3
<1>6. QED BY <1>4, <1>5

(***************************************************************************)
(* Among any candidates there is one that sorts no later than the others.  *)
(***************************************************************************)
LEMMA BestCandidate ==
    ASSUME NEW n, NEW occupied, NEW ram, NEW threshold, NEW gate,
           NEW anon \in [NumaNodes -> Int],
           Candidates(n, occupied, ram, threshold, gate, anon) # {}
    PROVE  \E best \in Candidates(n, occupied, ram, threshold, gate, anon) :
             \A other \in Candidates(n, occupied, ram, threshold, gate, anon) :
               Ranks(best, other)
<1> DEFINE All == Candidates(n, occupied, ram, threshold, gate, anon)
           Runs == {c \in All : c.contiguous}
           First == IF Runs # {} THEN Runs ELSE All
           room == [node \in NumaNodes |-> -Cardinality(Free(node, occupied))]
           load == [node \in NumaNodes |-> UsedGb(node, Gated(ram, threshold, gate), anon)]
           N1 == {node \in NumaNodes : \E c \in First : c.node = node}
<1>1. \A c \in All : /\ c.node \in NumaNodes
                     /\ c.nfree = Cardinality(Free(c.node, occupied))
                     /\ c.used = load[c.node]
                     /\ c.contiguous \in BOOLEAN
  <2>1. \A c \in All : /\ c.node \in NumaNodes
                       /\ c.nfree = Cardinality(Free(c.node, occupied))
                       /\ \E pick \in Chosen(Free(c.node, occupied), n) :
                            c.cores = pick[1] /\ c.contiguous = pick[2]
    BY CandidatesAre
  <2>2. \A c \in All : c.used = UsedGb(c.node, Gated(ram, threshold, gate), anon)
    BY CandidatePerNode
  <2>3. \A c \in All : c.contiguous \in BOOLEAN
    BY <2>1, ChosenInOrder
  <2> HIDE DEF All
  <2>4. QED BY <2>1, <2>2, <2>3
<1>2. \A node \in NumaNodes : Cardinality(Free(node, occupied)) \in Nat
  BY NumaAssumption, FS_Subset, FS_CardinalityType DEF Free
<1>3. room \in [NumaNodes -> Int] /\ load \in [NumaNodes -> Int]
  <2>1. load \in [NumaNodes -> Int]
    BY DEF UsedGb
  <2>2. QED BY <1>2, <2>1, NumaAssumption
<1>4. First # {} /\ First \subseteq All
  OBVIOUS
<1>5. N1 \in SUBSET NumaNodes /\ N1 # {}
  BY <1>1, <1>4
<1>6. PICK a \in N1 : \A k \in N1 : room[a] <= room[k]
  BY <1>3, <1>5, LightestOf, NumaAssumption
<1> DEFINE N2 == {node \in N1 : room[node] = room[a]}
<1>7. PICK b \in N2 : \A k \in N2 : load[b] <= load[k]
  <2>1. N2 \in SUBSET NumaNodes /\ N2 # {}
    BY <1>5, <1>6
  <2>2. QED BY <1>3, <2>1, LightestOf, NumaAssumption
<1> DEFINE N3 == {node \in N2 : load[node] = load[b]}
<1>8. PICK d \in N3 : \A k \in N3 : d <= k
  <2>1. N3 \in SUBSET Nat /\ N3 # {}
    BY <1>5, <1>7, NumaAssumption
  <2>2. QED BY <2>1, LeastOf
<1>9. PICK best \in First : best.node = d
  BY <1>8
<1>10. ASSUME NEW other \in All PROVE Ranks(best, other)
  <2>1. /\ best \in All /\ best.contiguous \in BOOLEAN /\ other.contiguous \in BOOLEAN
        /\ best.node = d /\ d \in NumaNodes /\ other.node \in NumaNodes
        /\ best.nfree = -room[d] /\ other.nfree = -room[other.node]
        /\ best.used = load[d] /\ other.used = load[other.node]
    <3> HIDE DEF All, load
    <3>1. \A k \in Nat : k = -(-k)
      OBVIOUS
    <3>2. QED BY <1>1, <1>2, <1>4, <1>8, <1>9, <3>1
  <2>2. CASE other \in First
    <3>1. other.node \in N1
      BY <2>1, <2>2
    <3>2. best.contiguous = other.contiguous
      <4>1. CASE Runs # {}
        BY <1>9, <2>1, <2>2, <4>1
      <4>2. CASE Runs = {}
        <5>1. \A c \in All : ~c.contiguous
          BY <4>2
        <5>2. QED BY <2>1, <5>1
      <4>3. QED BY <4>1, <4>2
    <3>3. /\ room[d] = room[a] /\ load[d] = load[b] /\ room[a] <= room[other.node]
          /\ room[other.node] = room[a] => load[b] <= load[other.node]
          /\ (room[other.node] = room[a] /\ load[other.node] = load[b]) => d <= other.node
      <4> HIDE DEF room, load
      <4>1. QED BY <1>6, <1>7, <1>8, <2>1, <3>1
    <3>4. /\ room[d] \in Int /\ room[other.node] \in Int
          /\ load[d] \in Int /\ load[other.node] \in Int /\ d \in Int /\ other.node \in Int
      <4> HIDE DEF room, load
      <4>1. d \in NumaNodes /\ other.node \in NumaNodes
        BY <2>1
      <4>2. \A node \in NumaNodes : room[node] \in Int /\ load[node] \in Int
        BY <1>3
      <4>3. \A node \in NumaNodes : node \in Int
        BY NumaAssumption
      <4>4. QED BY <4>1, <4>2, <4>3
    <3> HIDE DEF room, load, N1, N2, N3, First, Runs, All
    <3>5. QED BY <2>1, <3>2, <3>3, <3>4 DEF Ranks
  <2>3. CASE other \notin First
    <3>1. best.contiguous /\ ~other.contiguous
      BY <1>9, <2>1, <2>3
    <3>2. QED BY <3>1 DEF Ranks
  <2>4. QED BY <2>2, <2>3
<1>11. QED BY <1>4, <1>9, <1>10

(***************************************************************************)
(* allocate answers None exactly when no node has as many free cores as    *)
(* asked for and passes the memory gate.                                   *)
(***************************************************************************)
THEOREM RefusedWhenFull ==
    ASSUME NEW n \in Int, NEW occupied, NEW ram, NEW threshold, NEW gate,
           NEW anon \in [NumaNodes -> Int]
    PROVE  Placements(n, occupied, ram, threshold, gate, anon) = {} <=>
             /\ n > 0
             /\ \A node \in NumaNodes :
                  \/ Cardinality(Free(node, occupied)) < n
                  \/ ~NodeAdmits(node, ram, gate, Gated(ram, threshold, gate), anon)
<1> DEFINE All == Candidates(n, occupied, ram, threshold, gate, anon)
<1>1. \A node \in NumaNodes : Cardinality(Free(node, occupied)) \in Nat
  BY NumaAssumption, FS_Subset, FS_CardinalityType DEF Free
<1>2. CASE n <= 0
  <2>1. Placements(n, occupied, ram, threshold, gate, anon)
          = {[cpu_list |-> {}, node |-> FirstNode, interleave |-> FALSE,
              contiguous |-> TRUE, smt_oversubscribed |-> FALSE]}
    BY <1>2, Zenon DEF Placements
  <2>2. ~(n > 0)
    BY <1>2
  <2>3. QED BY <2>1, <2>2
<1>3. CASE ~(n <= 0)
  <2>1. Placements(n, occupied, ram, threshold, gate, anon) = {} <=>
          {c \in All : \A other \in All : Ranks(c, other)} = {}
    BY <1>3 DEF Placements
  <2>2. Placements(n, occupied, ram, threshold, gate, anon) = {} <=> All = {}
    <3> HIDE DEF All
    <3>1. All # {} => \E best \in All : \A other \in All : Ranks(best, other)
      BY BestCandidate DEF All
    <3>2. QED BY <2>1, <3>1
  <2>3. \A node \in NumaNodes :
          (/\ Cardinality(Free(node, occupied)) >= n
           /\ NodeAdmits(node, ram, gate, Gated(ram, threshold, gate), anon)) => All # {}
    BY CandidatePerNode
  <2>4. All # {} => \E node \in NumaNodes :
                      /\ Cardinality(Free(node, occupied)) >= n
                      /\ NodeAdmits(node, ram, gate, Gated(ram, threshold, gate), anon)
    BY Zenon DEF Candidates, Gated
  <2> HIDE DEF All
  <2>5. QED BY <1>1, <1>3, <2>2, <2>3, <2>4
<1>4. QED BY <1>2, <1>3
=============================================================================
