--------------------------- MODULE NumaPoolProofs ---------------------------
(***************************************************************************)
(* The slots of the pool never share a core, placements keep their order   *)
(* of preference, and MPI ranks laid on a slot's block split it, for every *)
(* topology, request, memory gate and history.                             *)
(***************************************************************************)
EXTENDS NumaPool, NumaProofs, MpiPlanProofs

\* The type of the pool.
PoolTypeOK == held \in [Slots -> [cpu_list: CpuLists, node: Nat \cup {-1}]]

(***************************************************************************)
(* What a slot is given avoids what all the others hold at that moment.    *)
(***************************************************************************)
LEMMA PlaceKeepsApart ==
    ASSUME PoolTypeOK, HeldApart,
           NEW s \in Slots, NEW req \in Requests, NEW anon, Place(s, req, anon)
    PROVE  PoolTypeOK' /\ HeldApart'
<1>1. PICK pl \in Allocate(req, anon) :
          held' = [held EXCEPT ![s] = [cpu_list |-> pl.cpu_list, node |-> pl.node]]
  BY DEF Place
<1> DEFINE mine == ParseCpuList(pl.cpu_list)
<1>2. /\ pl.cpu_list \in CpuLists /\ pl.node \in Nat
      /\ mine \cap Occupied = {}
      /\ mine # {} => mine \subseteq NodeCpus[pl.node]
  BY PlacementsAreFree, NumaPoolAssumption DEF Allocate
<1>3. /\ held'[s].cpu_list = pl.cpu_list
      /\ held'[s].node = pl.node
      /\ \A t \in Slots \ {s} : held'[t] = held[t]
  BY <1>1 DEF PoolTypeOK
<1>4. /\ Reserved \subseteq Occupied
      /\ \A t \in Slots : ParseCpuList(held[t].cpu_list) \subseteq Occupied
  BY DEF Occupied
<1>5. PoolTypeOK'
  BY <1>1, <1>2 DEF PoolTypeOK
<1> HIDE DEF mine
<1>6. HeldApart'
  BY <1>2, <1>3, <1>4 DEF HeldApart, mine
<1>7. QED BY <1>5, <1>6

(***************************************************************************)
(* A slot that gives its cores back disturbs no other.                     *)
(***************************************************************************)
LEMMA ReleaseKeepsApart ==
    ASSUME PoolTypeOK, HeldApart, NEW s \in Slots, Release(s)
    PROVE  PoolTypeOK' /\ HeldApart'
<1>1. PoolTypeOK'
  BY DEF PoolTypeOK, Release, None, CpuLists
<1>2. ParseCpuList(held'[s].cpu_list) = {}
  BY ParseOfEmpty DEF PoolTypeOK, Release, None
<1>3. \A t \in Slots \ {s} : held'[t] = held[t]
  BY DEF PoolTypeOK, Release
<1>4. HeldApart'
  BY <1>2, <1>3 DEF HeldApart
<1>5. QED BY <1>1, <1>4

(***************************************************************************)
(* Placements held at the same time share no core with each other or with  *)
(* the operator's reservation and lie on their node, for every topology,   *)
(* memory gate and history of calls of allocate.                           *)
(***************************************************************************)
THEOREM PlacementsStayApart == Spec => []HeldApart
<1>1. Init => PoolTypeOK /\ HeldApart
  BY ParseOfEmpty DEF Init, PoolTypeOK, HeldApart, None, CpuLists
<1>2. PoolTypeOK /\ HeldApart /\ [Next]_vars => PoolTypeOK' /\ HeldApart'
  <2> SUFFICES ASSUME PoolTypeOK, HeldApart, [Next]_vars
               PROVE  PoolTypeOK' /\ HeldApart'
    OBVIOUS
  <2>1. CASE UNCHANGED held
    BY <2>1 DEF PoolTypeOK, HeldApart
  <2>2. ASSUME NEW s \in Slots, NEW req \in Requests, NEW anon \in Readings,
               Place(s, req, anon)
        PROVE  PoolTypeOK' /\ HeldApart'
    BY <2>2, PlaceKeepsApart
  <2>3. ASSUME NEW s \in Slots, NEW req \in Requests, NEW anon \in Readings,
               Defer(s, req, anon)
        PROVE  UNCHANGED held
    BY <2>3 DEF Defer
  <2>4. QED BY <2>1, <2>2, <2>3, ReleaseKeepsApart DEF Next, vars
<1>3. QED BY <1>1, <1>2, PTL DEF Spec

(***************************************************************************)
(* A placement has exactly the number of cores asked for, on every node    *)
(* however fragmented, with siblings or without, through the CPU-list      *)
(* string and back.                                                        *)
(***************************************************************************)
THEOREM PlacementsAreExact == Spec => []ExactSize
<1>1. Init => ExactSize
  BY DEF Init, NoCall, ExactSize
<1>2. ExactSize /\ [Next]_vars => ExactSize'
  <2> SUFFICES ASSUME ExactSize, [Next]_vars PROVE ExactSize'
    OBVIOUS
  <2>1. ASSUME NEW req \in Requests, NEW anon, Call(req, anon) PROVE ExactSize'
    <3>1. req.n \in Int
      BY NumaPoolAssumption
    <3>2. call'.n = req.n /\ call'.result = Allocate(req, anon)
      BY <2>1 DEF Call
    <3>3. QED BY <3>1, <3>2, PlacementsAreFree DEF ExactSize, Allocate
  <2>2. ASSUME NEW s \in Slots, Release(s) PROVE ExactSize'
    BY <2>2 DEF Release, NoCall, ExactSize
  <2>3. CASE UNCHANGED vars
    BY <2>3 DEF vars, ExactSize
  <2>4. QED BY <2>1, <2>2, <2>3 DEF Next, Place, Defer
<1>3. QED BY <1>1, <1>2, PTL DEF Spec

-----------------------------------------------------------------------------
(***************************************************************************)
(* The result recorded of a call is what allocate answers to it.           *)
(***************************************************************************)
CallAnswered ==
    \/ call = NoCall
    \/ /\ call.n \in Int /\ call.ram \in Int
       /\ call.anon \in [NumaNodes -> Int]
       /\ call.result = Placements(call.n, call.occupied, call.ram, Threshold, Gate,
                                   call.anon)

(***************************************************************************)
(* Every step keeps CallAnswered.                                          *)
(***************************************************************************)
LEMMA CallsAnswered == Spec => []CallAnswered
<1>1. Init => CallAnswered
  BY DEF Init, CallAnswered
<1>2. CallAnswered /\ [Next]_vars => CallAnswered'
  <2> SUFFICES ASSUME CallAnswered, [Next]_vars PROVE CallAnswered'
    OBVIOUS
  <2>1. ASSUME NEW req \in Requests, NEW anon \in Readings, Call(req, anon)
        PROVE  CallAnswered'
    <3>1. req.n \in Int /\ req.ram \in Int /\ anon \in [NumaNodes -> Int]
      BY NumaPoolAssumption
    <3>2. QED BY <2>1, <3>1 DEF Call, CallAnswered, Allocate
  <2>2. ASSUME NEW s \in Slots, Release(s) PROVE CallAnswered'
    BY <2>2 DEF Release, CallAnswered
  <2>3. CASE UNCHANGED vars
    BY <2>3 DEF vars, CallAnswered
  <2>4. QED BY <2>1, <2>2, <2>3 DEF Next, Place, Defer
<1>3. QED BY <1>1, <1>2, PTL DEF Spec

(***************************************************************************)
(* A placement of at least one core is the best of the candidates of its   *)
(* call, chosen on a node with room.                                       *)
(***************************************************************************)
LEMMA AnswersAreBest ==
    ASSUME CallAnswered, call.n > 0, NEW pl \in call.result
    PROVE  \E best \in Candidates(call.n, call.occupied, call.ram, Threshold, Gate, call.anon) :
             /\ \A other \in Candidates(call.n, call.occupied, call.ram, Threshold, Gate,
                                        call.anon) : Ranks(best, other)
             /\ ParseCpuList(pl.cpu_list) = best.cores
             /\ pl.node = best.node
             /\ pl.contiguous = best.contiguous
             /\ best.node \in NumaNodes
             /\ best.nfree = Cardinality(RoomOn(pl.node))
             /\ \E pick \in Chosen(RoomOn(pl.node), call.n) :
                  best.cores = pick[1] /\ best.contiguous = pick[2]
<1>1. /\ call.n \in Int
      /\ pl \in Placements(call.n, call.occupied, call.ram, Threshold, Gate, call.anon)
  BY DEF CallAnswered, NoCall
<1>2. PICK best \in Candidates(call.n, call.occupied, call.ram, Threshold, Gate, call.anon) :
          /\ \A other \in Candidates(call.n, call.occupied, call.ram, Threshold, Gate,
                                     call.anon) : Ranks(best, other)
          /\ ParseCpuList(pl.cpu_list) = best.cores
          /\ pl.node = best.node
          /\ pl.contiguous = best.contiguous
  BY <1>1, PlacementsAreBest
<1>3. Free(best.node, call.occupied) = RoomOn(pl.node)
  BY <1>2 DEF Free, RoomOn
<1>4. /\ best.node \in NumaNodes
      /\ best.nfree = Cardinality(Free(best.node, call.occupied))
      /\ \E pick \in Chosen(Free(best.node, call.occupied), call.n) :
           best.cores = pick[1] /\ best.contiguous = pick[2]
  BY CandidatesAre
<1>5. QED BY <1>2, <1>3, <1>4

(***************************************************************************)
(* Where an ungated call finds a run of free primaries on a node, that     *)
(* node offers a contiguous candidate.                                     *)
(***************************************************************************)
LEMMA RunsAreOffered ==
    ASSUME CallAnswered, call # NoCall, call.n > 0, Ungated, NEW node \in NumaNodes,
           RunStarts(Primaries(RoomOn(node)), call.n) # {}
    PROVE  \E other \in Candidates(call.n, call.occupied, call.ram, Threshold, Gate, call.anon) :
             /\ other.contiguous = TRUE
             /\ other.nfree = Cardinality(RoomOn(node))
<1> DEFINE free == Free(node, call.occupied)
<1>1. free = RoomOn(node) /\ call.n \in Nat \ {0} /\ Gate.cap \in Int
  BY NumaPoolAssumption DEF RoomOn, Free, CallAnswered
<1>2. free \in SUBSET Nat /\ IsFiniteSet(free)
  BY NumaAssumption, FS_Subset DEF Free
<1> HIDE DEF free
<1>3. /\ Cardinality(free) >= call.n
      /\ \E pick \in Chosen(free, call.n) : pick[2] = TRUE
  BY <1>1, <1>2, RunsAreTaken
<1>4. PICK pick \in Chosen(free, call.n) : pick[2] = TRUE
  BY <1>3
<1>5. PICK other \in Candidates(call.n, call.occupied, call.ram, Threshold, Gate, call.anon) :
          other.node = node /\ other.contiguous = pick[2]
  BY <1>1, <1>3, <1>4, CandidatesAre DEF Ungated, free
<1>6. other.nfree = Cardinality(free)
  BY <1>5, CandidatesAre DEF free
<1>7. QED BY <1>1, <1>4, <1>5, <1>6

(***************************************************************************)
(* A placement with an SMT sibling has every free primary of its node.     *)
(***************************************************************************)
THEOREM SiblingsComeLast == Spec => []SiblingsLast
<1>1. CallAnswered => SiblingsLast
  <2> SUFFICES ASSUME CallAnswered, NEW pl \in call.result,
                      Siblings(ParseCpuList(pl.cpu_list)) # {}
               PROVE  Primaries(RoomOn(pl.node)) \subseteq ParseCpuList(pl.cpu_list)
    BY DEF SiblingsLast
  <2>1. CASE call.n > 0
    BY <2>1, AnswersAreBest, ChosenInOrder
  <2>2. CASE ~(call.n > 0)
    <3>1. /\ call.n \in Int /\ call.n <= 0
          /\ pl \in Placements(call.n, call.occupied, call.ram, Threshold, Gate, call.anon)
      BY <2>2 DEF CallAnswered, NoCall
    <3>2. pl.cpu_list = {}
      BY <3>1 DEF Placements
    <3>3. QED BY <3>2, ParseOfEmpty DEF Siblings
  <2>3. QED BY <2>1, <2>2
<1>2. QED BY <1>1, CallsAnswered, PTL

(***************************************************************************)
(* The first thread of a physical core is of its group and is not counted  *)
(* among the siblings.                                                     *)
(***************************************************************************)
LEMMA PrimaryOfGroup ==
    ASSUME NEW group \in SiblingGroups
    PROVE  Primary(group) \in group /\ Primary(group) \notin SmtSecondary
<1>1. \A g \in SiblingGroups : g \in SUBSET Nat /\ g # {}
  BY ParseTyped, TopologyAssumption DEF SiblingGroups
<1>2. \A g \in SiblingGroups : Primary(g) \in g
  BY <1>1, LeastOf DEF Primary
<1>3. \A g \in SiblingGroups : g = group \/ g \cap group = {}
  BY TopologyAssumption
<1>4. SmtSecondary = UNION {g \ {Primary(g)} : g \in SiblingGroups}
  BY NumaPoolAssumption DEF DetectSmtSecondary
<1>5. QED BY <1>2, <1>3, <1>4

(***************************************************************************)
(* A placement has two threads of one physical core only when it has a     *)
(* thread of every core whose first thread is free on the node.            *)
(***************************************************************************)
THEOREM DistinctCoresComeFirst == Spec => []DistinctCoresFirst
<1>1. SiblingsLast => DistinctCoresFirst
  <2> SUFFICES ASSUME SiblingsLast, NEW pl \in call.result,
                      NEW full \in SiblingGroups,
                      Cardinality(full \cap ParseCpuList(pl.cpu_list)) > 1,
                      NEW group \in SiblingGroups, Primary(group) \in RoomOn(pl.node)
               PROVE  group \cap ParseCpuList(pl.cpu_list) # {}
    BY DEF DistinctCoresFirst
  <2> DEFINE mine == ParseCpuList(pl.cpu_list)
  <2>1. PICK thread \in full \cap mine : thread # Primary(full)
    <3> SUFFICES ASSUME full \cap mine \subseteq {Primary(full)} PROVE FALSE
      OBVIOUS
    <3>1. IsFiniteSet({Primary(full)}) /\ Cardinality({Primary(full)}) = 1
      BY FS_Singleton
    <3>2. /\ Cardinality(full \cap mine) <= 1
          /\ Cardinality(full \cap mine) \in Nat
      BY <3>1, FS_Subset, FS_CardinalityType
    <3> HIDE DEF mine
    <3>3. Cardinality(full \cap mine) > 1
      BY DEF mine
    <3>4. QED BY <3>2, <3>3
  <2>2. thread \in SmtSecondary
    BY <2>1, NumaPoolAssumption DEF DetectSmtSecondary
  <2>3. Primaries(RoomOn(pl.node)) \subseteq mine
    BY <2>1, <2>2 DEF SiblingsLast, Siblings
  <2>4. Primary(group) \in Primaries(RoomOn(pl.node)) /\ Primary(group) \in group
    BY PrimaryOfGroup DEF Primaries
  <2>5. QED BY <2>3, <2>4
<1>2. QED BY <1>1, SiblingsComeLast, PTL

(***************************************************************************)
(* A job's cores are scattered only when no node had a run for it.         *)
(***************************************************************************)
THEOREM RunsFirst == Spec => []ScatteredOnlyWhenFragmented
<1>1. CallAnswered => ScatteredOnlyWhenFragmented
  <2> SUFFICES ASSUME CallAnswered, NEW pl \in call.result, ~pl.contiguous, Ungated,
                      NEW node \in NumaNodes,
                      RunStarts(Primaries(RoomOn(node)), call.n) # {}
               PROVE  FALSE
    BY DEF ScatteredOnlyWhenFragmented
  <2>1. call # NoCall
    BY DEF NoCall
  <2>2. CASE call.n > 0
    <3>1. PICK best \in Candidates(call.n, call.occupied, call.ram, Threshold, Gate,
                                   call.anon) :
              /\ \A other \in Candidates(call.n, call.occupied, call.ram, Threshold,
                                         Gate, call.anon) : Ranks(best, other)
              /\ pl.contiguous = best.contiguous
      BY <2>2, AnswersAreBest
    <3>2. PICK other \in Candidates(call.n, call.occupied, call.ram, Threshold, Gate,
                                    call.anon) : other.contiguous = TRUE
      BY <2>1, <2>2, RunsAreOffered
    <3>3. Ranks(best, other)
      BY <3>1
    <3>4. QED BY <3>1, <3>2, <3>3 DEF Ranks
  <2>3. CASE ~(call.n > 0)
    <3>1. /\ call.n \in Int /\ call.n <= 0
          /\ pl \in Placements(call.n, call.occupied, call.ram, Threshold, Gate, call.anon)
      BY <2>1, <2>3 DEF CallAnswered
    <3>2. QED BY <3>1 DEF Placements
  <2>4. QED BY <2>2, <2>3
<1>2. QED BY <1>1, CallsAnswered, PTL

(***************************************************************************)
(* Of the nodes with a run for a job the one with the most free cores      *)
(* takes it.                                                               *)
(***************************************************************************)
THEOREM RoomiestNodeFirst == Spec => []SpreadsOverNodes
<1>1. CallAnswered => SpreadsOverNodes
  <2> SUFFICES ASSUME CallAnswered, NEW pl \in call.result, pl.contiguous, call.n > 0,
                      Ungated, NEW node \in NumaNodes,
                      RunStarts(Primaries(RoomOn(node)), call.n) # {}
               PROVE  Cardinality(RoomOn(node)) <= Cardinality(RoomOn(pl.node))
    BY DEF SpreadsOverNodes
  <2>1. call # NoCall
    BY DEF NoCall
  <2>2. PICK best \in Candidates(call.n, call.occupied, call.ram, Threshold, Gate,
                                 call.anon) :
            /\ \A other \in Candidates(call.n, call.occupied, call.ram, Threshold, Gate,
                                       call.anon) : Ranks(best, other)
            /\ pl.contiguous = best.contiguous
            /\ best.node \in NumaNodes /\ pl.node = best.node
            /\ best.nfree = Cardinality(RoomOn(pl.node))
    BY AnswersAreBest
  <2>3. PICK other \in Candidates(call.n, call.occupied, call.ram, Threshold, Gate,
                                  call.anon) :
            other.contiguous = TRUE /\ other.nfree = Cardinality(RoomOn(node))
    BY <2>1, RunsAreOffered
  <2>4. best.nfree > other.nfree \/ best.nfree = other.nfree
    <3>1. Ranks(best, other)
      BY <2>2
    <3>2. QED BY <2>2, <2>3, <3>1 DEF Ranks
  <2>5. Cardinality(RoomOn(node)) \in Nat /\ Cardinality(RoomOn(pl.node)) \in Nat
    <3>1. \A nd \in NumaNodes : IsFiniteSet(RoomOn(nd))
      BY NumaAssumption, FS_Subset DEF RoomOn
    <3>2. QED BY <2>2, <3>1, FS_CardinalityType
  <2>6. QED BY <2>2, <2>3, <2>4, <2>5
<1>2. QED BY <1>1, CallsAnswered, PTL

-----------------------------------------------------------------------------
(***************************************************************************)
(* The blocks that MPI ranks are laid on are finite.                       *)
(***************************************************************************)
BlocksFinite ==
    \A s \in Slots : /\ ParseCpuList(held[s].cpu_list) \in SUBSET Nat
                     /\ IsFiniteSet(ParseCpuList(held[s].cpu_list))

(***************************************************************************)
(* Every step keeps BlocksFinite.                                          *)
(***************************************************************************)
LEMMA BlocksAreFinite == Spec => []BlocksFinite
<1> DEFINE Finite(pl) == /\ ParseCpuList(pl.cpu_list) \in SUBSET Nat
                         /\ IsFiniteSet(ParseCpuList(pl.cpu_list))
           IInv == held \in [Slots -> {pl \in [cpu_list: CpuLists, node: Nat \cup {-1}] :
                                         Finite(pl)}]
<1>1. None \in {pl \in [cpu_list: CpuLists, node: Nat \cup {-1}] : Finite(pl)}
  BY ParseOfEmpty, FS_EmptySet DEF None, CpuLists
<1>2. Init => IInv
  BY <1>1 DEF Init
<1>3. IInv /\ [Next]_vars => IInv'
  <2> SUFFICES ASSUME IInv, [Next]_vars PROVE IInv'
    OBVIOUS
  <2>1. CASE UNCHANGED held
    BY <2>1
  <2>2. ASSUME NEW s \in Slots, NEW req \in Requests, NEW anon, Place(s, req, anon)
        PROVE  IInv'
    <3>1. PICK pl \in Allocate(req, anon) :
              held' = [held EXCEPT ![s] = [cpu_list |-> pl.cpu_list, node |-> pl.node]]
      BY <2>2 DEF Place
    <3>2. pl.cpu_list \in CpuLists /\ pl.node \in Nat
          /\ IsFiniteSet(ParseCpuList(pl.cpu_list))
      BY PlacementsAreFree, NumaPoolAssumption DEF Allocate
    <3>3. Finite([cpu_list |-> pl.cpu_list, node |-> pl.node])
      BY <3>2, ParseTyped
    <3> HIDE DEF Finite
    <3>4. QED BY <3>1, <3>2, <3>3
  <2>3. ASSUME NEW s \in Slots, Release(s) PROVE IInv'
    BY <1>1, <2>3 DEF Release
  <2>4. ASSUME NEW s \in Slots, NEW req \in Requests, NEW anon \in Readings,
               Defer(s, req, anon)
        PROVE  UNCHANGED held
    BY <2>4 DEF Defer
  <2>5. QED BY <2>1, <2>2, <2>3, <2>4 DEF Next, vars
<1>4. IInv => BlocksFinite
  BY DEF BlocksFinite
<1>5. QED BY <1>2, <1>3, <1>4, PTL DEF Spec

(***************************************************************************)
(* A plan that rank_binding_plan returns is the one of RankCores.          *)
(***************************************************************************)
LEMMA PlanIs ==
    ASSUME NEW list, NEW nprocs \in 1 .. Cardinality(ParseCpuList(list)), NEW threads,
           IsFiniteSet(ParseCpuList(list))
    PROVE  RankBindingPlan(list, nprocs, threads)
             = {[rank \in 0 .. nprocs - 1 |->
                    RankCores(ParseCpuList(list), nprocs, threads, rank)]}
<1>1. Cardinality(ParseCpuList(list)) \in Nat
  BY FS_CardinalityType
<1>2. ~(nprocs < 1) /\ ~(Cardinality(ParseCpuList(list)) < nprocs)
  BY <1>1
<1>3. QED BY <1>2 DEF RankBindingPlan

(***************************************************************************)
(* Two ranks of a plan share a core only when each was promised more       *)
(* threads than the stride has cores.                                      *)
(***************************************************************************)
THEOREM RanksNeverShare == Spec => []RanksApartUpToStride
<1>1. BlocksFinite => RanksApartUpToStride
  <2> SUFFICES ASSUME BlocksFinite, NEW s \in Slots,
                      NEW nprocs \in 1 .. Cardinality(ParseCpuList(held[s].cpu_list)),
                      NEW threads \in {NoThreads} \cup
                            0 .. Stride(ParseCpuList(held[s].cpu_list), nprocs),
                      NEW plan \in RankBindingPlan(held[s].cpu_list, nprocs, threads),
                      NEW q \in DOMAIN plan, NEW r \in DOMAIN plan, q # r
               PROVE  plan[q] \cap plan[r] = {}
    BY DEF RanksApartUpToStride
  <2> DEFINE block == ParseCpuList(held[s].cpu_list)
  <2>1. block \in SUBSET Nat /\ IsFiniteSet(block) /\ Cardinality(block) \in Nat
    BY FS_CardinalityType DEF BlocksFinite
  <2>2. plan = [rank \in 0 .. nprocs - 1 |-> RankCores(block, nprocs, threads, rank)]
    BY <2>1, PlanIs
  <2>3. /\ nprocs \in Nat \ {0} /\ nprocs <= Cardinality(block)
        /\ threads \in Int /\ threads <= Stride(block, nprocs)
    <3>1. nprocs \in Nat \ {0} /\ nprocs <= Cardinality(block)
      BY <2>1
    <3>2. Stride(block, nprocs) \in Nat
      BY <2>1, <3>1, DivFacts DEF Stride
    <3>3. QED BY <3>1, <3>2 DEF NoThreads
  <2>4. q \in 0 .. nprocs - 1 /\ r \in 0 .. nprocs - 1
    BY <2>2
  <2> HIDE DEF block
  <2>5. RankCores(block, nprocs, threads, q) \cap RankCores(block, nprocs, threads, r) = {}
    BY <2>1, <2>3, <2>4, RanksApart
  <2>6. QED BY <2>2, <2>4, <2>5
<1>2. QED BY <1>1, BlocksAreFinite, PTL

(***************************************************************************)
(* The rankfile of a default plan gives every rank cores and every core of *)
(* the block to one rank.                                                  *)
(***************************************************************************)
THEOREM RankfilesPartition == Spec => []RanksPartitionBlock
<1>1. BlocksFinite => RanksPartitionBlock
  <2> SUFFICES ASSUME BlocksFinite, NEW s \in Slots,
                      NEW nprocs \in 1 .. Cardinality(ParseCpuList(held[s].cpu_list))
               PROVE  \E plan \in RankBindingPlan(held[s].cpu_list, nprocs, NoThreads) :
                        LET slots == OpenmpiRankfile(plan)
                        IN  /\ DOMAIN slots = 0 .. nprocs - 1
                            /\ UNION {ParseCpuList(slots[r]) : r \in DOMAIN slots}
                                 = ParseCpuList(held[s].cpu_list)
                            /\ \A q, r \in DOMAIN slots :
                                 q # r => ParseCpuList(slots[q]) \cap ParseCpuList(slots[r]) = {}
    BY DEF RanksPartitionBlock
  <2> DEFINE block == ParseCpuList(held[s].cpu_list)
             plan  == [rank \in 0 .. nprocs - 1 |-> RankCores(block, nprocs, NoThreads, rank)]
  <2>1. block \in SUBSET Nat /\ IsFiniteSet(block) /\ Cardinality(block) \in Nat
    BY FS_CardinalityType DEF BlocksFinite
  <2>2. plan \in RankBindingPlan(held[s].cpu_list, nprocs, NoThreads)
    BY <2>1, PlanIs
  <2>3. nprocs \in Nat \ {0} /\ nprocs <= Cardinality(block)
    BY <2>1
  <2>4. NoThreads \in Int /\ NoThreads <= Stride(block, nprocs)
    <3>1. Stride(block, nprocs) \in Nat
      BY <2>1, <2>3, DivFacts DEF Stride
    <3>2. QED BY <3>1 DEF NoThreads
  <2> HIDE DEF block
  <2>5. \A r \in 0 .. nprocs - 1 : plan[r] # {} /\ plan[r] \in SUBSET Nat /\ IsFiniteSet(plan[r])
    <3> SUFFICES ASSUME NEW r \in 0 .. nprocs - 1
                 PROVE  plan[r] # {} /\ plan[r] \in SUBSET Nat /\ IsFiniteSet(plan[r])
      OBVIOUS
    <3>1. plan[r] \subseteq block
      BY RankCoresInBlock
    <3>2. plan[r] # {}
      BY <2>1, <2>3, RanksHaveCores
    <3> HIDE DEF plan
    <3>3. QED BY <2>1, <3>1, <3>2, FS_Subset
  <2>6. \A q, r \in 0 .. nprocs - 1 : q # r => plan[q] \cap plan[r] = {}
    BY <2>1, <2>3, <2>4, RanksApart
  <2>7. UNION {plan[r] : r \in 0 .. nprocs - 1} = block
    <3>1. UNION {RankCores(block, nprocs, NoThreads, rank) : rank \in 0 .. nprocs - 1} = block
      BY <2>1, <2>3, RanksCover
    <3>2. QED BY <3>1
  <2>8. DOMAIN plan = 0 .. nprocs - 1
    OBVIOUS
  <2> HIDE DEF plan
  <2> DEFINE slots == OpenmpiRankfile(plan)
  <2>9. DOMAIN slots = 0 .. nprocs - 1
    BY <2>5, <2>8 DEF OpenmpiRankfile
  <2>10. \A r \in 0 .. nprocs - 1 : ParseCpuList(slots[r]) = plan[r]
    <3>1. \A r \in 0 .. nprocs - 1 : slots[r] = FormatCpuList(plan[r])
      BY <2>5, <2>8 DEF OpenmpiRankfile
    <3> HIDE DEF slots
    <3>2. QED BY <2>5, <3>1, RoundTrip
  <2> HIDE DEF slots
  <2>11. /\ UNION {ParseCpuList(slots[r]) : r \in DOMAIN slots} = block
         /\ \A q, r \in DOMAIN slots :
              q # r => ParseCpuList(slots[q]) \cap ParseCpuList(slots[r]) = {}
    BY <2>6, <2>7, <2>9, <2>10
  <2>12. QED BY <2>2, <2>9, <2>11 DEF slots, block
<1>2. QED BY <1>1, BlocksAreFinite, PTL

-----------------------------------------------------------------------------
(***************************************************************************)
(* allocate answers None only when it must: every node lacks the cores, or *)
(* its memory reading is over the gate's safe cap for a job that will not  *)
(* interleave, whatever is held and however the nodes are fragmented.      *)
(***************************************************************************)
THEOREM RefusalsAreJust == Spec => []RefusesOnlyWhenFull
<1>1. CallAnswered => RefusesOnlyWhenFull
  <2> SUFFICES ASSUME CallAnswered, call # NoCall, call.result = {}, NEW node \in NumaNodes
               PROVE  \/ Cardinality(RoomOn(node)) < call.n
                      \/ ~Ungated /\ call.anon[node] + call.ram > Gate.cap - Gate.safety
    BY DEF RefusesOnlyWhenFull
  <2>1. /\ call.n \in Int /\ call.ram \in Int /\ call.anon \in [NumaNodes -> Int]
        /\ Placements(call.n, call.occupied, call.ram, Threshold, Gate, call.anon) = {}
    BY DEF CallAnswered
  <2>2. \/ Cardinality(Free(node, call.occupied)) < call.n
        \/ ~NodeAdmits(node, call.ram, Gate, Gated(call.ram, Threshold, Gate), call.anon)
    BY <2>1, RefusedWhenFull
  <2>3. CASE Cardinality(Free(node, call.occupied)) < call.n
    BY <2>3 DEF Free, RoomOn
  <2>4. CASE ~NodeAdmits(node, call.ram, Gate, Gated(call.ram, Threshold, Gate), call.anon)
    <3>1. /\ Gate.cap > 0 /\ ~WillInterleave(call.ram, Threshold)
          /\ ~(call.anon[node] + call.ram <= Gate.cap - Gate.safety)
      BY <2>4 DEF NodeAdmits, Gated
    <3>2. QED BY <2>1, <3>1, NumaPoolAssumption DEF Ungated
  <2>5. QED BY <2>2, <2>3, <2>4
<1>2. QED BY <1>1, CallsAnswered, PTL
=============================================================================
