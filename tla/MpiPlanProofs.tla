---------------------------- MODULE MpiPlanProofs ----------------------------
(***************************************************************************)
(* What rank_binding_plan returns, for every block and number of ranks.    *)
(***************************************************************************)
EXTENDS MpiPlan, CpuListProofs

(***************************************************************************)
(* The integer division of a block: the strides of all ranks fit in it.    *)
(***************************************************************************)
LEMMA DivFacts ==
    ASSUME NEW a \in Nat, NEW b \in Nat \ {0}
    PROVE  a \div b \in Nat /\ b * (a \div b) <= a /\ (b <= a => a \div b >= 1)
OBVIOUS

(***************************************************************************)
(* Slices of a sorted block that do not overlap as index ranges share no   *)
(* core.                                                                   *)
(***************************************************************************)
LEMMA SlicesApart ==
    ASSUME NEW S \in SUBSET Nat, IsFiniteSet(S), NEW lo \in Nat, NEW hi \in Nat,
           NEW from \in Nat, NEW to \in Nat, hi <= from
    PROVE  Slice(S, lo, hi) \cap Slice(S, from, to) = {}
<1> DEFINE place(c) == Cardinality({d \in S : d < c})
<1>1. \A c \in S : place(c) \in Nat
  <2>1. \A c \in S : {d \in S : d < c} \in SUBSET S
    OBVIOUS
  <2>2. QED BY <2>1, FS_Subset, FS_CardinalityType
<1>2. FirstN(S, hi) \subseteq FirstN(S, from)
  <2>1. \A n : FirstN(S, n) = {c \in S : place(c) < n}
    BY DEF FirstN
  <2> HIDE DEF place
  <2>2. \A c \in S : place(c) < hi => place(c) < from
    BY <1>1
  <2>3. QED BY <2>1, <2>2
<1>3. QED BY <1>2 DEF Slice

(***************************************************************************)
(* A rank's cores are cores of the block.                                  *)
(***************************************************************************)
LEMMA RankCoresInBlock ==
    ASSUME NEW cores, NEW nprocs, NEW threads, NEW rank
    PROVE  RankCores(cores, nprocs, threads, rank) \subseteq cores
BY DEF RankCores, Slice, FirstN

(***************************************************************************)
(* With at most the stride of threads per rank, a rank's cores end before  *)
(* those of the next begin.                                                *)
(***************************************************************************)
THEOREM RanksApart ==
    ASSUME NEW cores \in SUBSET Nat, IsFiniteSet(cores),
           NEW nprocs \in Nat \ {0}, nprocs <= Cardinality(cores),
           NEW threads \in Int, threads <= Stride(cores, nprocs),
           NEW q \in 0 .. nprocs - 1, NEW r \in 0 .. nprocs - 1, q # r
    PROVE  RankCores(cores, nprocs, threads, q) \cap RankCores(cores, nprocs, threads, r) = {}
<1> DEFINE size   == Cardinality(cores)
           stride == Stride(cores, nprocs)
           width  == Width(stride, threads)
<1>1. size \in Nat /\ stride \in Nat /\ stride >= 1
  BY FS_CardinalityType, DivFacts DEF Stride
<1>2. width \in Nat /\ width <= stride
  BY <1>1 DEF Width, NoThreads
<1> SUFFICES ASSUME NEW i \in 0 .. nprocs - 1, NEW j \in 0 .. nprocs - 1, i < j
             PROVE  RankCores(cores, nprocs, threads, i)
                      \cap RankCores(cores, nprocs, threads, j) = {}
  <2>1. q < r \/ r < q
    OBVIOUS
  <2>2. QED BY <2>1
<1> HIDE DEF stride, width, size
<1>3. /\ i * stride \in Nat /\ j * stride \in Nat /\ i * stride + width \in Nat
      /\ i * stride + width <= j * stride
  <2>1. i * stride \in Nat /\ j * stride \in Nat /\ (j - i - 1) * stride \in Nat
    BY <1>1
  <2>2. j * stride = i * stride + stride + (j - i - 1) * stride
    BY <1>1
  <2>3. QED BY <1>1, <1>2, <2>1, <2>2
<1>4. RankCores(cores, nprocs, threads, i) = Slice(cores, i * stride, i * stride + width)
  BY DEF RankCores, stride, width
<1>5. PICK to \in Nat : RankCores(cores, nprocs, threads, j) = Slice(cores, j * stride, to)
  <2>1. CASE j = nprocs - 1
    BY <1>1, <2>1 DEF RankCores, stride, size
  <2>2. CASE j # nprocs - 1
    <3>1. j * stride + width \in Nat
      BY <1>2, <1>3
    <3>2. QED BY <2>2, <3>1 DEF RankCores, stride, width
  <2>3. QED BY <2>1, <2>2
<1>6. QED BY <1>3, <1>4, <1>5, SlicesApart

(***************************************************************************)
(* By default no core is wasted: the rank of a core is the first whose     *)
(* stride ends after the core's place in the block, or else the last.      *)
(***************************************************************************)
THEOREM RanksCover ==
    ASSUME NEW cores \in SUBSET Nat, IsFiniteSet(cores),
           NEW nprocs \in Nat \ {0}, nprocs <= Cardinality(cores)
    PROVE  UNION {RankCores(cores, nprocs, NoThreads, rank) : rank \in 0 .. nprocs - 1} = cores
<1> DEFINE size   == Cardinality(cores)
           stride == Stride(cores, nprocs)
<1>1. size \in Nat /\ stride \in Nat
  BY FS_CardinalityType, DivFacts DEF Stride
<1> SUFFICES ASSUME NEW c \in cores
             PROVE  \E rank \in 0 .. nprocs - 1 : c \in RankCores(cores, nprocs, NoThreads, rank)
  BY RankCoresInBlock
<1> DEFINE below == {d \in cores : d < c}
           place == Cardinality(below)
           Ends  == {k \in Nat : k <= nprocs - 1 /\ (place < (k + 1) * stride \/ k = nprocs - 1)}
<1>2. place \in Nat /\ place < size
  <2>1. below \subseteq cores /\ c \notin below
    OBVIOUS
  <2>2. QED BY <2>1, FS_Subset, FS_CardinalityType
<1> HIDE DEF stride, size, place
<1>3. nprocs - 1 \in Ends
  OBVIOUS
<1>4. PICK k \in Ends : \A other \in Ends : k <= other
  <2>1. Ends # {} /\ Ends \in SUBSET Nat
    BY <1>3
  <2>2. QED BY <2>1, LeastOf
<1>5. k * stride <= place
  <2>1. CASE k = 0
    BY <1>1, <1>2, <2>1
  <2>2. CASE k # 0
    <3>1. k - 1 \in Nat /\ k - 1 \notin Ends /\ k - 1 <= nprocs - 1 /\ k - 1 # nprocs - 1
      BY <1>4, <2>2
    <3>2. ~(place < ((k - 1) + 1) * stride)
      BY <3>1
    <3>3. (k - 1) + 1 = k /\ k * stride \in Nat
      BY <1>1, <1>4
    <3>4. QED BY <1>2, <3>2, <3>3
  <2>3. QED BY <2>1, <2>2
<1>6. k \in 0 .. nprocs - 1
  BY <1>4
<1>7. c \in RankCores(cores, nprocs, NoThreads, k)
  <2>1. \A n \in Nat : c \in FirstN(cores, n) <=> place < n
    BY DEF FirstN, place
  <2>2. k * stride \in Nat /\ k * stride + stride \in Nat /\ (k + 1) * stride = k * stride + stride
    BY <1>1, <1>4
  <2>3. c \notin FirstN(cores, k * stride)
    BY <1>2, <1>5, <2>1, <2>2
  <2>4. CASE k = nprocs - 1
    <3>1. c \in FirstN(cores, size)
      BY <1>1, <1>2, <2>1
    <3>2. RankCores(cores, nprocs, NoThreads, k) = Slice(cores, k * stride, size)
      BY <2>4 DEF RankCores, stride, size
    <3>3. QED BY <2>3, <3>1, <3>2 DEF Slice
  <2>5. CASE k # nprocs - 1
    <3>1. place < k * stride + stride
      BY <1>4, <2>2, <2>5
    <3>2. c \in FirstN(cores, k * stride + stride)
      BY <2>1, <2>2, <3>1
    <3>3. RankCores(cores, nprocs, NoThreads, k) = Slice(cores, k * stride, k * stride + stride)
      BY <2>5 DEF RankCores, Width, stride
    <3>4. QED BY <2>3, <3>2, <3>3 DEF Slice
  <2>6. QED BY <2>4, <2>5
<1>8. QED BY <1>6, <1>7

(***************************************************************************)
(* By default every rank has a core: its slice is as long as the stride,   *)
(* and that of the last rank reaches from its start to the block's end.    *)
(***************************************************************************)
LEMMA RanksHaveCores ==
    ASSUME NEW cores \in SUBSET Nat, IsFiniteSet(cores),
           NEW nprocs \in Nat \ {0}, nprocs <= Cardinality(cores),
           NEW rank \in 0 .. nprocs - 1
    PROVE  RankCores(cores, nprocs, NoThreads, rank) # {}
<1> DEFINE size   == Cardinality(cores)
           stride == Stride(cores, nprocs)
<1>1. size \in Nat /\ stride \in Nat /\ stride >= 1 /\ nprocs * stride <= size
  BY FS_CardinalityType, DivFacts DEF Stride
<1> HIDE DEF size, stride
<1>2. /\ rank * stride \in Nat
      /\ rank * stride + stride <= size
  <2>1. /\ rank * stride \in Nat /\ nprocs * stride \in Nat
        /\ (nprocs - rank - 1) * stride \in Nat
    BY <1>1
  <2>2. nprocs * stride = rank * stride + stride + (nprocs - rank - 1) * stride
    BY <1>1
  <2>3. QED BY <1>1, <2>1, <2>2
<1>3. PICK hi \in Nat : /\ rank * stride < hi /\ hi <= size
                        /\ RankCores(cores, nprocs, NoThreads, rank)
                             = Slice(cores, rank * stride, hi)
  <2>1. CASE rank = nprocs - 1
    BY <1>1, <1>2, <2>1 DEF RankCores, size, stride
  <2>2. CASE rank # nprocs - 1
    <3>1. /\ rank * stride + stride \in Nat
          /\ rank * stride < rank * stride + stride
      BY <1>1, <1>2
    <3>2. RankCores(cores, nprocs, NoThreads, rank)
            = Slice(cores, rank * stride, rank * stride + stride)
      BY <2>2 DEF RankCores, Width, stride
    <3>3. QED BY <1>2, <3>1, <3>2
  <2>3. QED BY <2>1, <2>2
<1>4. /\ Cardinality(FirstN(cores, hi)) = hi
      /\ IsFiniteSet(FirstN(cores, rank * stride))
      /\ Cardinality(FirstN(cores, rank * stride)) = rank * stride
  BY <1>1, <1>2, <1>3, FirstNSize DEF size
<1>5. ~(FirstN(cores, hi) \subseteq FirstN(cores, rank * stride))
  <2>1. SUFFICES ASSUME FirstN(cores, hi) \subseteq FirstN(cores, rank * stride)
                 PROVE  hi <= rank * stride
    BY <1>2, <1>3
  <2>2. QED BY <1>4, <2>1, FS_Subset
<1>6. QED BY <1>3, <1>5 DEF Slice
=============================================================================
