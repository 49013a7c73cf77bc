---------------------------- MODULE CpuListProofs ----------------------------
(***************************************************************************)
(* Sets of core ids, their CPU-list strings and their sorted slices.       *)
(***************************************************************************)
EXTENDS CpuList, FiniteSetTheorems, WellFoundedInduction, TLAPS

(***************************************************************************)
(* A set of core ids that is not empty has a least one.                    *)
(***************************************************************************)
LEMMA LeastOf ==
    ASSUME NEW T \in SUBSET Nat, T # {}
    PROVE  \E m \in T : \A k \in T : m <= k
<1> DEFINE Less == {ss \in Nat \X Nat : ss[1] < ss[2]}
<1>1. IsWellFoundedOn(Less, Nat)
  BY NatLessThanWellFounded, Zenon DEF OpToRel
<1>2. PICK m \in T : \A k \in T : ~(<<k, m>> \in Less)
  <2> HIDE DEF Less
  <2>1. QED BY <1>1, WFMin
<1>3. ASSUME NEW k \in T, k < m PROVE FALSE
  <2>1. <<k, m>> \in Nat \X Nat /\ <<k, m>>[1] < <<k, m>>[2]
    BY <1>3
  <2>2. <<k, m>> \in Less
    BY <2>1, Zenon
  <2>3. QED BY <1>2, <2>2
<1>4. QED BY <1>3

(***************************************************************************)
(* The CPU-list string of a set of cores names cores of the set and no     *)
(* others (format_cpu_list and parse_cpu_list).                            *)
(***************************************************************************)
LEMMA FormatTyped ==
    ASSUME NEW S \in SUBSET Nat
    PROVE  FormatCpuList(S) \in CpuLists
BY DEF FormatCpuList, CpuLists

(***************************************************************************)
(* What the parser reads from a list is a set of non-negative core ids.    *)
(***************************************************************************)
LEMMA ParseTyped ==
    ASSUME NEW list \in CpuLists
    PROVE  ParseCpuList(list) \in SUBSET Nat
<1>1. ASSUME NEW part \in list PROVE part[1] .. part[2] \subseteq Nat
  BY <1>1 DEF CpuLists
<1>2. QED BY <1>1 DEF ParseCpuList

(***************************************************************************)
(* A set written as a CPU list and read back has no new core.              *)
(***************************************************************************)
LEMMA ParseOfFormat ==
    ASSUME NEW S \in SUBSET Nat
    PROVE  ParseCpuList(FormatCpuList(S)) \subseteq S
BY DEF ParseCpuList, FormatCpuList, IsRun

(***************************************************************************)
(* And for a finite set none is lost: every core lies in a maximal run,    *)
(* which ends where an interval longer than the set must leave it.         *)
(***************************************************************************)
THEOREM RoundTrip ==
    ASSUME NEW S \in SUBSET Nat, IsFiniteSet(S)
    PROVE  ParseCpuList(FormatCpuList(S)) = S
<1> SUFFICES ASSUME NEW c \in S
             PROVE  \E run \in FormatCpuList(S) : c \in run[1] .. run[2]
  BY ParseOfFormat DEF ParseCpuList
<1>1. c \in Nat /\ Cardinality(S) \in Nat
  BY FS_CardinalityType
<1> DEFINE Ends == {y \in Nat : c <= y /\ y + 1 \notin S}
           Begins == {x \in Nat : x <= c /\ x .. c \subseteq S}
<1>2. Ends # {}
  <2> DEFINE far == c + Cardinality(S)
  <2>1. ~(c .. far \subseteq S)
    <3>1. Cardinality(c .. far) = Cardinality(S) + 1
      BY <1>1, FS_Interval
    <3>2. QED BY <1>1, <3>1, FS_Subset
  <2>2. PICK z \in c .. far : z \notin S
    BY <2>1
  <2>3. z # c /\ z - 1 \in Nat /\ c <= z - 1
    BY <1>1, <2>2
  <2>4. z - 1 \in Ends
    BY <1>1, <2>2, <2>3
  <2>5. QED BY <2>4
<1>3. PICK hi \in Ends : \A y \in Ends : hi <= y
  BY <1>2, LeastOf
<1>4. c .. hi \subseteq S
  <2> SUFFICES ASSUME NEW z \in c .. hi, z \notin S PROVE FALSE
    OBVIOUS
  <2>1. z - 1 \in Nat /\ c <= z - 1 /\ z - 1 < hi
    BY <1>1, <1>3
  <2>2. z - 1 \in Ends
    BY <1>1, <2>1
  <2>3. QED BY <1>3, <2>1, <2>2
<1>5. Begins # {}
  BY <1>1
<1>6. PICK lo \in Begins : \A x \in Begins : lo <= x
  BY <1>5, LeastOf
<1>7. lo - 1 \notin S
  <2> SUFFICES ASSUME lo - 1 \in S PROVE FALSE
    OBVIOUS
  <2>1. lo - 1 \in Nat /\ (lo - 1) .. c \subseteq S
    BY <1>1, <1>6
  <2>2. lo - 1 \in Begins
    BY <1>1, <1>6, <2>1
  <2>3. QED BY <1>6, <2>1, <2>2
<1>8. lo \in S /\ hi \in S /\ lo .. hi \subseteq S /\ lo <= hi /\ c \in lo .. hi
  BY <1>1, <1>3, <1>4, <1>6
<1>9. <<lo, hi>> \in FormatCpuList(S)
  BY <1>3, <1>7, <1>8 DEF FormatCpuList, IsRun
<1>10. QED BY <1>8, <1>9

(***************************************************************************)
(* The empty string names no core.                                         *)
(***************************************************************************)
LEMMA ParseOfEmpty == ParseCpuList({}) = {}
BY DEF ParseCpuList

(***************************************************************************)
(* The n smallest of at least n ids are n: else take the least k for which *)
(* the k smallest are not k; the k - 1 smallest leave an id over, and the  *)
(* least of those makes them k.                                            *)
(***************************************************************************)
LEMMA FirstNSize ==
    ASSUME NEW S \in SUBSET Nat, IsFiniteSet(S), NEW n \in Nat, n <= Cardinality(S)
    PROVE  IsFiniteSet(FirstN(S, n)) /\ Cardinality(FirstN(S, n)) = n
<1>0. Cardinality(S) \in Nat
  BY FS_CardinalityType
<1> DEFINE Below(x) == {d \in S : d < x}
           Wrong == {k \in Nat : k <= Cardinality(S) /\ Cardinality(FirstN(S, k)) # k}
<1>1. /\ \A x \in Nat, d \in S : d \in Below(x) <=> d < x
      /\ \A k \in Nat : \A x : x \in FirstN(S, k) <=> x \in S /\ Cardinality(Below(x)) < k
  BY DEF FirstN
<1>2. \A x : /\ Below(x) \in SUBSET S
             /\ IsFiniteSet(Below(x)) /\ Cardinality(Below(x)) \in Nat
  BY FS_Subset, FS_CardinalityType
<1>3. \A k : FirstN(S, k) \in SUBSET S /\ IsFiniteSet(FirstN(S, k))
  BY FS_Subset DEF FirstN
<1> HIDE DEF Below
<1>4. SUFFICES ASSUME Wrong # {} PROVE FALSE
  BY <1>3
<1>5. PICK k \in Wrong : \A m \in Wrong : k <= m
  BY <1>4, LeastOf
<1>6. k \in Nat /\ k - 1 \in Nat
  <2>1. FirstN(S, 0) = {}
    BY <1>1, <1>2
  <2>2. QED BY <1>5, <2>1, FS_EmptySet
<1>7. Cardinality(FirstN(S, k - 1)) = k - 1
  BY <1>0, <1>5, <1>6
<1> DEFINE less == FirstN(S, k - 1)
           rest == S \ less
<1>8. rest # {} /\ rest \in SUBSET Nat
  <2>1. S # less
    BY <1>0, <1>5, <1>6, <1>7
  <2>2. less \subseteq S
    BY <1>3
  <2>3. QED BY <2>1, <2>2
<1>9. PICK x \in rest : \A y \in rest : x <= y
  BY <1>8, LeastOf
<1>10. x \in S /\ x \in Nat /\ x \notin less /\ \A e \in S : e \in Nat
  BY <1>9
<1>11. \A e \in S \ less : x <= e
  BY <1>9
<1> HIDE DEF less
<1>12. Below(x) = less
  <2>1. ASSUME NEW d \in Below(x), d \notin less PROVE FALSE
    <3>1. d \in S /\ d \in Nat /\ d < x
      BY <1>1, <1>2, <1>10
    <3>2. QED BY <1>10, <1>11, <2>1, <3>1
  <2>2. ASSUME NEW e \in less, ~(e < x) PROVE FALSE
    <3>0. e \in S /\ e \in Nat
      BY <1>3, <1>10 DEF less
    <3>1. x <= e
      BY <1>10, <2>2, <3>0
    <3>2. Below(x) \subseteq Below(e)
      <4>1. ASSUME NEW d \in Below(x) PROVE d \in Below(e)
        <5>1. d \in S /\ d \in Nat /\ d < x
          BY <1>1, <1>2, <1>10
        <5>2. d < e
          BY <1>10, <3>0, <3>1, <5>1
        <5>3. QED BY <1>1, <3>0, <5>1, <5>2
      <4>2. QED BY <4>1
    <3>3. Cardinality(Below(x)) <= Cardinality(Below(e))
      BY <1>2, <3>2, FS_Subset
    <3>4. Cardinality(Below(e)) < k - 1
      BY <1>1, <1>6 DEF less
    <3>5. x \in less
      BY <1>1, <1>2, <1>6, <1>10, <3>3, <3>4 DEF less
    <3>6. QED BY <1>10, <3>5
  <2>3. less \subseteq S
    BY <1>3 DEF less
  <2>4. QED BY <1>1, <2>1, <2>2, <2>3
<1>13. FirstN(S, k) = less \cup {x}
  <2>1. ASSUME NEW y \in less PROVE y \in FirstN(S, k)
    BY <1>1, <1>2, <1>6, <2>1 DEF less
  <2>2. x \in FirstN(S, k)
    BY <1>1, <1>6, <1>7, <1>10, <1>12 DEF less
  <2>3. ASSUME NEW y \in S, y \notin less, y # x PROVE y \notin FirstN(S, k)
    <3>1. y \in Nat /\ x < y
      BY <1>10, <1>11, <2>3
    <3>2. Below(x) \cup {x} \subseteq Below(y)
      <4>1. x \in Below(y)
        BY <1>1, <1>10, <3>1
      <4>2. ASSUME NEW d \in Below(x) PROVE d \in Below(y)
        <5>1. d \in S /\ d \in Nat /\ d < x
          BY <1>1, <1>2, <1>10
        <5>2. d < y
          BY <1>10, <3>1, <5>1
        <5>3. QED BY <1>1, <3>1, <5>1, <5>2
      <4>3. QED BY <4>1, <4>2
    <3>3. Cardinality(Below(x) \cup {x}) = k
      <4>1. x \notin Below(x)
        BY <1>1, <1>10
      <4>2. Cardinality(Below(x) \cup {x}) = Cardinality(Below(x)) + 1
        BY <1>2, <4>1, FS_AddElement
      <4>3. QED BY <1>6, <1>7, <1>12, <4>2 DEF less
    <3>4. k <= Cardinality(Below(y))
      BY <1>2, <3>2, <3>3, FS_Subset
    <3>5. QED BY <1>1, <1>2, <1>6, <3>4
  <2>4. QED BY <1>1, <1>10, <2>1, <2>2, <2>3
<1>14. Cardinality(FirstN(S, k)) = k
  <2>1. Cardinality(less \cup {x}) = Cardinality(less) + 1
    BY <1>3, <1>10, FS_AddElement DEF less
  <2>2. QED BY <1>6, <1>7, <1>13, <2>1 DEF less
<1>15. QED BY <1>5, <1>14
=============================================================================
