------------------------------ MODULE BudgetProofs ------------------------------
(***************************************************************************)
(* What admission promises of the sums it adds up: cores, declared memory  *)
(* and the memory of the slice.  The community modules compute a sum by a  *)
(* fold, the value of a function on the subsets of a set that is chosen by *)
(* its equation; the first section shows that this function exists and is  *)
(* unique for a finite set, and so that one element more adds its weight.  *)
(***************************************************************************)
EXTENDS HostProofs

-----------------------------------------------------------------------------
(* Sums over finite sets, as the fold of the community modules computes them. *)

\* The element that the fold takes first.
Choice(s) == CHOOSE x \in s : TRUE

\* f is the fold's function on the subsets of S.
Adds(weight, f, S) ==
    f = [s \in SUBSET S |-> IF s = {} THEN 0
                            ELSE weight[Choice(s)] + f[s \ {Choice(s)}]]

\* The fold's value: the sum of the weights of S.
Total(weight, S) == (CHOOSE f : Adds(weight, f, S))[S]

(***************************************************************************)
(* A set without its chosen element is smaller.                            *)
(***************************************************************************)
LEMMA ChoiceRemoved ==
    ASSUME NEW s, IsFiniteSet(s), s # {}
    PROVE  /\ Choice(s) \in s /\ IsFiniteSet(s \ {Choice(s)})
           /\ Cardinality(s \ {Choice(s)}) < Cardinality(s)
           /\ Cardinality(s) \in Nat /\ Cardinality(s \ {Choice(s)}) \in Nat
<1>1. Choice(s) \in s
  BY DEF Choice
<1>2. IsFiniteSet(s \ {Choice(s)}) /\ Cardinality(s \ {Choice(s)}) = Cardinality(s) - 1
  BY <1>1, FS_RemoveElement
<1>3. Cardinality(s) \in Nat /\ Cardinality(s \ {Choice(s)}) \in Nat
  BY <1>2, FS_CardinalityType
<1>4. QED BY <1>1, <1>2, <1>3

(***************************************************************************)
(* Such a function is unique: two agree on the subsets they share.         *)
(***************************************************************************)
LEMMA AddsOnce ==
    ASSUME NEW weight, NEW S, IsFiniteSet(S), NEW f, Adds(weight, f, S),
           NEW T \in SUBSET S, NEW g, Adds(weight, g, T)
    PROVE  \A s \in SUBSET T : f[s] = g[s]
<1> DEFINE Bad == {n \in Nat : \E s \in SUBSET T : Cardinality(s) = n /\ f[s] # g[s]}
<1>1. \A s \in SUBSET T : IsFiniteSet(s) /\ Cardinality(s) \in Nat
  BY FS_Subset, FS_CardinalityType
<1>2. SUFFICES ASSUME Bad # {} PROVE FALSE
  BY <1>1
<1>3. PICK n \in Bad : \A m \in Bad : n <= m
  BY <1>2, LeastOf
<1>4. PICK s \in SUBSET T : Cardinality(s) = n /\ f[s] # g[s]
  BY <1>3
<1>5. CASE s = {}
  BY <1>4, <1>5 DEF Adds
<1>6. CASE s # {}
  <2> DEFINE r == s \ {Choice(s)}
  <2>1. r \in SUBSET T /\ Cardinality(r) < n /\ Cardinality(r) \in Nat
    BY <1>1, <1>4, <1>6, ChoiceRemoved
  <2>2. f[r] = g[r]
    <3>1. \A m \in Bad : ~(m < n)
      BY <1>3
    <3>2. QED BY <2>1, <3>1
  <2>3. f[s] = weight[Choice(s)] + f[r] /\ g[s] = weight[Choice(s)] + g[r]
    BY <1>4, <1>6 DEF Adds
  <2>4. QED BY <1>4, <2>2, <2>3
<1>7. QED BY <1>5, <1>6

(***************************************************************************)
(* So any of them gives the total.                                         *)
(***************************************************************************)
LEMMA TotalOfAdds ==
    ASSUME NEW weight, NEW S, IsFiniteSet(S), NEW f, Adds(weight, f, S), NEW T \in SUBSET S
    PROVE  Total(weight, T) = f[T]
<1> DEFINE g == [s \in SUBSET T |-> f[s]]
<1>1. Adds(weight, g, T)
  <2> SUFFICES ASSUME NEW s \in SUBSET T
               PROVE  f[s] = IF s = {} THEN 0 ELSE weight[Choice(s)] + g[s \ {Choice(s)}]
    BY DEF Adds
  <2>1. f[s] = IF s = {} THEN 0 ELSE weight[Choice(s)] + f[s \ {Choice(s)}]
    BY DEF Adds
  <2>2. g[s \ {Choice(s)}] = f[s \ {Choice(s)}]
    OBVIOUS
  <2>3. QED BY <2>1, <2>2
<1>2. PICK h : h = CHOOSE k : Adds(weight, k, T)
  OBVIOUS
<1>3. Adds(weight, h, T)
  BY <1>1, <1>2
<1>4. f[T] = h[T]
  BY <1>3, AddsOnce
<1>5. QED BY <1>2, <1>4 DEF Total

(***************************************************************************)
(* There is one for every finite set.                                      *)
(***************************************************************************)
LEMMA AddsExists ==
    ASSUME NEW weight, NEW S, IsFiniteSet(S)
    PROVE  \E f : Adds(weight, f, S)
<1> DEFINE Bad == {n \in Nat : \E T \in SUBSET S :
                                  Cardinality(T) = n /\ ~\E f : Adds(weight, f, T)}
<1>1. \A T \in SUBSET S : IsFiniteSet(T) /\ Cardinality(T) \in Nat
  BY FS_Subset, FS_CardinalityType
<1>2. SUFFICES ASSUME Bad # {} PROVE FALSE
  BY <1>1
<1>3. PICK n \in Bad : \A m \in Bad : n <= m
  BY <1>2, LeastOf
<1>4. PICK T \in SUBSET S : Cardinality(T) = n /\ ~\E f : Adds(weight, f, T)
  BY <1>3
<1> DEFINE f == [s \in SUBSET T |-> IF s = {} THEN 0
                                   ELSE weight[Choice(s)] + Total(weight, s \ {Choice(s)})]
<1>5. ASSUME NEW s \in SUBSET T, s # {}
      PROVE  f[s \ {Choice(s)}] = Total(weight, s \ {Choice(s)})
  <2> DEFINE r == s \ {Choice(s)}
  <2>1. /\ r \in SUBSET T /\ Cardinality(r) < n
        /\ Cardinality(r) \in Nat /\ IsFiniteSet(r)
    <3>1. IsFiniteSet(s) /\ Cardinality(s) <= Cardinality(T)
      BY <1>1, FS_Subset
    <3>2. QED BY <1>1, <1>4, <1>5, <3>1, ChoiceRemoved
  <2>2. PICK g : Adds(weight, g, r)
    <3>1. Cardinality(r) \notin Bad
      BY <1>3, <2>1
    <3>2. QED BY <2>1, <3>1
  <2>3. CASE r = {}
    <3>1. Total(weight, r) = g[r]
      BY <2>1, <2>2, TotalOfAdds
    <3>2. QED BY <2>2, <2>3, <3>1 DEF Adds
  <2>4. CASE r # {}
    <3>1. Total(weight, r) = g[r] /\ Total(weight, r \ {Choice(r)}) = g[r \ {Choice(r)}]
      BY <2>1, <2>2, TotalOfAdds
    <3>2. g[r] = weight[Choice(r)] + g[r \ {Choice(r)}]
      BY <2>2, <2>4 DEF Adds
    <3>3. QED BY <2>1, <2>4, <3>1, <3>2
  <2>5. QED BY <2>3, <2>4
<1>6. Adds(weight, f, T)
  <2>1. \A s \in SUBSET T : f[s] = IF s = {} THEN 0 ELSE weight[Choice(s)] + f[s \ {Choice(s)}]
    BY <1>5
  <2>2. QED BY <2>1 DEF Adds
<1>7. QED BY <1>4, <1>6

(***************************************************************************)
(* The sum over the empty set, and that over another by its chosen         *)
(* element.                                                                *)
(***************************************************************************)
LEMMA TotalStep ==
    ASSUME NEW weight, NEW S, IsFiniteSet(S)
    PROVE  /\ S = {} => Total(weight, S) = 0
           /\ S # {} => Total(weight, S) = weight[Choice(S)] + Total(weight, S \ {Choice(S)})
<1>1. PICK f : Adds(weight, f, S)
  BY AddsExists
<1>2. Total(weight, S) = f[S] /\ Total(weight, S \ {Choice(S)}) = f[S \ {Choice(S)}]
  BY <1>1, TotalOfAdds
<1>3. QED BY <1>1, <1>2 DEF Adds

(***************************************************************************)
(* A total is an integer, and one element more adds its weight.            *)
(***************************************************************************)
LEMMA TotalAdds ==
    ASSUME NEW D, NEW weight \in [D -> Int], NEW S \in SUBSET D, IsFiniteSet(S)
    PROVE  /\ Total(weight, S) \in Int
           /\ \A x \in D \ S : Total(weight, S \cup {x}) = Total(weight, S) + weight[x]
<1> DEFINE Good(T) == /\ Total(weight, T) \in Int
                      /\ \A x \in D \ T : Total(weight, T \cup {x}) = Total(weight, T) + weight[x]
           Bad == {n \in Nat : \E T \in SUBSET S : Cardinality(T) = n /\ ~Good(T)}
<1>1. \A T \in SUBSET S : IsFiniteSet(T) /\ Cardinality(T) \in Nat
  BY FS_Subset, FS_CardinalityType
<1> HIDE DEF Good
<1>2. SUFFICES ASSUME Bad # {} PROVE FALSE
  BY <1>1 DEF Good
<1>3. PICK n \in Bad : \A m \in Bad : n <= m
  BY <1>2, LeastOf
<1>4. PICK T \in SUBSET S : Cardinality(T) = n /\ ~Good(T)
  BY <1>3
<1>5. \A r \in SUBSET T : Cardinality(r) < n => Good(r)
  <2> SUFFICES ASSUME NEW r \in SUBSET T, Cardinality(r) < n PROVE Good(r)
    OBVIOUS
  <2>1. r \in SUBSET S /\ Cardinality(r) \in Nat
    BY <1>1
  <2>2. Cardinality(r) \notin Bad
    BY <1>3, <2>1
  <2>3. QED BY <2>1, <2>2
<1>6. Total(weight, T) \in Int
  <2>1. CASE T = {}
    <3>1. Total(weight, T) = 0
      BY <1>1, <2>1, TotalStep
    <3>2. QED BY <3>1
  <2>2. CASE T # {}
    <3>1. Good(T \ {Choice(T)}) /\ Choice(T) \in D
      BY <1>1, <1>4, <1>5, <2>2, ChoiceRemoved
    <3>2. Total(weight, T) = weight[Choice(T)] + Total(weight, T \ {Choice(T)})
      BY <1>1, <2>2, TotalStep
    <3>3. QED BY <3>1, <3>2 DEF Good
  <2>3. QED BY <2>1, <2>2
<1>7. ASSUME NEW x \in D \ T PROVE Total(weight, T \cup {x}) = Total(weight, T) + weight[x]
  <2> DEFINE U == T \cup {x}
             c == Choice(U)
  <2>1. /\ c \in U /\ IsFiniteSet(U) /\ U # {}
        /\ Total(weight, U) = weight[c] + Total(weight, U \ {c})
    <3>1. IsFiniteSet(U)
      BY <1>1, FS_AddElement
    <3>2. QED BY <3>1, ChoiceRemoved, TotalStep
  <2> HIDE DEF c
  <2>2. CASE c = x
    <3>1. U \ {c} = T
      BY <1>7, <2>2
    <3>2. Total(weight, U) = weight[x] + Total(weight, T)
      BY <2>1, <2>2, <3>1
    <3>3. weight[x] \in Int
      BY <1>7
    <3>4. QED BY <1>6, <3>2, <3>3
  <2>3. CASE c # x
    <3> DEFINE r == T \ {c}
    <3>1. c \in T /\ U \ {c} = r \cup {x} /\ r \cup {c} = T /\ r \in SUBSET T /\ x \notin r
      BY <1>7, <2>1, <2>3
    <3>2. Good(r)
      <4>1. Cardinality(r) = Cardinality(T) - 1
        BY <1>1, <3>1, FS_RemoveElement
      <4>2. Cardinality(r) < n
        BY <1>4, <4>1
      <4>3. QED BY <1>5, <3>1, <4>2
    <3>3. Total(weight, r \cup {x}) = Total(weight, r) + weight[x] /\ Total(weight, r) \in Int
      BY <1>7, <3>1, <3>2 DEF Good
    <3>4. Total(weight, T) = Total(weight, r) + weight[c]
      <4>1. c \in D \ r
        BY <3>1
      <4>2. Total(weight, r \cup {c}) = Total(weight, r) + weight[c]
        BY <3>2, <4>1 DEF Good
      <4>3. QED BY <3>1, <4>2
    <3>5. weight[c] \in Int /\ weight[x] \in Int
      BY <1>7, <3>1
    <3>6. Total(weight, U) = weight[c] + Total(weight, r \cup {x})
      BY <2>1, <3>1
    <3>7. QED BY <3>3, <3>4, <3>5, <3>6
  <2>4. QED BY <2>2, <2>3
<1>8. QED BY <1>4, <1>6, <1>7 DEF Good

-----------------------------------------------------------------------------
(* The budgets of admission. *)

(***************************************************************************)
(* The sums of admission are such totals.                                  *)
(***************************************************************************)
LEMMA SumsAreTotals ==
    ASSUME NEW list
    PROVE  /\ RunningCores(list) = Total(JobCores, Running(list))
           /\ RunningRam(list) = Total(JobRam, Running(list))
BY DEF RunningCores, RunningRam, MapThenSumSet, MapThenFoldSet, Total, Adds, Choice

(***************************************************************************)
(* A set has no larger total than one it is part of, where none of the     *)
(* weights is negative.                                                    *)
(***************************************************************************)
LEMMA TotalGrows ==
    ASSUME NEW D, NEW weight \in [D -> Int], \A x \in D : weight[x] >= 0,
           NEW S \in SUBSET D, IsFiniteSet(S), NEW T \in SUBSET S
    PROVE  0 <= Total(weight, T) /\ Total(weight, T) <= Total(weight, S)
<1> DEFINE Good(U, V) == 0 <= Total(weight, V) /\ Total(weight, V) <= Total(weight, U)
           Bad == {n \in Nat : \E U \in SUBSET S : \E V \in SUBSET U :
                                 Cardinality(U) = n /\ ~Good(U, V)}
<1>1. \A U \in SUBSET S : IsFiniteSet(U) /\ Cardinality(U) \in Nat
  BY FS_Subset, FS_CardinalityType
<1>2. \A U \in SUBSET S : Total(weight, U) \in Int
  <2> TAKE U \in SUBSET S
  <2>1. U \in SUBSET D /\ IsFiniteSet(U)
    BY <1>1
  <2>2. QED BY <2>1, TotalAdds
<1>3. SUFFICES ASSUME Bad # {} PROVE FALSE
  <2>1. Cardinality(S) \in Nat
    BY <1>1
  <2>2. QED BY <2>1
<1> HIDE DEF Good
<1>4. PICK n \in Bad : \A m \in Bad : n <= m
  BY <1>3, LeastOf
<1>5. PICK U \in SUBSET S : Cardinality(U) = n /\ \E V \in SUBSET U : ~Good(U, V)
  BY <1>4
<1>6. PICK V \in SUBSET U : ~Good(U, V)
  BY <1>5
<1>7. CASE U = {}
  <2>1. Total(weight, U) = 0 /\ U = V
    BY <1>1, <1>7, TotalStep
  <2>2. QED BY <1>6, <2>1 DEF Good
<1>8. CASE U # {}
  <2>1. PICK x : x \in U /\ (x \in V => U = V)
    BY <1>8
  <2> DEFINE W == U \ {x}
  <2>2. W \in SUBSET S /\ Cardinality(W) \in Nat /\ Cardinality(W) < n /\ U = W \cup {x}
    <3>1. Cardinality(W) = Cardinality(U) - 1
      BY <1>1, <2>1, FS_RemoveElement
    <3>2. QED BY <1>1, <1>5, <2>1, <3>1
  <2>3. Total(weight, U) = Total(weight, W) + weight[x]
    <3>1. W \in SUBSET D /\ IsFiniteSet(W) /\ x \in D \ W
      BY <1>1, <2>1, <2>2
    <3>2. Total(weight, W \cup {x}) = Total(weight, W) + weight[x]
      BY <3>1, TotalAdds
    <3>3. QED BY <2>2, <3>2
  <2>4. weight[x] \in Int /\ weight[x] >= 0
    BY <2>1
  <2>5. \A T2 \in SUBSET W : Good(W, T2)
    <3>1. \A m \in Bad : ~(m < n)
      BY <1>4
    <3>2. QED BY <2>2, <3>1
  <2>6. CASE V \in SUBSET W
    <3>1. Good(W, V)
      BY <2>5, <2>6
    <3>2. Total(weight, V) \in Int /\ Total(weight, W) \in Int
      BY <1>2, <2>2, <2>6
    <3>3. QED BY <1>6, <2>3, <2>4, <3>1, <3>2 DEF Good
  <2>7. CASE U = V
    <3>1. Good(W, W)
      BY <2>5
    <3>2. Total(weight, W) \in Int
      BY <1>2, <2>2
    <3>3. QED BY <1>6, <2>3, <2>4, <2>7, <3>1, <3>2 DEF Good
  <2>8. QED BY <2>1, <2>6, <2>7
<1>9. QED BY <1>7, <1>8

\* BudgetsKept of one list.
Within(list) == RunningCores(list) <= CoreBudget /\ (~Scoped => RunningRam(list) <= RamBudget)

\* What load_queue gives: sizes are not negative, and budgets left at zero or
\* less are derived from the host.  The memory slice's accounting is read only
\* when jobs run in it.
Sized ==
    /\ \A j \in Jobs : JobCores[j] >= 0 /\ JobRam[j] >= 0
    /\ CoreBudget >= 0
    /\ RamBudget >= 0
    /\ ~Scoped => \A meter \in Meters : meter.used = NoReading

(***************************************************************************)
(* A step keeps the running jobs within the budgets.                       *)
(***************************************************************************)
LEMMA WithinStep ==
    ASSUME Sized, NEW list \in JobLists, NEW new, Within(list),
           ListStep(list, new) \/ Released(list, new)
    PROVE  Within(new)
<1>0. /\ JobCores \in [Jobs -> Int] /\ JobRam \in [Jobs -> Int]
      /\ \A j \in Jobs : JobCores[j] >= 0 /\ JobRam[j] >= 0
      /\ CoreBudget \in Int /\ RamBudget \in Int
  BY QueueAssumption, AdmissionAssumption DEF Sized
<1>1. Running(list) \in SUBSET Jobs /\ IsFiniteSet(Running(list))
  BY QueueAssumption, FS_Subset DEF Running, With
<1>2. Total(JobCores, Running(list)) \in Int /\ Total(JobRam, Running(list)) \in Int
  BY <1>0, <1>1, TotalAdds
<1>3. CASE Running(new) \subseteq Running(list)
  <2>1. /\ Total(JobCores, Running(new)) <= Total(JobCores, Running(list))
        /\ Total(JobRam, Running(new)) <= Total(JobRam, Running(list))
    BY <1>0, <1>1, <1>3, TotalGrows
  <2>2. Total(JobCores, Running(new)) \in Int /\ Total(JobRam, Running(new)) \in Int
    <3>1. Running(new) \in SUBSET Jobs /\ IsFiniteSet(Running(new))
      BY <1>1, <1>3, FS_Subset
    <3>2. QED BY <1>0, <3>1, TotalAdds
  <2>3. QED BY <1>0, <1>2, <2>1, <2>2, SumsAreTotals DEF Within
<1>4. ASSUME NEW j \in Jobs, Running(new) = Running(list) \cup {j}, j \notin Running(list),
             CoresFit(list, j), NEW meter \in Readings, RamFits(list, j, meter)
      PROVE  Within(new)
  <2>1. j \in Jobs \ Running(list)
    BY <1>4
  <2>2. /\ RunningCores(new) = RunningCores(list) + JobCores[j]
        /\ RunningRam(new) = RunningRam(list) + JobRam[j]
    BY <1>0, <1>1, <1>4, <2>1, TotalAdds, SumsAreTotals
  <2>3. RunningCores(new) <= CoreBudget
    BY <1>4, <2>2 DEF CoresFit
  <2>4. ASSUME ~Scoped PROVE RunningRam(new) <= RamBudget
    <3>1. meter.used = NoReading
      BY <2>4 DEF Readings, Sized
    <3>2. QED BY <1>4, <2>2, <3>1 DEF RamFits
  <2>5. QED BY <2>3, <2>4 DEF Within
<1>5. QED BY <1>3, <1>4, RunningStep

(***************************************************************************)
(* Declared cores, and declared memory where no slice accounts for it,     *)
(* stay within the budgets through every order of launches, ends, crashes  *)
(* and restarts (can_launch's sums, counted anew for every launch of a     *)
(* pass).                                                                  *)
(***************************************************************************)
THEOREM BudgetsAlwaysKept ==
    ASSUME Sized
    PROVE  Spec => []BudgetsKept
<1>1. Within(Yaml)
  <2>1. Running(Yaml) = {}
    BY YamlStatus DEF Running, With
  <2>2. Total(JobCores, {}) = 0 /\ Total(JobRam, {}) = 0
    BY FS_EmptySet, TotalStep
  <2>3. QED BY <2>1, <2>2, SumsAreTotals DEF Within, Sized
<1>2. BudgetsKept <=> Within(jobs) /\ Within(file)
  BY DEF BudgetsKept, Within
<1>3. Init => BudgetsKept
  BY <1>1, <1>2 DEF Init
<1>4. TypeOK /\ Passes /\ BudgetsKept /\ [Next]_vars => BudgetsKept'
  <2> SUFFICES ASSUME TypeOK, Passes, BudgetsKept, [Next]_vars PROVE BudgetsKept'
    OBVIOUS
  <2>1. jobs \in JobLists /\ file \in JobLists
    BY DEF TypeOK
  <2>2. Within(jobs) /\ Within(file)
    BY <1>2
  <2>3. Within(jobs') /\ Within(file')
    BY <1>1, <2>1, <2>2, ListsMove, WithinStep
       DEF Rests, Saves, Loads, Works, Ending, Edited
  <2>4. QED BY <2>3 DEF BudgetsKept, Within
<1>5. QED BY <1>3, <1>4, TypeCorrect, PassesCorrect, PTL DEF Spec

-----------------------------------------------------------------------------
(* The order of a launch pass. *)

\* The set-up in which nothing becomes possible within a pass that was not when
\* it began: no pause file that goes, no cooldown that ends, no slice whose
\* processes end.
Calm ==
    /\ "pause" \notin Events /\ "oom" \notin Events /\ ~Scoped
    /\ \A j \in Jobs : JobCores[j] >= 0 /\ JobRam[j] >= 0

\* What a launch pass holds against job k.
Barred(list, k) ==
    \/ ~DepsSatisfied(list, k)
    \/ \E meter \in Readings : ~CanLaunch(list, k, paused, cooldown, meter)
    \/ Allocations(list, k) = {}

\* No OOM kill has been seen.
NoOom == ~journal /\ cooldown = 0 /\ sinceOom = OomCooldown

\* The pending jobs that the pass has dealt with are barred.
PassedOver == pc = "launch" => \A k \in Pending(jobs) \ todo : Barred(jobs, k)

\* The second list has at least the first one's load, and no job more is done.
Fuller(list, new) ==
    /\ Running(list) \subseteq Running(new)
    /\ OccupiedCores(list) \subseteq OccupiedCores(new)
    /\ \A j \in Jobs : new[j].status = "done" => list[j].status = "done"

(***************************************************************************)
(* A request that finds no block finds none when more cores are taken.     *)
(***************************************************************************)
LEMMA StillNoBlock ==
    ASSUME NEW list, NEW new, Fuller(list, new), NEW k \in Jobs, Allocations(list, k) = {}
    PROVE  Allocations(new, k) = {}
<1> DEFINE n == JobCores[k]
           Lacks(occupied) == \A node \in NumaNodes : Cardinality(Free(node, occupied)) < n
<1>1. /\ Unread \in [NumaNodes -> Int] /\ n \in Int
      /\ ~Gated(JobRam[k], InterleaveThreshold, NoGate)
  BY QueueAssumption DEF Unread, NoReading, Gated, NoGate
<1>2. \A node : NodeAdmits(node, JobRam[k], NoGate,
                            Gated(JobRam[k], InterleaveThreshold, NoGate), Unread)
  BY <1>1 DEF NodeAdmits
<1>3. \A occupied :
        Placements(n, occupied, JobRam[k], InterleaveThreshold, NoGate, Unread) = {}
          <=> n > 0 /\ Lacks(occupied)
  BY <1>1, <1>2, RefusedWhenFull
<1>4. n > 0 /\ Lacks(OccupiedCores(list))
  BY <1>3 DEF Allocations
<1>5. Lacks(OccupiedCores(new))
  <2> SUFFICES ASSUME NEW node \in NumaNodes
               PROVE  Cardinality(Free(node, OccupiedCores(new))) < n
    OBVIOUS
  <2> DEFINE A == Free(node, OccupiedCores(list))
             B == Free(node, OccupiedCores(new))
  <2>1. IsFiniteSet(A) /\ B \subseteq A
    BY NumaAssumption, FS_Subset DEF Free, Fuller
  <2>2. Cardinality(B) <= Cardinality(A) /\ Cardinality(A) \in Nat /\ Cardinality(B) \in Nat
    BY <2>1, FS_Subset, FS_CardinalityType
  <2>3. Cardinality(A) < n
    BY <1>4
  <2> HIDE DEF A, B
  <2>4. Cardinality(B) < n
    BY <1>1, <2>2, <2>3
  <2>5. QED BY <2>4 DEF B
<1>6. QED BY <1>3, <1>4, <1>5 DEF Allocations

(***************************************************************************)
(* What is barred on a list is barred on a fuller one.                     *)
(***************************************************************************)
LEMMA StillBarred ==
    ASSUME Calm, NEW list \in JobLists, NEW new \in JobLists, Fuller(list, new),
           NEW k \in Jobs, Barred(list, k)
    PROVE  Barred(new, k)
<1>1. CASE ~DepsSatisfied(list, k)
  BY <1>1 DEF DepsSatisfied, Fuller, Barred
<1>2. CASE Allocations(list, k) = {}
  BY <1>2, StillNoBlock DEF Barred
<1>3. ASSUME NEW meter \in Readings, ~CanLaunch(list, k, paused, cooldown, meter)
      PROVE  ~CanLaunch(new, k, paused, cooldown, meter)
  <2> SUFFICES ASSUME CanLaunch(new, k, paused, cooldown, meter) PROVE FALSE
    OBVIOUS
  <2>1. /\ Running(list) \subseteq Running(new)
        /\ Running(new) \in SUBSET Jobs /\ IsFiniteSet(Running(new))
    BY QueueAssumption, FS_Subset DEF Fuller, Running, With
  <2>2. ExclusiveFree(list, k)
    BY <2>1 DEF CanLaunch, ExclusiveFree
  <2>3. UnderCap(list)
    <3>1. /\ Cardinality(Running(list)) <= Cardinality(Running(new))
          /\ Cardinality(Running(list)) \in Nat /\ Cardinality(Running(new)) \in Nat
      BY <2>1, FS_Subset, FS_CardinalityType
    <3>2. QED BY <3>1, AdmissionAssumption DEF CanLaunch, UnderCap
  <2>4. /\ RunningCores(list) <= RunningCores(new) /\ RunningRam(list) <= RunningRam(new)
        /\ RunningCores(list) \in Int /\ RunningCores(new) \in Int
        /\ RunningRam(list) \in Int /\ RunningRam(new) \in Int
    <3>1. JobCores \in [Jobs -> Int] /\ JobRam \in [Jobs -> Int]
          /\ \A j \in Jobs : JobCores[j] >= 0 /\ JobRam[j] >= 0
      BY QueueAssumption DEF Calm
    <3>2. /\ Total(JobCores, Running(list)) <= Total(JobCores, Running(new))
          /\ Total(JobRam, Running(list)) <= Total(JobRam, Running(new))
      BY <2>1, <3>1, TotalGrows
    <3>3. IsFiniteSet(Running(list)) /\ Running(list) \in SUBSET Jobs
      BY <2>1, FS_Subset
    <3>4. QED BY <2>1, <3>1, <3>2, <3>3, TotalAdds, SumsAreTotals
  <2>5. CoresFit(list, k)
    BY <2>4, QueueAssumption, AdmissionAssumption DEF CanLaunch, CoresFit
  <2>6. RamFits(list, k, meter)
    BY <2>4, QueueAssumption, AdmissionAssumption DEF CanLaunch, RamFits
  <2>7. QED BY <1>3, <2>2, <2>3, <2>5, <2>6 DEF CanLaunch
<1>4. QED BY <1>1, <1>2, <1>3 DEF Barred

(***************************************************************************)
(* Without OOM kills the cooldown never runs.                              *)
(***************************************************************************)
LEMMA NoOomStep ==
    ASSUME "oom" \notin Events, NoOom, [Next]_vars
    PROVE  NoOom'
<1>1. \A code, hint : ~hint => Outcome(code, hint).reason # "oom_killed"
  BY DEF Outcome
<1>2. CASE Start \/ Rerun
  BY <1>2 DEF Start, Rerun, runnerVars, NoOom
<1>3. CASE Reconciled \/ Tick \/ Reaped \/ SkipsDone \/ PinsDone \/ EndTick
  BY <1>3 DEF Reconciled, Tick, Reaped, SkipsDone, PinsDone, EndTick, runnerVars, NoOom
<1>4. ASSUME NEW j \in Jobs,
             Reconcile(j) \/ StillRuns(j) \/ Skip(j) \/ Defer(j) \/ LaunchFails(j)
      PROVE  NoOom'
  BY <1>4 DEF Reconcile, StillRuns, Skip, Defer, LaunchFails, runnerVars, NoOom
<1>5. ASSUME NEW j \in Jobs, EnforcePin(j) PROVE NoOom'
  BY <1>5 DEF EnforcePin, NoOom
<1>6. ASSUME NEW j \in Jobs, Reap(j) PROVE NoOom'
  <2>1. Outcome(Returncode(jobs[j].session), journal).reason # "oom_killed"
    BY <1>1 DEF NoOom
  <2>2. QED BY <1>6, <2>1 DEF Reap, NoOom
<1>7. ASSUME NEW j \in Jobs, Launch(j) PROVE NoOom'
  BY <1>7 DEF Launch, StartProcess, NoOom
<1>8. CASE Stop \/ Crash \/ Reboot
  BY <1>8 DEF Stop, Crash, Reboot, Dies, OrphansAll, NoOom
<1>9. CASE World
  <2>1. CASE Host
    <3>1. ~journal'
      BY <2>1 DEF NoOom, Host, JobEnds, OomKill, KidsEnd, Grows, Drifts, ForeignStarts,
         ForeignEnds, JournalAges
    <3>2. CASE UNCHANGED orchVars
      BY <3>1, <3>2 DEF orchVars, NoOom
    <3>3. CASE TimePasses \/ Pause \/ \E j \in Jobs : Release(j)
      BY <3>3, OrchestratorAssumption DEF TimePasses, Pause, Release, runnerVars, NoOom
    <3>4. QED BY <1>9, <3>2, <3>3 DEF World
  <2>2. CASE TimePasses \/ Pause \/ \E j \in Jobs : Release(j)
    BY <2>2, OrchestratorAssumption DEF TimePasses, Pause, Release, runnerVars, NoOom
  <2>3. QED BY <1>9, <2>1, <2>2 DEF World
<1>10. CASE UNCHANGED vars
  BY <1>10 DEF vars, NoOom
<1>11. QED
  BY <1>2, <1>3, <1>4, <1>5, <1>6, <1>7, <1>8, <1>9, <1>10 DEF Next, Loop

(***************************************************************************)
(* Every step of a pass leaves the jobs it has passed over barred.         *)
(***************************************************************************)
LEMMA PassedOverStep ==
    ASSUME Calm, TypeOK, TypeOK', Passes, NoOom, NoOom', PassedOver, [Next]_vars
    PROVE  PassedOver'
<1>1. Readings' = Readings
  BY DEF Readings, Calm
<1>2. jobs \in JobLists /\ jobs' \in JobLists
  BY DEF TypeOK
<1>3. ASSUME NEW k \in Jobs, paused' = paused
      PROVE  Barred(jobs, k)' <=> Barred(jobs', k)
  <2>1. cooldown' = cooldown
    BY DEF NoOom, TypeOK
  <2>2. QED BY <1>1, <1>3, <2>1 DEF Barred
<1>4. ASSUME pc = "launch", jobs' = jobs, todo' = todo, paused' = paused PROVE PassedOver'
  BY <1>3, <1>4 DEF PassedOver, Pending, With
<1>5. ASSUME pc' # "launch" PROVE PassedOver'
  BY <1>5 DEF PassedOver
<1>6. CASE PinsDone
  BY <1>6 DEF PinsDone, PassedOver
<1>7. ASSUME NEW j \in Jobs, Defer(j) PROVE PassedOver'
  <2>1. /\ pc = "launch" /\ jobs' = jobs /\ paused' = paused
        /\ todo' = todo \ {j} /\ Barred(jobs, j)
    BY <1>7 DEF Defer, Barred
  <2>2. QED BY <1>3, <2>1 DEF PassedOver, Pending, With
<1>8. ASSUME NEW j \in Jobs, Launch(j) \/ LaunchFails(j) PROVE PassedOver'
  <2>1. /\ pc = "launch" /\ paused' = paused /\ todo' = todo \ {j}
        /\ jobs[j].status = "pending" /\ j \in todo
        /\ \A i \in Jobs \ {j} : jobs'[i] = jobs[i]
        /\ jobs'[j].status \in {"running", "failed"}
    <3>1. pc = "launch" /\ paused' = paused /\ todo' = todo \ {j} /\ j \in todo
      BY <1>8 DEF Launch, LaunchFails, Starts, FirstToLaunch
    <3>2. jobs[j].status = "pending"
      BY <3>1 DEF Passes, Pending, With
    <3>3. \E pl : jobs' = NotLaunched(jobs, j, pl) \/ \E p : jobs' = Launched(jobs, j, pl, p)
      BY <1>8 DEF Launch, LaunchFails
    <3>4. \A i \in Jobs \ {j} : jobs'[i] = jobs[i]
      BY <1>2, <3>3 DEF NotLaunched, Launched, JobLists
    <3>5. jobs[j] \in JobRecord /\ j \in DOMAIN jobs
      BY <1>2 DEF JobLists
    <3>6. \A pl : NotLaunched(jobs, j, pl)[j].status = "failed"
      BY <3>5 DEF NotLaunched, JobRecord
    <3>7. \A pl, p : Launched(jobs, j, pl, p)[j].status = "running"
      BY <3>5 DEF Launched, JobRecord
    <3>8. QED BY <3>1, <3>2, <3>3, <3>4, <3>6, <3>7
  <2>2. Fuller(jobs, jobs')
    BY <2>1 DEF Fuller, Running, With, OccupiedCores, Held
  <2>3. \A k \in Jobs : Barred(jobs, k) => Barred(jobs', k)
    BY <1>2, <2>2, StillBarred
  <2>4. QED BY <1>3, <2>1, <2>3 DEF PassedOver, Pending, With
<1>9. CASE World
  <2>1. ~Pause /\ ~TimePasses
    BY OrchestratorAssumption DEF Pause, TimePasses, Calm, NoOom
  <2>2. CASE pc = "launch"
    BY <1>4, <1>9, <2>1, <2>2 DEF World, Release, orchVars
  <2>3. CASE pc # "launch"
    BY <1>5, <1>9, <2>1, <2>3 DEF World, Release, orchVars
  <2>4. QED BY <2>2, <2>3
<1>10. CASE UNCHANGED vars
  BY <1>4, <1>5, <1>10 DEF vars
<1>11. ASSUME NEW j \in Jobs, Reconcile(j) \/ Reap(j) \/ StillRuns(j) \/ Skip(j) \/ EnforcePin(j)
       PROVE  pc' # "launch"
  BY <1>11 DEF Reconcile, Reap, StillRuns, Skip, EnforcePin, Visits
<1>12. CASE Start \/ Rerun \/ Reconciled \/ Tick \/ Reaped \/ SkipsDone \/ EndTick \/ Stop
              \/ Crash \/ Reboot
  BY <1>5, <1>12 DEF Start, Rerun, Reconciled, Tick, Reaped, SkipsDone, EndTick, Stop, Crash,
     Reboot, Dies
<1>13. QED BY <1>5, <1>6, <1>7, <1>8, <1>9, <1>10, <1>11, <1>12 DEF Next, Loop

(***************************************************************************)
(* Where nothing but launches changes what admission sees, a pass launches *)
(* no job over the head of a pending one before it in (priority, id) that  *)
(* could have had its place, whatever ends or fails to start meanwhile     *)
(* (_launch_pending: deferred jobs are never tried again in the pass).     *)
(***************************************************************************)
THEOREM NobodyIsOvertaken ==
    ASSUME Calm
    PROVE  Spec => NoOvertaking
<1>1. Init => NoOom /\ PassedOver
  BY DEF Init, RunnerInit, NoOom, PassedOver
<1>2. NoOom /\ [Next]_vars => NoOom'
  BY NoOomStep DEF Calm
<1>3. TypeOK /\ TypeOK' /\ Passes /\ NoOom /\ NoOom' /\ PassedOver /\ [Next]_vars => PassedOver'
  BY PassedOverStep
<1> DEFINE Fair == \A j, k \in Jobs :
         (/\ pc = "launch"
          /\ jobs[j].status = "pending" /\ jobs'[j].status = "running"
          /\ jobs[k].status = "pending"
          /\ \/ Priority[k] < Priority[j]
             \/ Priority[k] = Priority[j] /\ IdRank[k] < IdRank[j]) =>
            \/ ~DepsSatisfied(jobs, k)
            \/ \E meter \in Readings : ~CanLaunch(jobs, k, paused, cooldown, meter)
            \/ Allocations(jobs, k) = {}
<1>4. TypeOK /\ Passes /\ PassedOver /\ [Next]_vars => Fair
  <2> SUFFICES ASSUME TypeOK, Passes, PassedOver, [Next]_vars, NEW j \in Jobs, NEW k \in Jobs,
                      pc = "launch",
                      jobs[j].status = "pending", jobs'[j].status = "running",
                      jobs[k].status = "pending",
                      \/ Priority[k] < Priority[j]
                      \/ Priority[k] = Priority[j] /\ IdRank[k] < IdRank[j]
               PROVE  Barred(jobs, k)
    BY DEF Barred
  <2>1. PICK i \in Jobs : Launch(i) \/ LaunchFails(i)
    <3>1. jobs' # jobs /\ jobs' # Yaml
      BY YamlStatus
    <3>2. QED BY <3>1 DEF Next, Loop, World, Start, Rerun, Reconciled, Tick, Reaped, SkipsDone,
          PinsDone, EndTick, Reconcile, Reap, StillRuns, Skip, EnforcePin, Defer, Visits, Stop,
          Crash, Reboot, Dies, TimePasses, Pause, Release, orchVars, vars
  <2>2. i = j
    <3>1. \E pl : jobs' = NotLaunched(jobs, i, pl) \/ \E p : jobs' = Launched(jobs, i, pl, p)
      BY <2>1 DEF Launch, LaunchFails
    <3>2. QED BY <3>1 DEF NotLaunched, Launched, TypeOK, JobLists
  <2>3. FirstToLaunch(j, todo)
    BY <2>1, <2>2 DEF Launch, LaunchFails, Starts
  <2>4. k \notin todo
    BY <2>3, QueueAssumption DEF FirstToLaunch
  <2>5. QED BY <2>4 DEF PassedOver, Pending, With
<1>5. QED
  BY <1>1, <1>2, <1>3, <1>4, TypeCorrect, PassesCorrect, PTL DEF Spec, NoOvertaking

-----------------------------------------------------------------------------
(* The memory of the slice. *)

(***************************************************************************)
(* Smaller weights have a smaller total, and zeros one of zero.            *)
(***************************************************************************)
LEMMA TotalCompared ==
    ASSUME NEW D, NEW v \in [D -> Int], NEW w \in [D -> Int], NEW S \in SUBSET D, IsFiniteSet(S)
    PROVE  /\ (\A x \in S : v[x] <= w[x]) => Total(v, S) <= Total(w, S)
           /\ (\A x \in S : v[x] = 0) => Total(v, S) = 0
<1> DEFINE Good(T) == /\ (\A x \in T : v[x] <= w[x]) => Total(v, T) <= Total(w, T)
                      /\ (\A x \in T : v[x] = 0) => Total(v, T) = 0
           Bad == {n \in Nat : \E T \in SUBSET S : Cardinality(T) = n /\ ~Good(T)}
<1>1. \A T \in SUBSET S : IsFiniteSet(T) /\ Cardinality(T) \in Nat
  BY FS_Subset, FS_CardinalityType
<1> SUFFICES Good(S)
  OBVIOUS
<1> HIDE DEF Good
<1>2. SUFFICES ASSUME Bad # {} PROVE FALSE
  BY <1>1
<1>3. PICK n \in Bad : \A m \in Bad : n <= m
  BY <1>2, LeastOf
<1>4. PICK T \in SUBSET S : Cardinality(T) = n /\ ~Good(T)
  BY <1>3
<1>5. CASE T = {}
  <2>1. Total(v, T) = 0 /\ Total(w, T) = 0
    BY <1>1, <1>5, TotalStep
  <2>2. QED BY <1>4, <2>1 DEF Good
<1>6. CASE T # {}
  <2> DEFINE c == Choice(T)
             R == T \ {c}
  <2>1. c \in T /\ R \in SUBSET S /\ Cardinality(R) < n /\ Cardinality(R) \in Nat
    BY <1>1, <1>4, <1>6, ChoiceRemoved
  <2>2. Total(v, T) = v[c] + Total(v, R) /\ Total(w, T) = w[c] + Total(w, R)
    BY <1>1, <1>6, TotalStep
  <2>3. Good(R)
    <3>1. \A m \in Bad : ~(m < n)
      BY <1>3
    <3>2. QED BY <2>1, <3>1
  <2>4. v[c] \in Int /\ w[c] \in Int /\ Total(v, R) \in Int /\ Total(w, R) \in Int
    <3>1. R \in SUBSET D /\ IsFiniteSet(R) /\ c \in D
      BY <1>1, <2>1
    <3>2. QED BY <3>1, TotalAdds
  <2>5. \A x \in R : x \in T
    OBVIOUS
  <2> HIDE DEF c, R
  <2>6. (\A x \in T : v[x] <= w[x]) => Total(v, T) <= Total(w, T)
    BY <2>1, <2>2, <2>3, <2>4, <2>5 DEF Good
  <2>7. (\A x \in T : v[x] = 0) => Total(v, T) = 0
    BY <2>1, <2>2, <2>3, <2>4, <2>5 DEF Good
  <2>8. QED BY <1>4, <2>6, <2>7 DEF Good
<1>7. QED BY <1>5, <1>6

(***************************************************************************)
(* Where one weight alone may grow, the total grows no more than it.       *)
(***************************************************************************)
LEMMA TotalOneMore ==
    ASSUME NEW D, IsFiniteSet(D), NEW v \in [D -> Int], NEW w \in [D -> Int], NEW d \in D,
           \A x \in D \ {d} : v[x] <= w[x]
    PROVE  Total(v, D) <= Total(w, D) + (v[d] - w[d])
<1> DEFINE R == D \ {d}
<1>1. R \in SUBSET D /\ IsFiniteSet(R) /\ R \cup {d} = D /\ d \in D \ R
  BY FS_Subset
<1>2. Total(v, R) <= Total(w, R)
  BY <1>1, TotalCompared
<1>3. /\ Total(v, R \cup {d}) = Total(v, R) + v[d] /\ Total(w, R \cup {d}) = Total(w, R) + w[d]
      /\ Total(v, R) \in Int /\ Total(w, R) \in Int
  BY <1>1, TotalAdds
<1>4. v[d] \in Int /\ w[d] \in Int
  OBVIOUS
<1>5. Total(v, D) = Total(v, R) + v[d] /\ Total(w, D) = Total(w, R) + w[d]
  BY <1>1, <1>3
<1> HIDE DEF R
<1>6. PICK a, b : a = v[d] /\ b = w[d]
  OBVIOUS
<1>7. QED BY <1>2, <1>3, <1>4, <1>5, <1>6

\* What an entry of the process table owes in the end: Due, of this table or the
\* next.
OwedBy(proc) ==
    IF proc.state = "up" /\ proc.owner \in Jobs THEN JobRam[proc.owner] ELSE proc.mem

\* What the entries of a table hold and owe, and the folds over the two.
MemOf(table)  == [p \in Pids |-> table[p].mem]
OwedOf(table) == [p \in Pids |-> OwedBy(table[p])]

SumOf(table) ==
    (CHOOSE f : f = [s \in SUBSET Pids |->
                       IF s = {} THEN 0
                       ELSE table[Choice(s)].mem + f[s \ {Choice(s)}]])[Pids]

DuesOf(table) ==
    (CHOOSE f : f = [s \in SUBSET Pids |->
                       IF s = {} THEN 0
                       ELSE OwedBy(table[Choice(s)]) + f[s \ {Choice(s)}]])[Pids]

(***************************************************************************)
(* What the slice uses is such a total.                                    *)
(***************************************************************************)
LEMMA SliceIsTotal ==
    ASSUME IsFiniteSet(Pids), NEW table
    PROVE  SumOf(table) = Total(MemOf(table), Pids)
<1> DEFINE Sums(f) == f = [s \in SUBSET Pids |->
                             IF s = {} THEN 0
                             ELSE table[Choice(s)].mem + f[s \ {Choice(s)}]]
<1>1. \A s \in SUBSET Pids : s # {} => MemOf(table)[Choice(s)] = table[Choice(s)].mem
  BY DEF MemOf, Choice
<1>2. \A f : Sums(f) <=> Adds(MemOf(table), f, Pids)
  BY <1>1 DEF Adds
<1>3. \E f : Sums(f)
  BY <1>2, AddsExists
<1>4. PICK h : h = CHOOSE f : Sums(f)
  OBVIOUS
<1>5. Sums(h)
  BY <1>3, <1>4
<1>6. Adds(MemOf(table), h, Pids)
  BY <1>2, <1>5
<1>7. Total(MemOf(table), Pids) = h[Pids]
  BY <1>6, TotalOfAdds
<1>8. QED BY <1>4, <1>7 DEF SumOf

(***************************************************************************)
(* So is what it is committed to.                                          *)
(***************************************************************************)
LEMMA DuesAreTotal ==
    ASSUME IsFiniteSet(Pids), NEW table
    PROVE  DuesOf(table) = Total(OwedOf(table), Pids)
<1> DEFINE Sums(f) == f = [s \in SUBSET Pids |->
                             IF s = {} THEN 0
                             ELSE OwedBy(table[Choice(s)]) + f[s \ {Choice(s)}]]
<1>1. \A s \in SUBSET Pids : s # {} => OwedOf(table)[Choice(s)] = OwedBy(table[Choice(s)])
  BY DEF OwedOf, Choice
<1>2. \A f : Sums(f) <=> Adds(OwedOf(table), f, Pids)
  BY <1>1 DEF Adds
<1>3. \E f : Sums(f)
  BY <1>2, AddsExists
<1>4. PICK h : h = CHOOSE f : Sums(f)
  OBVIOUS
<1>5. Sums(h)
  BY <1>3, <1>4
<1>6. Adds(OwedOf(table), h, Pids)
  BY <1>2, <1>5
<1>7. Total(OwedOf(table), Pids) = h[Pids]
  BY <1>6, TotalOfAdds
<1>8. QED BY <1>4, <1>7 DEF DuesOf

(***************************************************************************)
(* SliceUsed and Committed are these sums, of this state's table and of    *)
(* the next one's.                                                         *)
(***************************************************************************)
LEMMA SliceSums ==
    /\ SliceUsed = SumOf(os)
    /\ Committed = DuesOf(os) /\ Committed' = DuesOf(os')
<1>1. SliceUsed = SumOf(os)
  BY DEF SliceUsed, MapThenSumSet, MapThenFoldSet, SumOf, Choice
<1>2. Committed = DuesOf(os) /\ Committed' = DuesOf(os')
  BY DEF Committed, Due, MapThenSumSet, MapThenFoldSet, DuesOf, OwedBy, Choice
<1>3. QED BY <1>1, <1>2

\* The slice's cap is set, and no job declares more than all of it.
Capped ==
    /\ Scoped /\ IsFiniteSet(Pids)
    /\ SliceCap # NoReading /\ SliceCap >= 0 /\ RamSafety >= 0
    /\ \A j \in Jobs : 0 <= JobRam[j] /\ JobRam[j] <= SliceCap

\* Memory is held by live processes of jobs, and none holds more than it owes.
Holds(proc) ==
    /\ proc.mem >= 0 /\ proc.mem <= OwedBy(proc)
    /\ proc.mem = 0 \/ (proc.owner \in Jobs /\ (proc.state = "up" \/ proc.kids))

HeldByJobs == \A p \in Pids : Holds(os[p])

\* An entry that holds memory rightly goes on to do so, and owes no more.
Eases(old, new) == Holds(old) => Holds(new) /\ OwedBy(new) <= OwedBy(old)

(***************************************************************************)
(* An entry that is buried, given up or left with its owner and leader     *)
(* owes no more than before.                                               *)
(***************************************************************************)
LEMMA EasesWhen ==
    ASSUME Capped, NEW old \in Process
    PROVE  /\ Eases(old, old) /\ Eases(old, NoProcess)
           /\ \A new : Buried(old, new) => Eases(old, new)
           /\ \A new : (/\ new.owner = old.owner /\ new.state = old.state
                        /\ new.kids = old.kids /\ new.mem = old.mem) => Eases(old, new)
<1>1. OwedBy(old) \in Int /\ old.mem \in Int
  BY QueueAssumption DEF OwedBy, Process
<1>2. OwedBy(NoProcess) = 0 /\ NoProcess.mem = 0
  BY DEF OwedBy, NoProcess
<1>3. Eases(old, old) /\ Eases(old, NoProcess)
  BY <1>1, <1>2 DEF Eases, Holds
<1>4. ASSUME NEW new, Buried(old, new) PROVE Eases(old, new)
  <2>1. CASE new = NoProcess
    BY <1>3, <2>1
  <2>2. CASE new.owner = old.owner /\ new.state = "free" /\ old.kids /\ new.kids
             /\ new.mem = old.mem
    BY <1>1, <2>2 DEF Eases, Holds, OwedBy
  <2>3. QED BY <1>4, <2>1, <2>2 DEF Buried
<1>5. ASSUME NEW new, new.owner = old.owner, new.state = old.state, new.kids = old.kids,
             new.mem = old.mem
      PROVE  Eases(old, new)
  BY <1>1, <1>5 DEF Eases, Holds, OwedBy
<1>6. QED BY <1>3, <1>4, <1>5

(***************************************************************************)
(* Nothing the host does by itself makes a process owe more.               *)
(***************************************************************************)
LEMMA HostEases ==
    ASSUME Capped, RunnerTypeOK, NEW p \in Pids, HostMoved(p)
    PROVE  Eases(os[p], os'[p])
<1>0. os[p] \in Process /\ (os[p].owner \in Jobs => JobRam[os[p].owner] \in Int)
  BY QueueAssumption DEF RunnerTypeOK
<1>1. os[p].mem \in Int
  BY <1>0 DEF Process
<1>2. ASSUME NEW code, CommandEnded(p, code) PROVE Eases(os[p], os'[p])
  <2>1. CASE os'[p] = NoProcess
    BY <1>0, <2>1, EasesWhen
  <2>2. CASE /\ os'[p].owner = os[p].owner /\ os'[p].state \in {"zombie", "free"}
             /\ os'[p].mem = IF os'[p].kids THEN os[p].mem ELSE 0
    <3>1. os[p].owner \in Jobs /\ os[p].state = "up" /\ OwedBy(os[p]) = JobRam[os[p].owner]
      BY <1>2 DEF CommandEnded, OwedBy
    <3>2. OwedBy(os'[p]) = os'[p].mem
      BY <2>2 DEF OwedBy
    <3>3. JobRam[os[p].owner] >= 0 /\ JobRam[os[p].owner] \in Int
      BY <1>0, <3>1 DEF Capped
    <3>4. CASE os'[p].kids
      BY <1>1, <2>2, <3>1, <3>2, <3>3, <3>4 DEF Eases, Holds
    <3>5. CASE ~os'[p].kids
      BY <1>1, <2>2, <3>1, <3>2, <3>3, <3>5 DEF Eases, Holds
    <3>6. QED BY <3>4, <3>5
  <2>3. QED BY <1>2, <2>1, <2>2 DEF CommandEnded
<1>3. CASE KidsEnded(p)
  <2>1. CASE os'[p] = NoProcess
    BY <1>0, <2>1, EasesWhen
  <2>2. CASE Keeps(os[p], os'[p]) /\ os'[p].mem = 0
    <3>1. CASE os[p].state = "up" /\ os[p].owner \in Jobs
      <4>1. OwedBy(os[p]) = JobRam[os[p].owner] /\ OwedBy(os'[p]) = JobRam[os[p].owner]
        BY <2>2, <3>1 DEF Keeps, OwedBy
      <4>2. JobRam[os[p].owner] >= 0 /\ JobRam[os[p].owner] \in Int
        BY <1>0, <3>1 DEF Capped
      <4>3. QED BY <2>2, <4>1, <4>2 DEF Eases, Holds
    <3>2. CASE ~(os[p].state = "up" /\ os[p].owner \in Jobs)
      <4>1. OwedBy(os[p]) = os[p].mem /\ OwedBy(os'[p]) = 0
        BY <2>2, <3>2 DEF Keeps, OwedBy
      <4>2. QED BY <1>1, <2>2, <4>1 DEF Eases, Holds
    <3>3. QED BY <3>1, <3>2
  <2>3. QED BY <1>3, <2>1, <2>2 DEF KidsEnded
<1>4. CASE Grown(p)
  <2>1. /\ os[p].owner \in Jobs /\ os[p].state = "up"
        /\ os'[p].owner = os[p].owner /\ os'[p].state = "up"
        /\ os'[p].mem = JobRam[os[p].owner]
    BY <1>4 DEF Grown, Keeps
  <2>2. OwedBy(os[p]) = JobRam[os[p].owner] /\ OwedBy(os'[p]) = JobRam[os[p].owner]
    BY <2>1 DEF OwedBy
  <2>3. JobRam[os[p].owner] >= 0 /\ JobRam[os[p].owner] \in Int
    BY <1>0, <2>1 DEF Capped
  <2>4. QED BY <2>1, <2>2, <2>3 DEF Eases, Holds
<1>5. CASE Drifted(p)
  BY <1>0, <1>5, EasesWhen DEF Drifted
<1>6. CASE ForeignCame(p)
  <2>1. OwedBy(os[p]) = 0 /\ OwedBy(os'[p]) = 0 /\ os'[p].mem = 0
    BY <1>6, RunnerAssumption DEF ForeignCame, OwedBy, NoProcess
  <2>2. QED BY <2>1 DEF Eases, Holds
<1>7. CASE ForeignWent(p)
  BY <1>0, <1>7, EasesWhen DEF ForeignWent
<1>8. QED BY <1>2, <1>3, <1>4, <1>5, <1>6, <1>7 DEF HostMoved

(***************************************************************************)
(* No step but a launch makes a process owe more.                          *)
(***************************************************************************)
LEMMA MemoryEases ==
    ASSUME Capped, TypeOK, [Next]_vars, \A j \in Jobs : ~Launch(j)
    PROVE  \A q \in Pids : Eases(os[q], os'[q])
<1>0. RunnerTypeOK /\ \A q \in Pids : os[q] \in Process
  BY DEF TypeOK, RunnerTypeOK
<1>1. CASE os' = os
  BY <1>0, <1>1, EasesWhen
<1>2. ASSUME NEW q \in Pids, os'[q] = os[q] \/ Buried(os[q], os'[q])
      PROVE  Eases(os[q], os'[q])
  BY <1>0, <1>2, EasesWhen
<1>3. CASE Host
  <2>1. CASE \E p \in Pids : Others(p) /\ HostMoved(p)
    BY <1>0, <1>2, <2>1, HostEases DEF Others
  <2>2. QED BY <1>0, <1>1, <1>3, <2>1, HostMoves
<1>4. ASSUME NEW j \in Jobs, Reap(j) PROVE \A q \in Pids : Eases(os[q], os'[q])
  <2>1. \A q \in Pids : os'[q] = os[q] \/ Buried(os[q], os'[q])
    BY <1>0, <1>4, ForgetMoves DEF Reap
  <2>2. QED BY <1>2, <2>1
<1>5. ASSUME NEW j \in Jobs, EnforcePin(j) PROVE \A q \in Pids : Eases(os[q], os'[q])
  <2>1. \A q \in Pids :
          \/ os'[q] = os[q]
          \/ /\ os'[q].owner = os[q].owner /\ os'[q].state = os[q].state
             /\ os'[q].kids = os[q].kids /\ os'[q].mem = os[q].mem
    BY <1>0, <1>5, PinMoves DEF EnforcePin
  <2>2. QED BY <1>0, <2>1, EasesWhen
<1>6. CASE Stop \/ Crash
  <2>1. \A q \in Pids : os'[q] = os[q] \/ Buried(os[q], os'[q])
    BY <1>0, <1>6, OrphansMove DEF Stop, Crash, Dies
  <2>2. QED BY <1>2, <2>1
<1>7. CASE Reboot
  BY <1>0, <1>7, EasesWhen DEF Reboot
<1>8. CASE Loop
  <2>1. CASE Reconciled \/ Tick \/ Reaped \/ SkipsDone \/ PinsDone \/ EndTick
    BY <1>1, <2>1 DEF Reconciled, Tick, Reaped, SkipsDone, PinsDone, EndTick, runnerVars
  <2>2. ASSUME NEW j \in Jobs,
               Reconcile(j) \/ StillRuns(j) \/ Skip(j) \/ Defer(j) \/ LaunchFails(j)
        PROVE  os' = os
    BY <2>2 DEF Reconcile, StillRuns, Skip, Defer, LaunchFails, runnerVars
  <2>3. QED BY <1>1, <1>4, <1>5, <1>8, <2>1, <2>2 DEF Loop
<1>9. CASE Start \/ Rerun \/ UNCHANGED vars
  BY <1>1, <1>9 DEF Start, Rerun, runnerVars, vars
<1>10. CASE World
  BY <1>1, <1>3, <1>10 DEF World, TimePasses, Pause, Release, runnerVars
<1>11. QED BY <1>6, <1>7, <1>8, <1>9, <1>10 DEF Next

(***************************************************************************)
(* A launch makes its own process owe what the job declares, and no other  *)
(* more.                                                                   *)
(***************************************************************************)
LEMMA LaunchOwes ==
    ASSUME Capped, TypeOK, NEW j \in Jobs, Launch(j)
    PROVE  \E p \in Pids :
              /\ OwedBy(os[p]) = 0 /\ OwedBy(os'[p]) \in {0, JobRam[j]} /\ Holds(os'[p])
              /\ \A q \in Pids \ {p} : Eases(os[q], os'[q])
<1>0. RunnerTypeOK /\ \A q \in Pids : os[q] \in Process
  BY DEF TypeOK, RunnerTypeOK
<1>1. PICK p \in Pids, pl \in Allocations(jobs, j) : StartProcess(j, p, StartCpus(pl.cpu_list))
  BY DEF Launch
<1>2. /\ os[p] = NoProcess
      /\ \A q \in Pids \ {p} : os'[q] = os[q] \/ Hung(q)
      /\ Begun(p, j, StartCpus(pl.cpu_list)) \/ Rejected(p, j)
  BY <1>0, <1>1, LaunchMoves
<1>3. JobRam[j] \in Int /\ JobRam[j] >= 0
  BY QueueAssumption DEF Capped
<1>4. OwedBy(os[p]) = 0
  BY <1>2 DEF OwedBy, NoProcess
<1>5. \A q \in Pids \ {p} : Eases(os[q], os'[q])
  BY <1>0, <1>2, EasesWhen DEF Hung
<1>6. /\ OwedBy(os'[p]) \in {0, JobRam[j]} /\ Holds(os'[p])
  <2>1. CASE Begun(p, j, StartCpus(pl.cpu_list))
    BY <1>3, <2>1 DEF Begun, OwedBy, Holds
  <2>2. CASE Rejected(p, j)
    BY <1>3, <2>2 DEF Rejected, NoProcess, OwedBy, Holds
  <2>3. QED BY <1>2, <2>1, <2>2
<1>7. QED BY <1>4, <1>5, <1>6

(***************************************************************************)
(* Every step keeps memory with the processes that owe it.                 *)
(***************************************************************************)
LEMMA HeldStep ==
    ASSUME Capped, TypeOK, HeldByJobs, [Next]_vars
    PROVE  HeldByJobs'
<1>1. CASE \A j \in Jobs : ~Launch(j)
  BY <1>1, MemoryEases DEF HeldByJobs, Eases, Holds
<1>2. ASSUME NEW j \in Jobs, Launch(j) PROVE HeldByJobs'
  BY <1>2, LaunchOwes DEF HeldByJobs, Eases
<1>3. QED BY <1>1, <1>2

(***************************************************************************)
(* What a launch was admitted on: the slice's accounting with the request  *)
(* on top is within the cap, or no job had a process and nothing is owed.  *)
(***************************************************************************)
LEMMA LaunchAdmitted ==
    ASSUME Capped, TypeOK, HeldByJobs, NEW j \in Jobs, Launch(j)
    PROVE  \/ Total(MemOf(os), Pids) + JobRam[j] <= SliceCap
           \/ Total(OwedOf(os), Pids) = 0
<1> DEFINE held == MemOf(os)
           owed == OwedOf(os)
<1>1. /\ os \in [Pids -> Process] /\ held \in [Pids -> Int] /\ owed \in [Pids -> Int]
      /\ \A q \in Pids : held[q] = os[q].mem /\ owed[q] = OwedBy(os[q])
  BY QueueAssumption DEF TypeOK, RunnerTypeOK, Process, MemOf, OwedOf, OwedBy
<1>2. SliceUsed = Total(held, Pids) /\ Total(held, Pids) \in Int
  BY <1>1, SliceIsTotal, SliceSums, TotalAdds DEF Capped
<1>3. PICK meter \in Readings : RamFits(jobs, j, meter)
  BY DEF Launch, Starts, CanLaunch
<1>4. CASE meter = [used |-> SliceUsed, cap |-> SliceCap, free |-> NoReading]
  <2>1. Total(held, Pids) >= 0
    <3>1. PICK zero : zero = [q \in Pids |-> 0]
      OBVIOUS
    <3>2. zero \in [Pids -> Int] /\ \A q \in Pids : zero[q] = 0 /\ zero[q] <= held[q]
      BY <1>1, <3>1 DEF HeldByJobs, Holds
    <3> HIDE DEF held
    <3>3. Total(zero, Pids) = 0 /\ Total(zero, Pids) <= Total(held, Pids)
      BY <1>1, <3>2, TotalCompared DEF Capped
    <3>4. QED BY <1>2, <3>3
  <2>2. SliceUsed # NoReading
    BY <1>2, <2>1 DEF NoReading
  <2>3. SliceUsed + JobRam[j] <= SliceCap - RamSafety
    BY <1>3, <1>4, <2>2 DEF RamFits, Capped
  <2>4. /\ RamSafety \in Int /\ SliceCap \in Int /\ RamSafety >= 0 /\ JobRam[j] \in Int
    BY AdmissionAssumption, OrchestratorAssumption, QueueAssumption DEF Capped
  <2>5. Total(held, Pids) + JobRam[j] <= SliceCap - RamSafety
    BY <1>2, <2>3
  <2> HIDE DEF held
  <2>6. Total(held, Pids) + JobRam[j] <= SliceCap
    BY <1>2, <2>4, <2>5
  <2>7. QED BY <2>6 DEF held
<1>5. CASE \A q \in Pids : ~LiveJob(q)
  <2>1. \A q \in Pids : owed[q] = 0
    BY <1>1, <1>5 DEF HeldByJobs, Holds, OwedBy, LiveJob, Lives, LivesIn
  <2> HIDE DEF owed
  <2>2. Total(owed, Pids) = 0
    BY <1>1, <2>1, TotalCompared DEF Capped
  <2>3. QED BY <2>2 DEF owed
<1>6. QED BY <1>3, <1>4, <1>5 DEF Readings, Capped

(***************************************************************************)
(* No step commits the slice past its cap, unless it was already or its    *)
(* accounting was behind.                                                  *)
(***************************************************************************)
LEMMA CommitStep ==
    ASSUME Capped, TypeOK, TypeOK', HeldByJobs, [Next]_vars, Committed' > SliceCap
    PROVE  Committed > SliceCap \/ SliceUsed < Committed
<1> DEFINE before == OwedOf(os)
           after  == OwedOf(os')
<1>1. /\ os \in [Pids -> Process] /\ os' \in [Pids -> Process]
      /\ before \in [Pids -> Int] /\ after \in [Pids -> Int]
      /\ \A q \in Pids : before[q] = OwedBy(os[q]) /\ after[q] = OwedBy(os'[q])
  BY QueueAssumption DEF TypeOK, RunnerTypeOK, Process, OwedOf, OwedBy
<1>2. Committed = Total(before, Pids) /\ Committed' = Total(after, Pids)
  BY DuesAreTotal, SliceSums DEF Capped
<1>3. Total(before, Pids) \in Int /\ Total(after, Pids) \in Int /\ SliceCap \in Int
  BY <1>1, TotalAdds, OrchestratorAssumption DEF Capped
<1>4. ASSUME NEW q \in Pids, Eases(os[q], os'[q]) PROVE after[q] <= before[q]
  BY <1>1, <1>4 DEF HeldByJobs, Eases
<1>5. CASE \A j \in Jobs : ~Launch(j)
  <2>1. \A q \in Pids : after[q] <= before[q]
    BY <1>4, <1>5, MemoryEases
  <2> HIDE DEF before, after
  <2>2. Total(after, Pids) <= Total(before, Pids)
    BY <1>1, <2>1, TotalCompared DEF Capped
  <2>3. QED BY <1>2, <1>3, <2>2
<1>6. ASSUME NEW j \in Jobs, Launch(j) PROVE Committed > SliceCap \/ SliceUsed < Committed
  <2>1. PICK p \in Pids :
          /\ OwedBy(os[p]) = 0 /\ OwedBy(os'[p]) \in {0, JobRam[j]}
          /\ \A q \in Pids \ {p} : Eases(os[q], os'[q])
    BY <1>6, LaunchOwes
  <2>2. JobRam[j] \in Int /\ JobRam[j] >= 0 /\ JobRam[j] <= SliceCap
    BY QueueAssumption DEF Capped
  <2>3. \A q \in Pids \ {p} : after[q] <= before[q]
    BY <1>4, <2>1
  <2>4. before[p] = 0 /\ after[p] \in Int /\ after[p] <= JobRam[j]
    BY <1>1, <2>1, <2>2
  <2>5. SliceUsed = Total(MemOf(os), Pids) /\ SliceUsed \in Int
    <3>1. MemOf(os) \in [Pids -> Int]
      BY <1>1 DEF MemOf, Process
    <3>2. QED BY <3>1, SliceIsTotal, SliceSums, TotalAdds DEF Capped
  <2>6. SliceUsed + JobRam[j] <= SliceCap \/ Total(before, Pids) = 0
    BY <1>6, <2>5, LaunchAdmitted
  <2> HIDE DEF before, after
  <2>7. Total(after, Pids) <= Total(before, Pids) + (after[p] - before[p])
    BY <1>1, <2>3, TotalOneMore DEF Capped
  <2>8. Total(after, Pids) <= Total(before, Pids) + JobRam[j]
    BY <1>3, <2>2, <2>4, <2>7
  <2>9. QED BY <1>2, <1>3, <2>2, <2>5, <2>6, <2>8
<1>7. QED BY <1>5, <1>6

(***************************************************************************)
(* Jobs take the memory they declared whenever they like, or never.  The   *)
(* slice is committed past its cap only by a launch that was admitted      *)
(* while an earlier job had still to take its own: admission adds the      *)
(* request to what the slice really uses (_check_ram), so processes that   *)
(* the list has lost in a crash count, and only what memory.current does   *)
(* not show yet escapes it.                                                *)
(***************************************************************************)
THEOREM OvercommitsOnlyWhileBehind ==
    ASSUME Capped
    PROVE  Spec => OvercommitsOnlyInLag
<1>1. Init => HeldByJobs
  BY DEF Init, RunnerInit, NoProcess, HeldByJobs, Holds, OwedBy
<1>2. TypeOK /\ HeldByJobs /\ [Next]_vars => HeldByJobs'
  BY HeldStep
<1>3. TypeOK /\ TypeOK' /\ HeldByJobs /\ [Next]_vars =>
        [SliceCap # NoReading /\ Committed' > SliceCap =>
            Committed > SliceCap \/ SliceUsed < Committed]_vars
  BY CommitStep
<1>4. QED BY <1>1, <1>2, <1>3, TypeCorrect, PTL DEF Spec, OvercommitsOnlyInLag
=============================================================================
