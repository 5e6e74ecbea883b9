------------------------- MODULE NormalFormsProofs --------------------------
(***************************************************************************)
(* Proofs about the functions of Semantic and the machine of NormalForms:  *)
(* what the functions return, and the shape of normal forms and of clauses *)
(* (ProofInv).  What the formulas say is the subject of MeaningProofs.     *)
(***************************************************************************)
EXTENDS Recursion, WellFoundedInduction, FiniteSetTheorems, TLAPS

-----------------------------------------------------------------------------
(* Levels and heights.                                                     *)

(* Every non-empty set of numbers has a least one.                         *)
LEMMA LeastNumber == \A T \in SUBSET Nat : T # {} => \E m \in T : \A k \in T : m <= k
<1> SUFFICES ASSUME NEW T \in SUBSET Nat, T # {}
             PROVE  \E m \in T : \A k \in T : m <= k
  OBVIOUS
<1>1. \E x \in T : \A y \in T : ~ (<<y, x>> \in OpToRel(<, Nat))
  BY WFMin, NatLessThanWellFounded, Zenon
<1>2. \A x, y \in Nat : y < x => <<y, x>> \in OpToRel(<, Nat)
  BY DEF OpToRel
<1>3. \E x \in T : \A y \in T : ~ (y < x)
  BY <1>1, <1>2, Zenon
<1> QED BY <1>3

(* Induction over the numbers, for a set of them.                          *)
LEMMA NumberInduction ==
  ASSUME NEW T \in SUBSET Nat, 0 \in T, \A n \in T : n + 1 \in T
  PROVE  T = Nat
<1> SUFFICES ASSUME Nat \ T # {} PROVE FALSE
  OBVIOUS
<1>1. PICK x \in Nat \ T : \A y \in Nat \ T : x <= y
  BY LeastNumber
<1>2. x - 1 \in Nat /\ x - 1 < x
  BY <1>1
<1>3. x - 1 \in T
  BY <1>1, <1>2
<1> QED BY <1>1, <1>2, <1>3

(* Induction along the measure of a recursion.                             *)
LEMMA MeasureInduction ==
  ASSUME NEW w, \A x \in Over(w) : Measure(w, x) \in Nat,
         NEW T,
         \A x \in Over(w) :
           (\A y \in Over(w) : Measure(w, y) < Measure(w, x) => y \in T) => x \in T
  PROVE  Over(w) \subseteq T
<1> SUFFICES ASSUME {x \in Over(w) : x \notin T} # {} PROVE FALSE
  OBVIOUS
<1> DEFINE M == {Measure(w, x) : x \in {y \in Over(w) : y \notin T}}
<1>1. M \in SUBSET Nat /\ M # {}
  OBVIOUS
<1> HIDE DEF M
<1>2. PICK m \in M : \A k \in M : m <= k
  BY <1>1, LeastNumber
<1>3. PICK x \in Over(w) : x \notin T /\ m = Measure(w, x)
  BY <1>2 DEF M
<1>4. ASSUME NEW y \in Over(w), Measure(w, y) < Measure(w, x) PROVE y \in T
  <2> SUFFICES ASSUME y \notin T PROVE FALSE
    OBVIOUS
  <2>1. Measure(w, y) \in M
    BY DEF M
  <2> QED BY <1>1, <1>2, <1>3, <1>4, <2>1
<1> QED BY <1>3, <1>4

(* There is a part of the function on every Below(w, n).                   *)
LEMMA Stages ==
  ASSUME NEW w, NEW p, IsRecursive(w, p), NEW n \in Nat
  PROVE  \E g : g = [x \in Below(w, n) |-> Body(w, p, g, x)]
<1> DEFINE T == {k \in Nat : \E g : g = [x \in Below(w, k) |-> Body(w, p, g, x)]}
<1>1. 0 \in T
  <2>1. Below(w, 0) = {}
    BY DEF Below, IsRecursive
  <2>2. [x \in {} |-> 0] = [x \in Below(w, 0) |-> Body(w, p, [y \in {} |-> 0], x)]
    BY <2>1
  <2> QED BY <2>2
<1>2. ASSUME NEW k \in T PROVE k + 1 \in T
  <2>0. k \in Nat
    OBVIOUS
  <2>1. PICK g : g = [x \in Below(w, k) |-> Body(w, p, g, x)]
    OBVIOUS
  <2> HIDE DEF T
  <2> DEFINE h == [x \in Below(w, k + 1) |-> Body(w, p, g, x)]
  <2>2. ASSUME NEW x \in Below(w, k + 1) PROVE Body(w, p, g, x) = Body(w, p, h, x)
    <3>1. ASSUME NEW y \in Over(w), Measure(w, y) < Measure(w, x) PROVE g[y] = h[y]
      <4>1. Measure(w, x) \in Nat /\ Measure(w, y) \in Nat /\ Measure(w, x) < k + 1
        BY <3>1 DEF Below, IsRecursive
      <4>2. y \in Below(w, k) /\ y \in Below(w, k + 1)
        BY <2>0, <3>1, <4>1 DEF Below
      <4> QED BY <2>1, <4>2
    <3>2. x \in Over(w)
      BY DEF Below
    <3> HIDE DEF h
    <3> QED BY <3>1, <3>2 DEF IsRecursive
  <2>3. h = [x \in Below(w, k + 1) |-> Body(w, p, h, x)]
    BY <2>2
  <2> HIDE DEF h
  <2> QED BY <2>0, <2>3 DEF T
<1>3. T \in SUBSET Nat
  OBVIOUS
<1> HIDE DEF T
<1>4. T = Nat
  BY <1>1, <1>2, <1>3, NumberInduction
<1> QED BY <1>4 DEF T

(* Two such parts agree where both are defined.                            *)
LEMMA StagesAgree ==
  ASSUME NEW w, NEW p, IsRecursive(w, p), NEW m \in Nat, NEW n \in Nat,
         NEW g, IsPart(w, p, m, g), NEW h, IsPart(w, p, n, h)
  PROVE  \A x \in Below(w, m) \cap Below(w, n) : g[x] = h[x]
<1> DEFINE T == {x \in Over(w) : x \in Below(w, m) \cap Below(w, n) => g[x] = h[x]}
<1>1. ASSUME NEW x \in Over(w), \A y \in Over(w) : Measure(w, y) < Measure(w, x) => y \in T
      PROVE  x \in T
  <2> SUFFICES ASSUME x \in Below(w, m) \cap Below(w, n) PROVE g[x] = h[x]
    OBVIOUS
  <2>1. ASSUME NEW y \in Over(w), Measure(w, y) < Measure(w, x) PROVE g[y] = h[y]
    <3>1. y \in Below(w, m) \cap Below(w, n)
      BY <2>1 DEF Below, IsRecursive
    <3> QED BY <1>1, <2>1, <3>1
  <2>2. Body(w, p, g, x) = Body(w, p, h, x)
    BY <2>1 DEF IsRecursive
  <2>3. g[x] = Body(w, p, g, x) /\ h[x] = Body(w, p, h, x)
    BY DEF IsPart
  <2> QED BY <2>2, <2>3
<1> HIDE DEF T
<1>2. Over(w) \subseteq T
  BY <1>1, MeasureInduction DEF IsRecursive
<1> QED BY <1>2 DEF T, Below

(* The function itself: the recursive functions of Semantic, NormalForms   *)
(* and Meaning are well-defined if their values depend on smaller ones.    *)
THEOREM RecursiveFunction ==
  ASSUME NEW w, NEW p, IsRecursive(w, p)
  PROVE  \E g : g = [x \in Over(w) |-> Body(w, p, g, x)]
<1> DEFINE Part(n) == CHOOSE g : g = [x \in Below(w, n) |-> Body(w, p, g, x)]
           f == [x \in Over(w) |-> Part(Measure(w, x) + 1)[x]]
<1>1. ASSUME NEW n \in Nat
      PROVE  Part(n) = [x \in Below(w, n) |-> Body(w, p, Part(n), x)]
  <2>1. \E g : g = [x \in Below(w, n) |-> Body(w, p, g, x)]
    BY Stages
  <2> QED BY <2>1
<1> HIDE DEF Part
<1>2. ASSUME NEW x \in Over(w) PROVE f[x] = Body(w, p, f, x)
  <2> DEFINE g == Part(Measure(w, x) + 1)
  <2>1. Measure(w, x) + 1 \in Nat /\ x \in Below(w, Measure(w, x) + 1)
    BY DEF Below, IsRecursive
  <2>2. g = [z \in Below(w, Measure(w, x) + 1) |-> Body(w, p, g, z)]
    BY <1>1, <2>1
  <2>3. ASSUME NEW y \in Over(w), Measure(w, y) < Measure(w, x) PROVE g[y] = f[y]
    <3>1. /\ Measure(w, y) + 1 \in Nat
          /\ y \in Below(w, Measure(w, y) + 1) \cap Below(w, Measure(w, x) + 1)
      BY <2>3 DEF Below, IsRecursive
    <3> DEFINE h == Part(Measure(w, y) + 1)
    <3>2. h = [z \in Below(w, Measure(w, y) + 1) |-> Body(w, p, h, z)]
      BY <1>1, <3>1
    <3>3. f[y] = h[y]
      OBVIOUS
    <3> HIDE DEF g, h
    <3>4. IsPart(w, p, Measure(w, y) + 1, h) /\ IsPart(w, p, Measure(w, x) + 1, g)
      BY <2>2, <3>2 DEF IsPart
    <3>5. h[y] = g[y]
      BY <2>1, <3>1, <3>4, StagesAgree
    <3> QED BY <3>3, <3>5
  <2>4. f[x] = g[x]
    OBVIOUS
  <2> HIDE DEF f, g
  <2>5. Body(w, p, g, x) = Body(w, p, f, x)
    BY <2>3 DEF IsRecursive
  <2>6. g[x] = Body(w, p, g, x)
    BY <2>1, <2>2
  <2> QED BY <2>4, <2>5, <2>6
<1>3. f = [x \in Over(w) |-> Body(w, p, f, x)]
  BY <1>2
<1> HIDE DEF f
<1> QED BY <1>3

(* The recursive definition of Level holds.                                *)
LEMMA LevelDef == Level = [n \in 0 .. MaxHeight |-> LevelBody(Level, n)]
<1>1. ASSUME NEW n \in 0 .. MaxHeight, NEW g, NEW h,
             \A k \in 0 .. MaxHeight : k < n => g[k] = h[k]
      PROVE  LevelBody(g, n) = LevelBody(h, n)
  <2>1. n # 0 => g[n - 1] = h[n - 1]
    BY <1>1, HeightAssumption
  <2>2. n > 3 => g[n - 3] = h[n - 3]
    BY <1>1, HeightAssumption
  <2> QED BY <2>1, <2>2 DEF LevelBody
<1>2. /\ Over("Level") = 0 .. MaxHeight
      /\ \A n : Measure("Level", n) = n
      /\ \A g, n : Body("Level", 0, g, n) = LevelBody(g, n)
  BY DEF Over, Measure, Body
<1>3. IsRecursive("Level", 0)
  BY <1>1, <1>2, HeightAssumption DEF IsRecursive
<1>4. \E g : g = [n \in 0 .. MaxHeight |-> LevelBody(g, n)]
  <2>1. PICK g : g = [n \in Over("Level") |-> Body("Level", 0, g, n)]
    BY <1>3, RecursiveFunction
  <2>2. [n \in Over("Level") |-> Body("Level", 0, g, n)]
          = [n \in 0 .. MaxHeight |-> LevelBody(g, n)]
    BY <1>2
  <2> QED BY <2>1, <2>2
<1> QED BY <1>4 DEF Level, LevelBody

(* A sequence over a set is one over every larger set.                     *)
LEMMA SeqMonotone ==
  ASSUME NEW A, NEW B, NEW s \in Seq(A), \A i \in DOMAIN s : s[i] \in B
  PROVE  s \in Seq(B)
  OBVIOUS

Shape(S) == {f \in [type : RecordTypes, name : AnyName, kids : Seq(S)] :
               Shaped(f)}

(* What is on a level.                                                     *)
LEMMA LevelStep ==
  ASSUME NEW n \in 0 .. MaxHeight
  PROVE  /\ n = 0 => Level[n] = {}
         /\ n # 0 => \A f : f \in Level[n] <=>
              /\ f \in Shape(Level[n - 1])
              /\ f.type = "And" => n > 3 /\ f.kids \in Seq(Level[n - 3])
<1>1. Level[n] = LevelBody(Level, n)
  BY LevelDef
<1> QED BY <1>1 DEF LevelBody, Shape

(* The levels grow.                                                        *)
LEMMA LevelsGrow ==
  ASSUME NEW n \in 0 .. MaxHeight, NEW m \in 0 .. MaxHeight, n <= m
  PROVE  Level[n] \subseteq Level[m]
<1> DEFINE T == {k \in 0 .. MaxHeight :
                   \A l \in 0 .. MaxHeight : k <= l => Level[k] \subseteq Level[l]}
<1>1. ASSUME NEW k \in 0 .. MaxHeight,
             \A j \in 0 .. MaxHeight : j < k => j \in T
      PROVE  k \in T
  <2> SUFFICES ASSUME NEW l \in 0 .. MaxHeight, k <= l, NEW f \in Level[k]
               PROVE  f \in Level[l]
    OBVIOUS
  <2>1. k # 0 /\ l # 0
    BY LevelStep, HeightAssumption
  <2>2. /\ f \in Shape(Level[k - 1])
        /\ f.type = "And" => k > 3 /\ f.kids \in Seq(Level[k - 3])
    BY <2>1, LevelStep
  <2>3. /\ k - 1 \in 0 .. MaxHeight /\ l - 1 \in 0 .. MaxHeight
        /\ k - 1 < k /\ k - 1 <= l - 1
    BY <2>1, HeightAssumption
  <2>4. Level[k - 1] \subseteq Level[l - 1]
    BY <1>1, <2>3
  <2>5. f \in Shape(Level[l - 1])
    BY <2>2, <2>4, SeqMonotone DEF Shape
  <2>6. f.type = "And" => l > 3 /\ f.kids \in Seq(Level[l - 3])
    <3> SUFFICES ASSUME f.type = "And" PROVE l > 3 /\ f.kids \in Seq(Level[l - 3])
      OBVIOUS
    <3>1. /\ k - 3 \in 0 .. MaxHeight /\ l - 3 \in 0 .. MaxHeight
          /\ k - 3 < k /\ k - 3 <= l - 3 /\ l > 3
      BY <2>2, HeightAssumption
    <3>2. Level[k - 3] \subseteq Level[l - 3]
      BY <1>1, <3>1
    <3> QED BY <2>2, <3>1, <3>2, SeqMonotone
  <2> QED BY <2>1, <2>5, <2>6, LevelStep
<1> HIDE DEF T
<1>2. 0 .. MaxHeight \subseteq T
  <2>1. Over("Level") = 0 .. MaxHeight /\ \A k : Measure("Level", k) = k
    BY DEF Over, Measure
  <2>2. \A k \in Over("Level") : Measure("Level", k) \in Nat
    BY <2>1, HeightAssumption
  <2>3. \A k \in Over("Level") :
          (\A j \in Over("Level") : Measure("Level", j) < Measure("Level", k) => j \in T)
             => k \in T
    <3>1. ASSUME NEW k \in Over("Level"),
                 \A j \in Over("Level") : Measure("Level", j) < Measure("Level", k) => j \in T
          PROVE  k \in T
      <4>1. k \in 0 .. MaxHeight /\ Measure("Level", k) = k
        BY <2>1
      <4>2. ASSUME NEW j \in 0 .. MaxHeight, j < k PROVE j \in T
        <5>1. j \in Over("Level") /\ Measure("Level", j) = j
          BY <2>1
        <5>2. Measure("Level", j) < Measure("Level", k)
          BY <4>1, <4>2, <5>1
        <5> QED BY <3>1, <5>1, <5>2
      <4> QED BY <1>1, <4>1, <4>2
    <3> QED BY <3>1
  <2>4. Over("Level") \subseteq T
    BY <2>2, <2>3, MeasureInduction
  <2> QED BY <2>1, <2>4
<1> QED BY <1>2 DEF T

Weight(type) == IF type = "And" THEN 3 ELSE 1

(* Height is the least level a record is in.                               *)
LEMMA HeightDef ==
  ASSUME NEW n \in 0 .. MaxHeight, NEW f \in Level[n]
  PROVE  /\ Height(f) \in 1 .. MaxHeight
         /\ f \in Level[Height(f)]
         /\ Height(f) <= n
<1> DEFINE T == {k \in 1 .. MaxHeight : f \in Level[k]}
<1>1. n \in T
  BY LevelStep
<1>2. T \in SUBSET Nat /\ T # {}
  BY <1>1, HeightAssumption
<1> HIDE DEF T
<1>3. PICK k \in T : \A m \in T : k <= m
  BY <1>2, LeastNumber
<1>4. \E k1 \in 1 .. MaxHeight :
               /\ f \in Level[k1]
               /\ \A m \in 1 .. MaxHeight : f \in Level[m] => k1 <= m
  BY <1>3 DEF T
<1> DEFINE P(k1) == /\ f \in Level[k1]
                    /\ \A m \in 1 .. MaxHeight : f \in Level[m] => k1 <= m
<1>5. Height(f) = CHOOSE k1 \in 1 .. MaxHeight : P(k1)
  BY DEF Height
<1>6. \E k1 \in 1 .. MaxHeight : P(k1)
  BY <1>4
<1> HIDE DEF P
<1>7. Height(f) \in 1 .. MaxHeight /\ P(Height(f))
  BY <1>5, <1>6
<1> QED BY <1>1, <1>7 DEF P, T

(* What is known of a record, and of the records below it.                 *)
LEMMA RecordFacts ==
  ASSUME NEW f \in Records
  PROVE  /\ f \in Shape(Records)
         /\ Height(f) \in 1 .. MaxHeight
         /\ \A i \in DOMAIN f.kids :
              /\ f.kids[i] \in Records
              /\ Height(f.kids[i]) \in 1 .. MaxHeight
              /\ Height(f.kids[i]) + Weight(f.type) <= Height(f)
<1> DEFINE n == Height(f)
<1>1. n \in 1 .. MaxHeight /\ f \in Level[n]
  BY HeightDef, HeightAssumption DEF Records
<1> HIDE DEF n
<1>2. n \in 0 .. MaxHeight /\ n # 0 /\ n \in Nat
  BY <1>1, HeightAssumption
<1>3. /\ f \in Shape(Level[n - 1])
      /\ f.type = "And" => n > 3 /\ f.kids \in Seq(Level[n - 3])
  BY <1>1, <1>2, LevelStep
<1>4. ASSUME NEW i \in DOMAIN f.kids
      PROVE  /\ f.kids[i] \in Records
             /\ Height(f.kids[i]) \in 1 .. MaxHeight
             /\ Height(f.kids[i]) + Weight(f.type) <= n
  <2>1. f.kids[i] \in Level[n - 1] /\ n - 1 \in 0 .. MaxHeight
    BY <1>1, <1>2, <1>3, HeightAssumption DEF Shape
  <2>2. f.kids[i] \in Records
    BY <2>1, LevelsGrow, HeightAssumption DEF Records
  <2>3. Height(f.kids[i]) \in 1 .. MaxHeight /\ Height(f.kids[i]) <= n - 1
    BY <2>1, HeightDef
  <2>4. CASE f.type # "And"
    BY <1>2, <2>2, <2>3, <2>4 DEF Weight
  <2>5. CASE f.type = "And"
    <3>1. f.kids[i] \in Level[n - 3] /\ n - 3 \in 0 .. MaxHeight
      BY <1>1, <1>2, <1>3, <2>5, HeightAssumption
    <3>2. Height(f.kids[i]) <= n - 3
      BY <3>1, HeightDef
    <3> QED BY <1>2, <2>2, <2>3, <2>5, <3>2 DEF Weight
  <2> QED BY <2>4, <2>5
<1>5. f \in Shape(Records)
  BY <1>3, <1>4, SeqMonotone DEF Shape
<1> QED BY <1>1, <1>4, <1>5 DEF n

(* What has the shape of a record is one, unless it is too high.           *)
LEMMA RecordIntro ==
  ASSUME NEW f \in Shape(Records), NEW n \in 1 .. MaxHeight,
         \A i \in DOMAIN f.kids : Height(f.kids[i]) + Weight(f.type) <= n
  PROVE  f \in Records /\ Height(f) \in 1 .. n
<1>0. n \in 0 .. MaxHeight /\ n # 0 /\ n \in Nat
  BY HeightAssumption
<1>1. ASSUME NEW i \in DOMAIN f.kids, NEW m \in 0 .. MaxHeight,
             Height(f.kids[i]) <= m
      PROVE  f.kids[i] \in Level[m]
  <2>1. f.kids[i] \in Records
    BY DEF Shape
  <2>2. /\ Height(f.kids[i]) \in 1 .. MaxHeight
        /\ f.kids[i] \in Level[Height(f.kids[i])]
    BY <2>1, HeightDef, HeightAssumption DEF Records
  <2> QED BY <1>1, <2>2, LevelsGrow, HeightAssumption
<1>2. ASSUME NEW i \in DOMAIN f.kids PROVE Height(f.kids[i]) \in 1 .. MaxHeight
  <2>1. f.kids[i] \in Records
    BY DEF Shape
  <2> QED BY <2>1, RecordFacts
<1>3. f \in Shape(Level[n - 1])
  <2>1. n - 1 \in 0 .. MaxHeight
    BY <1>0, HeightAssumption
  <2>2. \A i \in DOMAIN f.kids : f.kids[i] \in Level[n - 1]
    BY <1>0, <1>1, <1>2, <2>1 DEF Weight
  <2> QED BY <2>2, SeqMonotone DEF Shape
<1>4. f.type = "And" => n > 3 /\ f.kids \in Seq(Level[n - 3])
  <2> SUFFICES ASSUME f.type = "And" PROVE n > 3 /\ f.kids \in Seq(Level[n - 3])
    OBVIOUS
  <2>1. 1 \in DOMAIN f.kids /\ f.kids \in Seq(Records)
    BY DEF Shape, Shaped, Binary
  <2>2. n > 3 /\ n - 3 \in 0 .. MaxHeight
    BY <1>0, <1>2, <2>1, HeightAssumption DEF Weight
  <2>3. \A i \in DOMAIN f.kids : f.kids[i] \in Level[n - 3]
    BY <1>0, <1>1, <1>2, <2>2 DEF Weight
  <2> QED BY <2>1, <2>2, <2>3, SeqMonotone
<1>5. f \in Level[n]
  BY <1>0, <1>3, <1>4, LevelStep
<1>6. Height(f) \in 1 .. MaxHeight /\ Height(f) <= n
  BY <1>0, <1>5, HeightDef
<1>7. f \in Records
  BY <1>0, <1>5, LevelsGrow, HeightAssumption DEF Records
<1> QED BY <1>0, <1>6, <1>7
-----------------------------------------------------------------------------
(* The functions on records satisfy their recursive definitions.           *)

(* The kids of a record are records of a smaller height.                   *)
LEMMA Kids ==
  ASSUME NEW f \in Records
  PROVE  /\ f.type \in RecordTypes /\ f.name \in AnyName
         /\ f.kids \in Seq(Records) /\ Shaped(f)
         /\ DOMAIN f.kids = 1 .. Len(f.kids) /\ Len(f.kids) \in Nat
         /\ f = Semantic(f.type, f.name, f.kids)
         /\ \A i \in DOMAIN f.kids :
              /\ f.kids[i] \in Records
              /\ Height(f.kids[i]) < Height(f)
         /\ Height(f) \in Nat
<1>1. f \in Shape(Records)
  BY RecordFacts
<1>2. Height(f) \in Nat
  BY RecordFacts, HeightAssumption
<1>3. ASSUME NEW i \in DOMAIN f.kids
      PROVE  f.kids[i] \in Records /\ Height(f.kids[i]) < Height(f)
  BY RecordFacts, HeightAssumption DEF Weight
<1> QED BY <1>1, <1>2, <1>3 DEF Shape, Semantic

(* g and h agree on what is not as high as f.                              *)
Alike(g, h, f) == \A y \in Records : Height(y) < Height(f) => g[y] = h[y]

(* Functions that agree below f rewrite the branches of f alike.           *)
LEMMA AlikeBranches ==
  ASSUME NEW f \in Records, NEW g, NEW h, Alike(g, h, f)
  PROVE  /\ OnBranches(g, f) = OnBranches(h, f)
         /\ \A i \in DOMAIN f.kids : g[f.kids[i]] = h[f.kids[i]]
<1>1. \A i \in DOMAIN f.kids : g[f.kids[i]] = h[f.kids[i]]
  BY Kids DEF Alike
<1> QED BY <1>1 DEF OnBranches

(* Height is the measure of most recursions here.                          *)
LEMMA HeightIsNumber == \A f \in Records : Height(f) \in Nat
  BY Kids

(* Most functions recur along the height.                                  *)
LEMMA RecordFunction ==
  ASSUME NEW w, w \notin {"Level", "Interpretations", "distributeOrs"}, NEW p,
         \A f \in Records : \A g, h : Alike(g, h, f) => 
           Body(w, p, g, f) = Body(w, p, h, f)
  PROVE  \E g : g = [f \in Records |-> Body(w, p, g, f)]
<1>1. Over(w) = Records /\ \A f : Measure(w, f) = Height(f)
  BY DEF Over, Measure
<1>2. IsRecursive(w, p)
  BY <1>1, HeightIsNumber DEF IsRecursive, Alike
<1> QED BY <1>1, <1>2, RecursiveFunction

(* Parts satisfies its definition.                                         *)
LEMMA PartsDef ==
  \A f \in Records :
    Parts[f] = {f} \cup UNION {Parts[f.kids[i]] : i \in DOMAIN f.kids}
<1>1. ASSUME NEW f \in Records, NEW g, NEW h, Alike(g, h, f)
      PROVE  PartsBody(g, f) = PartsBody(h, f)
  <2>1. {g[f.kids[i]] : i \in DOMAIN f.kids} = {h[f.kids[i]] : i \in DOMAIN f.kids}
    BY <1>1, AlikeBranches
  <2> QED BY <2>1 DEF PartsBody
<1>2. \A g, f : Body("Parts", 0, g, f) = PartsBody(g, f)
  BY DEF Body
<1>3. \E g : g = [f \in Records |-> PartsBody(g, f)]
  <2>1. \A f \in Records : \A g, h : Alike(g, h, f) =>
          Body("Parts", 0, g, f) = Body("Parts", 0, h, f)
    BY <1>1, <1>2
  <2>2. \E g : g = [f \in Records |-> Body("Parts", 0, g, f)]
    BY <2>1, RecordFunction
  <2> QED BY <1>2, <2>2
<1>4. Parts = [f \in Records |-> PartsBody(Parts, f)]
  BY <1>3, Zenon DEF Parts, PartsBody
<1> QED BY <1>4 DEF PartsBody

(* Induction over the heights of records.                                  *)
LEMMA HeightInduction ==
  ASSUME NEW T,
         \A f \in Records :
           (\A y \in Records : Height(y) < Height(f) => y \in T) => f \in T
  PROVE  Records \subseteq T
<1>1. Over("Parts") = Records /\ \A f : Measure("Parts", f) = Height(f)
  BY DEF Over, Measure
<1> QED BY <1>1, HeightIsNumber, MeasureInduction

(* Induction over records.                                                 *)
LEMMA RecordInduction ==
  ASSUME NEW T,
         \A f \in Records : (\A i \in DOMAIN f.kids : f.kids[i] \in T) => f \in T
  PROVE  Records \subseteq T
<1>1. ASSUME NEW f \in Records,
             \A y \in Records : Height(y) < Height(f) => y \in T
      PROVE  f \in T
  BY <1>1, Kids
<1> QED BY <1>1, HeightInduction

(* removeBiconditionals satisfies its definition.                          *)
LEMMA BiconditionalsDef ==
  \A f \in Records :
    removeBiconditionals[f] = BiconditionalsBody(removeBiconditionals, f)
<1>1. \A f \in Records : \A g, h : Alike(g, h, f) =>
        BiconditionalsBody(g, f) = BiconditionalsBody(h, f)
  BY AlikeBranches DEF BiconditionalsBody
<1>2. \A g, f : Body("removeBiconditionals", 0, g, f) = BiconditionalsBody(g, f)
  BY DEF Body
<1>3. \E g : g = [f \in Records |-> BiconditionalsBody(g, f)]
  BY <1>1, <1>2, RecordFunction
<1>4. removeBiconditionals =
        [f \in Records |-> BiconditionalsBody(removeBiconditionals, f)]
  BY <1>3, Zenon DEF removeBiconditionals, BiconditionalsBody
<1> QED BY <1>4

(* removeConditionals satisfies its definition.                            *)
LEMMA ConditionalsDef ==
  \A f \in Records :
    removeConditionals[f] = ConditionalsBody(removeConditionals, f)
<1>1. \A f \in Records : \A g, h : Alike(g, h, f) =>
        ConditionalsBody(g, f) = ConditionalsBody(h, f)
  BY AlikeBranches, Zenon DEF ConditionalsBody
<1>2. \A g, f : Body("removeConditionals", 0, g, f) = ConditionalsBody(g, f)
  BY DEF Body
<1>3. \E g : g = [f \in Records |-> ConditionalsBody(g, f)]
  BY <1>1, <1>2, RecordFunction
<1>4. removeConditionals =
        [f \in Records |-> ConditionalsBody(removeConditionals, f)]
  BY <1>3, Zenon DEF removeConditionals, ConditionalsBody
<1> QED BY <1>4

(* removeExtraNots satisfies its definition.                               *)
LEMMA ExtraNotsDef ==
  \A f \in Records : removeExtraNots[f] = ExtraNotsBody(removeExtraNots, f)
<1>1. ASSUME NEW f \in Records, NEW g, NEW h, Alike(g, h, f)
      PROVE  ExtraNotsBody(g, f) = ExtraNotsBody(h, f)
  <2> SUFFICES ASSUME f.type = "Negation" /\ f.kids[1].type = "Negation"
               PROVE  g[f.kids[1].kids[1]] = h[f.kids[1].kids[1]]
    BY DEF ExtraNotsBody
  <2>1. /\ f.kids[1] \in Records /\ Height(f.kids[1]) < Height(f)
        /\ Height(f) \in Nat
    BY Kids DEF Shaped
  <2>2. /\ f.kids[1].kids[1] \in Records
        /\ Height(f.kids[1].kids[1]) < Height(f.kids[1])
        /\ Height(f.kids[1]) \in Nat /\ Height(f.kids[1].kids[1]) \in Nat
    <3>1. f.kids[1].kids = <<f.kids[1].kids[1]>>
      BY <2>1, Kids DEF Shaped
    <3>2. 1 \in DOMAIN f.kids[1].kids
      BY <3>1
    <3> QED BY <2>1, <3>2, Kids
  <2> QED BY <1>1, <2>1, <2>2 DEF Alike
<1>2. \A g, f : Body("removeExtraNots", 0, g, f) = ExtraNotsBody(g, f)
  BY DEF Body
<1>3. \E g : g = [f \in Records |-> ExtraNotsBody(g, f)]
  BY <1>1, <1>2, RecordFunction
<1>4. removeExtraNots = [f \in Records |-> ExtraNotsBody(removeExtraNots, f)]
  BY <1>3, Zenon DEF removeExtraNots, ExtraNotsBody
<1> QED BY <1>4
(* The records that are made of others.                                    *)
LEMMA NotRecord ==
  ASSUME NEW a \in Records, a.type \notin TermTypes,
         NEW n \in 1 .. MaxHeight, Height(a) + 1 <= n
  PROVE  Not(a) \in Records /\ Height(Not(a)) \in 1 .. n
<1>1. Not(a) \in Shape(Records)
  <2>1. <<"", 0>> \in AnyName
    BY Zenon DEF AnyName
  <2>2. <<a>> \in Seq(Records)
    OBVIOUS
  <2>3. /\ Not(a).kids = <<a>> /\ Not(a).type = "Negation"
        /\ Not(a).name = NoName
    BY DEF Not, Semantic
  <2>4. Shaped(Not(a))
    BY <2>3 DEF Shaped, Logical, Binary, Quantifiers, TermTypes
  <2>5. Not(a) \in [type : RecordTypes, name : AnyName, kids : Seq(Records)]
    BY <2>1, <2>2, Zenon DEF Not, Semantic, NoName, RecordTypes, Branching, Binary
  <2> QED BY <2>4, <2>5 DEF Shape
<1>2. \A i \in DOMAIN Not(a).kids : Height(Not(a).kids[i]) + Weight("Negation") <= n
  BY DEF Not, Semantic, Weight
<1>3. Not(a).type = "Negation"
  BY DEF Not, Semantic
<1> QED BY <1>1, <1>2, <1>3, RecordIntro

(* A quantifier over a formula is a record, one higher than the formula.   *)
LEMMA BindRecord ==
  ASSUME NEW a \in Records, a.type \notin TermTypes,
         NEW q \in Quantifiers, NEW name \in AnyName,
         NEW n \in 1 .. MaxHeight, Height(a) + 1 <= n
  PROVE  Bind(q, name, a) \in Records /\ Height(Bind(q, name, a)) \in 1 .. n
<1> DEFINE f == Bind(q, name, a)
<1>1. f \in Shape(Records)
  <2>1. <<a>> \in Seq(Records)
    OBVIOUS
  <2>2. f.kids = <<a>> /\ f.type = q /\ f.name = name
    BY DEF Bind, Semantic
  <2>3. Shaped(f)
    BY <2>2 DEF Shaped, Logical, Binary, Quantifiers, TermTypes
  <2>4. f \in [type : RecordTypes, name : AnyName, kids : Seq(Records)]
    BY <2>1 DEF Bind, Semantic, RecordTypes, Branching, Quantifiers
  <2> QED BY <2>3, <2>4 DEF Shape
<1>2. f.type = q /\ Weight(q) = 1 /\ f.kids = <<a>>
  BY DEF Bind, Semantic, Weight, Quantifiers
<1>3. \A i \in DOMAIN f.kids : Height(f.kids[i]) + Weight(f.type) <= n
  BY <1>2
<1> QED BY <1>1, <1>3, RecordIntro

(* Two formulas joined are a record, as much higher than they are as the   *)
(* operator weighs.                                                        *)
LEMMA JoinRecord ==
  ASSUME NEW a \in Records, a.type \notin TermTypes,
         NEW b \in Records, b.type \notin TermTypes,
         NEW op \in Binary \cap Logical,
         NEW n \in 1 .. MaxHeight,
         Height(a) + Weight(op) <= n, Height(b) + Weight(op) <= n
  PROVE  Join(op, a, b) \in Records /\ Height(Join(op, a, b)) \in 1 .. n
<1> DEFINE f == Join(op, a, b)
<1>1. f \in Shape(Records)
  <2>0. <<"", 0>> \in AnyName
    BY Zenon DEF AnyName
  <2>1. <<a, b>> \in Seq(Records)
    OBVIOUS
  <2>2. f.kids = <<a, b>> /\ f.type = op /\ f.name = NoName
    BY DEF Join, Semantic
  <2>3. Shaped(f)
    BY <2>2 DEF Shaped, Logical, Binary, Quantifiers, TermTypes
  <2>4. f \in [type : RecordTypes, name : AnyName, kids : Seq(Records)]
    BY <2>0, <2>1, Zenon DEF Join, Semantic, NoName, RecordTypes, Branching
  <2> QED BY <2>3, <2>4 DEF Shape
<1>2. f.type = op /\ f.kids = <<a, b>>
  BY DEF Join, Semantic
<1>3. \A i \in DOMAIN f.kids : Height(f.kids[i]) + Weight(f.type) <= n
  BY <1>2
<1> QED BY <1>1, <1>3, RecordIntro

(* The operands of the connectives.                                        *)
LEMMA Operands ==
  ASSUME NEW f \in Records
  PROVE  /\ f.type \in Quantifiers \cup {"Negation"} =>
              /\ f.kids = <<f.kids[1]>> /\ DOMAIN f.kids = {1}
              /\ f.kids[1] \in Records /\ f.kids[1].type \notin TermTypes
              /\ Height(f.kids[1]) \in 1 .. MaxHeight
              /\ Height(f.kids[1]) + 1 <= Height(f)
         /\ f.type \in Binary =>
              /\ f.kids = <<f.kids[1], f.kids[2]>> /\ DOMAIN f.kids = {1, 2}
              /\ f.kids[1] \in Records /\ f.kids[2] \in Records
              /\ f.type # "Equal" => /\ f.kids[1].type \notin TermTypes
                                     /\ f.kids[2].type \notin TermTypes
              /\ Height(f.kids[1]) \in 1 .. MaxHeight
              /\ Height(f.kids[2]) \in 1 .. MaxHeight
              /\ Height(f.kids[1]) + Weight(f.type) <= Height(f)
              /\ Height(f.kids[2]) + Weight(f.type) <= Height(f)
         /\ Height(f) \in 1 .. MaxHeight
<1>1. Height(f) \in 1 .. MaxHeight
  BY RecordFacts
<1>2. ASSUME f.type \in Quantifiers \cup {"Negation"}
      PROVE  /\ f.kids = <<f.kids[1]>> /\ DOMAIN f.kids = {1}
             /\ f.kids[1] \in Records /\ f.kids[1].type \notin TermTypes
             /\ Height(f.kids[1]) \in 1 .. MaxHeight
             /\ Height(f.kids[1]) + 1 <= Height(f)
  <2>1. Len(f.kids) = 1 /\ f.kids \in Seq(Records)
    BY <1>2, Kids DEF Shaped
  <2>2. DOMAIN f.kids = {1} /\ f.kids = <<f.kids[1]>>
    BY <2>1
  <2>3. f.kids[1].type \notin TermTypes
    BY <1>2, <2>2, Kids DEF Shaped, Logical, Quantifiers
  <2>4. Weight(f.type) = 1
    BY <1>2 DEF Weight, Quantifiers
  <2> QED BY <2>2, <2>3, <2>4, RecordFacts
<1>3. ASSUME f.type \in Binary
      PROVE  /\ f.kids = <<f.kids[1], f.kids[2]>> /\ DOMAIN f.kids = {1, 2}
             /\ f.kids[1] \in Records /\ f.kids[2] \in Records
             /\ f.type # "Equal" => /\ f.kids[1].type \notin TermTypes
                                    /\ f.kids[2].type \notin TermTypes
             /\ Height(f.kids[1]) \in 1 .. MaxHeight
             /\ Height(f.kids[2]) \in 1 .. MaxHeight
             /\ Height(f.kids[1]) + Weight(f.type) <= Height(f)
             /\ Height(f.kids[2]) + Weight(f.type) <= Height(f)
  <2>1. Len(f.kids) = 2 /\ f.kids \in Seq(Records)
    BY <1>3, Kids DEF Shaped
  <2>2. DOMAIN f.kids = {1, 2} /\ f.kids = <<f.kids[1], f.kids[2]>>
    BY <2>1
  <2>3. f.type # "Equal" => /\ f.kids[1].type \notin TermTypes
                            /\ f.kids[2].type \notin TermTypes
    BY <1>3, <2>2, Kids DEF Shaped, Logical, Binary
  <2> QED BY <2>2, <2>3, RecordFacts
<1> QED BY <1>1, <1>2, <1>3

(* removeExtraNots leaves no double negation on top.                       *)
LEMMA ExtraNotsGone ==
  \A f \in Records :
    /\ removeExtraNots[f] \in Records
    /\ Height(removeExtraNots[f]) <= Height(f)
    /\ f.type \notin TermTypes => removeExtraNots[f].type \notin TermTypes
    /\ removeExtraNots[f].type = "Negation" =>
         removeExtraNots[f].kids[1].type # "Negation"
<1> DEFINE T == {f \in Records :
              /\ removeExtraNots[f] \in Records
              /\ Height(removeExtraNots[f]) <= Height(f)
              /\ f.type \notin TermTypes => removeExtraNots[f].type \notin TermTypes
              /\ removeExtraNots[f].type = "Negation" =>
                   removeExtraNots[f].kids[1].type # "Negation"}
<1>1. ASSUME NEW f \in Records,
             \A y \in Records : Height(y) < Height(f) => y \in T
      PROVE  f \in T
  <2>1. CASE f.type = "Negation" /\ f.kids[1].type = "Negation"
    <3> DEFINE g == f.kids[1].kids[1]
    <3>1. /\ g \in Records /\ Height(g) < Height(f) /\ g.type \notin TermTypes
          /\ Height(g) \in Nat /\ Height(f) \in Nat
      BY <2>1, Operands, Kids, HeightAssumption
    <3>2. removeExtraNots[f] = removeExtraNots[g]
      BY <2>1, ExtraNotsDef DEF ExtraNotsBody
    <3>3. g \in T
      BY <1>1, <3>1
    <3>4. Height(removeExtraNots[g]) \in Nat
      BY <3>3, HeightIsNumber
    <3> QED BY <3>1, <3>2, <3>3, <3>4
  <2>2. CASE ~ (f.type = "Negation" /\ f.kids[1].type = "Negation")
    <3>1. removeExtraNots[f] = f
      BY <2>2, ExtraNotsDef DEF ExtraNotsBody
    <3>2. Height(f) \in Nat
      BY HeightIsNumber
    <3> QED BY <2>2, <3>1, <3>2
  <2> QED BY <2>1, <2>2
<1> HIDE DEF T
<1>2. Records \subseteq T
  BY <1>1, HeightInduction
<1> QED BY <1>2 DEF T
(* PushNot, case by case.                                                  *)
LEMMA PushNotCases ==
  ASSUME NEW g
  PROVE  LET k == g.kids[1] IN
         /\ k.type = "Or" =>
              PushNot(g) = Join("And", Not(k.kids[1]), Not(k.kids[2]))
         /\ k.type = "And" =>
              PushNot(g) = Join("Or", Not(k.kids[1]), Not(k.kids[2]))
         /\ k.type = "Universal" =>
              PushNot(g) = Bind("Existential", k.name, Not(k.kids[1]))
         /\ k.type = "Existential" =>
              PushNot(g) = Bind("Universal", k.name, Not(k.kids[1]))
         /\ k.type \notin {"Or", "And", "Universal", "Existential"} =>
              PushNot(g) = g
  BY DEF PushNot

(* Whatever f becomes, demorgans goes on with records below its height.    *)
LEMMA PushedKids ==
  ASSUME NEW f \in Records
  PROVE  \A i \in DOMAIN Pushed(f).kids :
           /\ Pushed(f).kids[i] \in Records
           /\ Height(Pushed(f).kids[i]) < Height(f)
<1> DEFINE g == removeExtraNots[f]
           k == g.kids[1]
<1>1. /\ g \in Records /\ Height(g) <= Height(f)
      /\ Height(g) \in Nat /\ Height(f) \in Nat
  BY ExtraNotsGone, HeightIsNumber
<1> HIDE DEF g
<1>2. \A i \in DOMAIN g.kids : /\ g.kids[i] \in Records
                               /\ Height(g.kids[i]) < Height(f)
  BY <1>1, Kids, HeightIsNumber
<1>3. g.type # "Negation" => Pushed(f) = g
  BY DEF Pushed, g
<1>4. ASSUME g.type = "Negation"
      PROVE  Pushed(f) = PushNot(g) /\ k \in Records /\ Height(k) < Height(g)
             /\ Height(k) \in 1 .. MaxHeight
  BY <1>1, <1>4, Operands, Kids DEF Pushed, g
<1>5. ASSUME NEW a \in Records, a.type \notin TermTypes,
             Height(a) \in Nat, Height(a) + 1 <= Height(k),
             g.type = "Negation"
      PROVE  Not(a) \in Records /\ Height(Not(a)) < Height(f)
  <2>1. Height(k) \in 1 .. MaxHeight /\ Height(k) < Height(g)
    BY <1>4, <1>5
  <2>2. Not(a) \in Records /\ Height(Not(a)) \in 1 .. Height(k)
    BY <1>5, <2>1, NotRecord
  <2> QED BY <1>1, <2>1, <2>2, HeightAssumption
<1> HIDE DEF k
<1>6. CASE g.type = "Negation" /\ k.type \in {"Or", "And"}
  <2>1. /\ k.kids[1] \in Records /\ k.kids[1].type \notin TermTypes
        /\ k.kids[2] \in Records /\ k.kids[2].type \notin TermTypes
        /\ Height(k.kids[1]) + 1 <= Height(k)
        /\ Height(k.kids[2]) + 1 <= Height(k)
        /\ Height(k.kids[1]) \in Nat /\ Height(k.kids[2]) \in Nat
    BY <1>4, <1>6, Operands, HeightAssumption DEF Binary, Weight
  <2>2. Pushed(f).kids = <<Not(k.kids[1]), Not(k.kids[2])>>
    BY <1>4, <1>6, PushNotCases DEF Join, Semantic, k
  <2> QED BY <1>5, <1>6, <2>1, <2>2
<1>7. CASE g.type = "Negation" /\ k.type \in Quantifiers
  <2>1. /\ k.kids[1] \in Records /\ k.kids[1].type \notin TermTypes
        /\ Height(k.kids[1]) + 1 <= Height(k) /\ Height(k.kids[1]) \in Nat
    BY <1>4, <1>7, Operands, HeightAssumption
  <2>2. Pushed(f).kids = <<Not(k.kids[1])>>
    BY <1>4, <1>7, PushNotCases DEF Bind, Semantic, Quantifiers, k
  <2> QED BY <1>5, <1>7, <2>1, <2>2
<1>8. CASE g.type = "Negation" /\ k.type \notin {"Or", "And"} \cup Quantifiers
  <2>1. Pushed(f) = g
    BY <1>4, <1>8, PushNotCases DEF Quantifiers, k
  <2> QED BY <1>2, <2>1
<1>9. CASE g.type # "Negation"
  BY <1>2, <1>3, <1>9
<1> QED BY <1>6, <1>7, <1>8, <1>9

(* demorgans satisfies its definition.                                     *)
LEMMA DemorgansDef ==
  \A f \in Records : demorgans[f] = DemorgansBody(demorgans, f)
<1>1. ASSUME NEW f \in Records, NEW g, NEW h, Alike(g, h, f)
      PROVE  DemorgansBody(g, f) = DemorgansBody(h, f)
  <2>1. \A i \in DOMAIN Pushed(f).kids :
          g[Pushed(f).kids[i]] = h[Pushed(f).kids[i]]
    BY <1>1, PushedKids DEF Alike
  <2> QED BY <2>1 DEF DemorgansBody, OnBranches
<1>2. \A g, f : Body("demorgans", 0, g, f) = DemorgansBody(g, f)
  BY DEF Body
<1>3. \E g : g = [f \in Records |-> DemorgansBody(g, f)]
  BY <1>1, <1>2, RecordFunction
<1>4. demorgans = [f \in Records |-> DemorgansBody(demorgans, f)]
  BY <1>3 DEF demorgans, DemorgansBody, Pushed
<1> QED BY <1>4

(* removeUniversals satisfies its definition.                              *)
LEMMA UniversalsDef ==
  \A f \in Records : removeUniversals[f] = UniversalsBody(removeUniversals, f)
<1>1. \A f \in Records : \A g, h : Alike(g, h, f) =>
        UniversalsBody(g, f) = UniversalsBody(h, f)
  BY AlikeBranches DEF UniversalsBody
<1>2. \A g, f : Body("removeUniversals", 0, g, f) = UniversalsBody(g, f)
  BY DEF Body
<1>3. \E g : g = [f \in Records |-> UniversalsBody(g, f)]
  <2>1. \A f \in Records : \A g, h : Alike(g, h, f) =>
          Body("removeUniversals", 0, g, f) = Body("removeUniversals", 0, h, f)
    BY <1>1, <1>2
  <2>2. \E g : g = [f \in Records |-> Body("removeUniversals", 0, g, f)]
    BY <2>1, RecordFunction
  <2> QED BY <1>2, <2>2
<1>4. removeUniversals = [f \in Records |-> UniversalsBody(removeUniversals, f)]
  BY <1>3, Zenon DEF removeUniversals, UniversalsBody
<1> QED BY <1>4

(* removeAnds satisfies its definition.                                    *)
LEMMA AndsDef == \A f \in Records : removeAnds[f] = AndsBody(removeAnds, f)
<1>1. ASSUME NEW f \in Records, NEW g, NEW h, Alike(g, h, f)
      PROVE  AndsBody(g, f) = AndsBody(h, f)
  <2>1. f.type = "And" => g[f.kids[1]] = h[f.kids[1]] /\ g[f.kids[2]] = h[f.kids[2]]
    <3>1. f.type = "And" => 1 \in DOMAIN f.kids /\ 2 \in DOMAIN f.kids
      BY Operands DEF Binary
    <3> QED BY <1>1, <3>1, AlikeBranches
  <2> QED BY <2>1 DEF AndsBody
<1>2. \A g, f : Body("removeAnds", 0, g, f) = AndsBody(g, f)
  BY DEF Body
<1>3. \E g : g = [f \in Records |-> AndsBody(g, f)]
  <2>1. \A f \in Records : \A g, h : Alike(g, h, f) =>
          Body("removeAnds", 0, g, f) = Body("removeAnds", 0, h, f)
    BY <1>1, <1>2
  <2>2. \E g : g = [f \in Records |-> Body("removeAnds", 0, g, f)]
    BY <2>1, RecordFunction
  <2> QED BY <1>2, <2>2
<1>4. removeAnds = [f \in Records |-> AndsBody(removeAnds, f)]
  BY <1>3, Zenon DEF removeAnds, AndsBody
<1> QED BY <1>4

(* removeOrs satisfies its definition.                                     *)
LEMMA OrsDef == \A f \in Records : removeOrs[f] = OrsBody(removeOrs, f)
<1>1. ASSUME NEW f \in Records, NEW g, NEW h, Alike(g, h, f)
      PROVE  OrsBody(g, f) = OrsBody(h, f)
  <2>1. f.type = "Or" => g[f.kids[1]] = h[f.kids[1]] /\ g[f.kids[2]] = h[f.kids[2]]
    <3>1. f.type = "Or" => 1 \in DOMAIN f.kids /\ 2 \in DOMAIN f.kids
      BY Operands DEF Binary
    <3> QED BY <1>1, <3>1, AlikeBranches
  <2> QED BY <2>1 DEF OrsBody
<1>2. \A g, f : Body("removeOrs", 0, g, f) = OrsBody(g, f)
  BY DEF Body
<1>3. \E g : g = [f \in Records |-> OrsBody(g, f)]
  <2>1. \A f \in Records : \A g, h : Alike(g, h, f) =>
          Body("removeOrs", 0, g, f) = Body("removeOrs", 0, h, f)
    BY <1>1, <1>2
  <2>2. \E g : g = [f \in Records |-> Body("removeOrs", 0, g, f)]
    BY <2>1, RecordFunction
  <2> QED BY <1>2, <2>2
<1>4. removeOrs = [f \in Records |-> OrsBody(removeOrs, f)]
  BY <1>3, Zenon DEF removeOrs, OrsBody
<1> QED BY <1>4
-----------------------------------------------------------------------------
(* The functions that hand data from kid to kid.                           *)

VisitBody(op, f, data, env, v, i) ==
  IF i = 0 THEN [kids |-> <<>>, data |-> data]
  ELSE LET before == v[i - 1]
           r == op[f.kids[i]][before.data][env]
       IN [kids |-> Append(before.kids, r.f), data |-> r.data]

(* The visits of Traverse satisfy their recursive definition.              *)
LEMMA VisitDef ==
  ASSUME NEW op, NEW f, NEW data, NEW env, Len(f.kids) \in Nat
  PROVE  \E v :
           /\ v = [i \in 0 .. Len(f.kids) |-> VisitBody(op, f, data, env, v, i)]
           /\ Traverse(op, f, data, env) =
                [f |-> [f EXCEPT !.kids = v[Len(f.kids)].kids],
                 data |-> v[Len(f.kids)].data]
<1> DEFINE B(v, i) == VisitBody(op, f, data, env, v, i)
           T == {n \in Nat : \E v : v = [i \in 0 .. n |-> B(v, i)]}
<1>1. 0 \in T
  <2> DEFINE v == [i \in 0 .. 0 |-> [kids |-> <<>>, data |-> data]]
  <2>1. v = [i \in 0 .. 0 |-> B(v, i)]
    BY DEF VisitBody
  <2> QED BY <2>1
<1>2. ASSUME NEW n \in T PROVE n + 1 \in T
  <2>1. PICK v : v = [i \in 0 .. n |-> B(v, i)]
    OBVIOUS
  <2> DEFINE w == [i \in 0 .. n + 1 |-> B(v, i)]
  <2>2. ASSUME NEW i \in 0 .. n + 1 PROVE B(v, i) = B(w, i)
    <3>1. i # 0 => i - 1 \in 0 .. n /\ i - 1 \in 0 .. n + 1
      OBVIOUS
    <3>2. i # 0 => v[i - 1] = w[i - 1]
      BY <2>1, <3>1
    <3> HIDE DEF w
    <3> QED BY <3>2, Zenon DEF VisitBody
  <2>3. w = [i \in 0 .. n + 1 |-> B(w, i)]
    BY <2>2
  <2> HIDE DEF w
  <2> QED BY <2>3
<1>3. T = Nat
  <2> HIDE DEF T
  <2>1. T \in SUBSET Nat
    BY DEF T
  <2> QED BY <1>1, <1>2, <2>1, NumberInduction
<1>4. \E v : v = [i \in 0 .. Len(f.kids) |-> B(v, i)]
  BY <1>3
<1> DEFINE V == CHOOSE v : v = [i \in 0 .. Len(f.kids) |-> B(v, i)]
<1>5. V = [i \in 0 .. Len(f.kids) |-> B(V, i)]
  BY <1>4
<1>6. Traverse(op, f, data, env) =
        [f |-> [f EXCEPT !.kids = V[Len(f.kids)].kids],
         data |-> V[Len(f.kids)].data]
  BY DEF Traverse, VisitBody
<1> HIDE DEF V
<1> QED BY <1>5, <1>6, Zenon
(* d[i] is the data after the first i kids.                                *)
Threads(d, op, f, data, env) ==
  /\ d = [i \in 0 .. Len(f.kids) |-> d[i]]
  /\ d[0] = data
  /\ \A i \in 1 .. Len(f.kids) : d[i] = op[f.kids[i]][d[i - 1]][env].data

(* Traverse gives every kid what the one before has left.                  *)
LEMMA TraverseThreads ==
  ASSUME NEW op, NEW f, NEW data, NEW env, Len(f.kids) \in Nat
  PROVE  \E d :
           /\ Threads(d, op, f, data, env)
           /\ Traverse(op, f, data, env) =
                [f |-> [f EXCEPT !.kids = [i \in 1 .. Len(f.kids) |->
                                             op[f.kids[i]][d[i - 1]][env].f]],
                 data |-> d[Len(f.kids)]]
<1> DEFINE n == Len(f.kids)
<1>1. PICK v :
        /\ v = [i \in 0 .. n |-> VisitBody(op, f, data, env, v, i)]
        /\ Traverse(op, f, data, env) =
             [f |-> [f EXCEPT !.kids = v[n].kids], data |-> v[n].data]
  BY VisitDef
<1> DEFINE d == [i \in 0 .. n |-> v[i].data]
           new == [i \in 1 .. n |-> op[f.kids[i]][d[i - 1]][env].f]
<1>n. n \in Nat
  OBVIOUS
<1> HIDE DEF n
<1>d. /\ \A i \in 0 .. n : d[i] = v[i].data
      /\ \A i \in 1 .. n : new[i] = op[f.kids[i]][d[i - 1]][env].f
      /\ d = [i \in 0 .. n |-> d[i]] /\ new = [i \in 1 .. n |-> new[i]]
  OBVIOUS
<1> HIDE DEF d, new
<1>2. v[0] = [kids |-> <<>>, data |-> data]
  <2>1. 0 \in 0 .. n
    BY DEF n
  <2> QED BY <1>1, <2>1, Zenon DEF VisitBody
<1>3. ASSUME NEW i \in 1 .. n
      PROVE  /\ v[i].kids = Append(v[i - 1].kids, new[i])
             /\ d[i] = op[f.kids[i]][d[i - 1]][env].data
  <2>1. i \in 0 .. n /\ i # 0 /\ i - 1 \in 0 .. n
    BY <1>n
  <2>2. v[i] = VisitBody(op, f, data, env, v, i)
    BY <1>1, <2>1 DEF n
  <2>3. d[i] = v[i].data /\ d[i - 1] = v[i - 1].data
    BY <1>d, <2>1
  <2> DEFINE x == op[f.kids[i]][d[i - 1]][env]
  <2>4. new[i] = x.f
    BY <1>d
  <2>5. v[i] = [kids |-> Append(v[i - 1].kids, x.f), data |-> x.data]
    BY <2>1, <2>2, <2>3 DEF VisitBody
  <2> HIDE DEF x
  <2>6. v[i].kids = Append(v[i - 1].kids, x.f) /\ v[i].data = x.data
    BY <2>5
  <2>7. v[i].kids = Append(v[i - 1].kids, new[i])
    BY <2>4, <2>6
  <2>8. d[i] = x.data
    BY <2>3, <2>6
  <2> QED BY <2>7, <2>8 DEF x
<1>4. Threads(d, op, f, data, env)
  <2>1. d[0] = data
    BY <1>2, <1>d, <1>n
  <2> QED BY <1>3, <1>d, <2>1 DEF Threads, n
<1> DEFINE T == {i \in Nat : i <= n => v[i].kids = [j \in 1 .. i |-> new[j]]}
<1>5. T = Nat
  <2>1. 0 \in T
    BY <1>2
  <2>2. ASSUME NEW i \in T PROVE i + 1 \in T
    <3> SUFFICES ASSUME i + 1 <= n
                 PROVE  v[i + 1].kids = [j \in 1 .. i + 1 |-> new[j]]
      OBVIOUS
    <3>1. i + 1 \in 1 .. n /\ i \in Nat /\ (i + 1) - 1 = i /\ i <= n
      BY <1>n
    <3>2. v[i + 1].kids = Append(v[i].kids, new[i + 1])
      BY <1>3, <3>1
    <3>3. v[i].kids = [j \in 1 .. i |-> new[j]]
      BY <3>1
    <3>4. Append([j \in 1 .. i |-> new[j]], new[i + 1])
            = [j \in 1 .. i + 1 |-> new[j]]
      BY <3>1
    <3> QED BY <3>2, <3>3, <3>4
  <2>3. T \in SUBSET Nat
    OBVIOUS
  <2> HIDE DEF T
  <2> QED BY <2>1, <2>2, <2>3, NumberInduction
<1>6. v[n].kids = new
  BY <1>5, <1>d, <1>n
<1>7. d[n] = v[n].data
  BY <1>d, <1>n
<1> QED BY <1>1, <1>4, <1>6, <1>7 DEF n, new
(* g and h agree on the kids of f.                                         *)
AlikeBelow(g, h, f) ==
  /\ Len(f.kids) \in Nat
  /\ \A i \in 1 .. Len(f.kids) : g[f.kids[i]] = h[f.kids[i]]

Coincide(d, e, f) == \A i \in 0 .. Len(f.kids) : d[i] = e[i]

(* Two functions that agree on the kids have the same threads.             *)
LEMMA SameThread ==
  ASSUME NEW f, NEW g, NEW h, NEW data, NEW env, AlikeBelow(g, h, f)
  PROVE  \A d, e : Threads(d, g, f, data, env) /\ Threads(e, h, f, data, env)
           => Coincide(d, e, f)
<1> SUFFICES ASSUME NEW d, Threads(d, g, f, data, env),
                    NEW e, Threads(e, h, f, data, env)
             PROVE  \A i \in 0 .. Len(f.kids) : d[i] = e[i]
  BY DEF Coincide
<1>0. /\ Len(f.kids) \in Nat
      /\ \A i \in 1 .. Len(f.kids) : g[f.kids[i]] = h[f.kids[i]]
  BY DEF AlikeBelow
<1> DEFINE T == {i \in Nat : i <= Len(f.kids) => d[i] = e[i]}
<1>1. 0 \in T
  BY DEF Threads
<1>2. ASSUME NEW i \in T PROVE i + 1 \in T
  <2> SUFFICES ASSUME i + 1 <= Len(f.kids) PROVE d[i + 1] = e[i + 1]
    OBVIOUS
  <2>1. i + 1 \in 1 .. Len(f.kids) /\ (i + 1) - 1 = i /\ d[i] = e[i]
    BY <1>0
  <2>2. d[i + 1] = g[f.kids[i + 1]][d[i]][env].data
    BY <2>1 DEF Threads
  <2>3. e[i + 1] = h[f.kids[i + 1]][e[i]][env].data
    BY <2>1 DEF Threads
  <2> QED BY <1>0, <2>1, <2>2, <2>3
<1>3. T \in SUBSET Nat
  OBVIOUS
<1> HIDE DEF T
<1>4. T = Nat
  BY <1>1, <1>2, <1>3, NumberInduction
<1> QED BY <1>0, <1>4 DEF T

(* Functions that agree on the kids of f traverse f alike.                 *)
LEMMA TraverseAlike ==
  ASSUME NEW f, NEW g, NEW h, NEW data, NEW env, AlikeBelow(g, h, f)
  PROVE  Traverse(g, f, data, env) = Traverse(h, f, data, env)
<1>0. /\ Len(f.kids) \in Nat
      /\ \A i \in 1 .. Len(f.kids) : g[f.kids[i]] = h[f.kids[i]]
  BY DEF AlikeBelow
<1>1. PICK d :
        /\ Threads(d, g, f, data, env)
        /\ Traverse(g, f, data, env) =
             [f |-> [f EXCEPT !.kids = [i \in 1 .. Len(f.kids) |->
                                          g[f.kids[i]][d[i - 1]][env].f]],
              data |-> d[Len(f.kids)]]
  BY <1>0, TraverseThreads
<1>2. PICK e :
        /\ Threads(e, h, f, data, env)
        /\ Traverse(h, f, data, env) =
             [f |-> [f EXCEPT !.kids = [i \in 1 .. Len(f.kids) |->
                                          h[f.kids[i]][e[i - 1]][env].f]],
              data |-> e[Len(f.kids)]]
  BY <1>0, TraverseThreads
<1>3. \A i \in 0 .. Len(f.kids) : d[i] = e[i]
  <2>1. Threads(d, g, f, data, env) /\ Threads(e, h, f, data, env)
    BY <1>1, <1>2
  <2>2. Coincide(d, e, f)
    BY <2>1, SameThread
  <2> QED BY <2>2 DEF Coincide
<1>4. [i \in 1 .. Len(f.kids) |-> g[f.kids[i]][d[i - 1]][env].f]
        = [i \in 1 .. Len(f.kids) |-> h[f.kids[i]][e[i - 1]][env].f]
  BY <1>0, <1>3
<1>5. d[Len(f.kids)] = e[Len(f.kids)]
  BY <1>0, <1>3
<1> QED BY <1>1, <1>2, <1>4, <1>5

(* What every kid keeps, the thread keeps.                                 *)
LEMMA ThreadWithin ==
  ASSUME NEW f, Len(f.kids) \in Nat, NEW op, NEW data, NEW env,
         NEW d, Threads(d, op, f, data, env),
         NEW D, data \in D,
         \A i \in 1 .. Len(f.kids) : \A x \in D :
           op[f.kids[i]][x][env].data \in D
  PROVE  \A i \in 0 .. Len(f.kids) : d[i] \in D
<1> DEFINE T == {i \in Nat : i <= Len(f.kids) => d[i] \in D}
<1>1. 0 \in T
  BY DEF Threads
<1>2. ASSUME NEW i \in T PROVE i + 1 \in T
  <2> SUFFICES ASSUME i + 1 <= Len(f.kids) PROVE d[i + 1] \in D
    OBVIOUS
  <2>1. i + 1 \in 1 .. Len(f.kids) /\ (i + 1) - 1 = i /\ d[i] \in D
    OBVIOUS
  <2> QED BY <2>1 DEF Threads
<1>3. T \in SUBSET Nat
  OBVIOUS
<1> HIDE DEF T
<1>4. T = Nat
  BY <1>1, <1>2, <1>3, NumberInduction
<1> QED BY <1>4 DEF T

(* A counter that never falls from one to the next never falls.            *)
LEMMA NeverFalls ==
  ASSUME NEW n \in Nat, NEW c, \A i \in 0 .. n : c[i] \in Nat,
         \A i \in 1 .. n : c[i - 1] <= c[i]
  PROVE  \A i, j \in 0 .. n : i <= j => c[i] <= c[j]
<1> SUFFICES ASSUME NEW i \in 0 .. n
             PROVE  \A j \in 0 .. n : i <= j => c[i] <= c[j]
  OBVIOUS
<1> DEFINE T == {k \in Nat : k <= n /\ i <= k => c[i] <= c[k]}
<1>1. 0 \in T
  OBVIOUS
<1>2. ASSUME NEW k \in T PROVE k + 1 \in T
  <2> SUFFICES ASSUME k + 1 <= n, i <= k + 1 PROVE c[i] <= c[k + 1]
    OBVIOUS
  <2>1. /\ k + 1 \in 1 .. n /\ k \in 0 .. n /\ k + 1 \in 0 .. n
        /\ (k + 1) - 1 = k
    OBVIOUS
  <2>2. c[k] <= c[k + 1] /\ c[k] \in Nat /\ c[k + 1] \in Nat /\ c[i] \in Nat
    BY <2>1
  <2>3. CASE i <= k
    BY <2>1, <2>2, <2>3
  <2>4. CASE i = k + 1
    BY <2>2, <2>4
  <2> QED BY <2>3, <2>4
<1>3. T \in SUBSET Nat
  OBVIOUS
<1> HIDE DEF T
<1>4. T = Nat
  BY <1>1, <1>2, <1>3, NumberInduction
<1> QED BY <1>4 DEF T

(* A traversal of a record with another name visits the same kids.         *)
LEMMA TraverseRenamed ==
  ASSUME NEW f \in Records, NEW g, NEW h, Alike(g, h, f),
         NEW name, NEW data, NEW env
  PROVE  Traverse(g, [f EXCEPT !.name = name], data, env)
           = Traverse(h, [f EXCEPT !.name = name], data, env)
<1>1. \A i \in 1 .. Len(f.kids) : g[f.kids[i]] = h[f.kids[i]]
  BY AlikeBranches, Kids
<1>2. Len(f.kids) \in Nat /\ f = Semantic(f.type, f.name, f.kids)
  BY Kids
<1> DEFINE e == [f EXCEPT !.name = name]
<1>3. e.kids = f.kids
  BY <1>2 DEF Semantic
<1> HIDE DEF e
<1>4. Traverse(g, e, data, env) = Traverse(h, e, data, env)
  BY <1>1, <1>2, <1>3, TraverseAlike DEF AlikeBelow
<1> QED BY <1>4 DEF e

(* The same for functions that agree below f.                              *)
LEMMA TraverseSame ==
  ASSUME NEW f \in Records, NEW g, NEW h, Alike(g, h, f), NEW data, NEW env
  PROVE  Traverse(g, f, data, env) = Traverse(h, f, data, env)
<1>1. \A i \in 1 .. Len(f.kids) : g[f.kids[i]] = h[f.kids[i]]
  BY AlikeBranches, Kids
<1>2. Len(f.kids) \in Nat
  BY Kids
<1> QED BY <1>1, <1>2, TraverseAlike DEF AlikeBelow

(* renameWith satisfies its definition.                                    *)
LEMMA RenameWithDef ==
  \A f \in Records : renameWith[f] = RenameBody(renameWith, f)
<1>1. ASSUME NEW f \in Records, NEW g, NEW h, Alike(g, h, f)
      PROVE  RenameBody(g, f) = RenameBody(h, f)
  <2> DEFINE G(op, name, data, env) == Traverse(op, [f EXCEPT !.name = name], data, env)
             B(op) ==
               [counter_ \in Nat |-> [renames \in Seq(AnyName \X AnyName) |->
                  IF f.type \in Quantifiers
                  THEN LET new == uniqueName(IF f.type = "Universal" THEN "uvar"
                                             ELSE "xvar", counter_)
                       IN G(op, new, counter_ + 1, <<<<f.name, new>>>> \o renames)
                  ELSE G(op, Find(renames, f.name, f.name), counter_, renames)]]
  <2>1. RenameBody(g, f) = B(g) /\ RenameBody(h, f) = B(h)
    BY DEF RenameBody
  <2>2. \A name, data, env : G(g, name, data, env) = G(h, name, data, env)
    BY <1>1, TraverseRenamed
  <2> HIDE DEF G
  <2>3. B(g) = B(h)
    BY <2>2
  <2> QED BY <2>1, <2>3
<1>2. \A g, f : Body("renameWith", 0, g, f) = RenameBody(g, f)
  BY DEF Body
<1>3. \E g : g = [f \in Records |-> RenameBody(g, f)]
  <2>1. \A f \in Records : \A g, h : Alike(g, h, f) =>
          Body("renameWith", 0, g, f) = Body("renameWith", 0, h, f)
    BY <1>1, <1>2
  <2>2. \E g : g = [f \in Records |-> Body("renameWith", 0, g, f)]
    BY <2>1, RecordFunction
  <2> QED BY <1>2, <2>2
<1>4. renameWith = [f \in Records |-> RenameBody(renameWith, f)]
  BY <1>3 DEF renameWith, RenameBody
<1> QED BY <1>4

(* skolemizeIn satisfies its definition.                                   *)
LEMMA SkolemizeDef ==
  \A f \in Records : skolemizeIn[f] = SkolemizeBody(skolemizeIn, f)
<1>1. ASSUME NEW f \in Records, NEW g, NEW h, Alike(g, h, f)
      PROVE  SkolemizeBody(g, f) = SkolemizeBody(h, f)
  <2>1. \A data, env : Traverse(g, f, data, env) = Traverse(h, f, data, env)
    BY <1>1, TraverseSame
  <2>2. f.type = "Existential" => g[f.kids[1]] = h[f.kids[1]]
    BY <1>1, AlikeBranches, Operands DEF Quantifiers
  <2> QED BY <2>1, <2>2 DEF SkolemizeBody
<1>2. \A g, f : Body("skolemizeIn", 0, g, f) = SkolemizeBody(g, f)
  BY DEF Body
<1>3. \E g : g = [f \in Records |-> SkolemizeBody(g, f)]
  BY <1>1, <1>2, RecordFunction
<1>4. skolemizeIn = [f \in Records |-> SkolemizeBody(skolemizeIn, f)]
  BY <1>3, Zenon DEF skolemizeIn, SkolemizeBody
<1> QED BY <1>4

(* renameAll satisfies its definition.                                     *)
LEMMA RenameAllDef ==
  \A f \in Records : renameAll[f] = RenameAllBody(renameAll, f)
<1>1. ASSUME NEW f \in Records, NEW g, NEW h, Alike(g, h, f)
      PROVE  RenameAllBody(g, f) = RenameAllBody(h, f)
  <2>1. \A data, env : Traverse(g, f, data, env) = Traverse(h, f, data, env)
    BY <1>1, TraverseSame
  <2> QED BY <2>1 DEF RenameAllBody
<1>2. \A g, f : Body("renameAll", 0, g, f) = RenameAllBody(g, f)
  BY DEF Body
<1>3. \E g : g = [f \in Records |-> RenameAllBody(g, f)]
  BY <1>1, <1>2, RecordFunction
<1>4. renameAll = [f \in Records |-> RenameAllBody(renameAll, f)]
  BY <1>3 DEF renameAll, RenameAllBody
<1> QED BY <1>4
-----------------------------------------------------------------------------
(* The passes of the distribution.                                         *)

(* Lift, case by case, with And below Or and with Or below And.            *)
LEMMA LiftOrCases ==
  ASSUME NEW f
  PROVE  LET x == f.kids[1]
             y == f.kids[2]
         IN /\ f.type = "Or" /\ x.type = "And" =>
                 Lift(f, "Or", "And", "Or") =
                   Join("And", Join("Or", x.kids[1], y), Join("Or", x.kids[2], y))
            /\ f.type = "Or" /\ x.type # "And" /\ y.type = "And" =>
                 Lift(f, "Or", "And", "Or") =
                   Join("And", Join("Or", x, y.kids[1]), Join("Or", x, y.kids[2]))
            /\ f.type # "Or" \/ (x.type # "And" /\ y.type # "And") =>
                 Lift(f, "Or", "And", "Or") = f
  BY DEF Lift, Join, Semantic

(* What distributionAndsOverOrs makes of the root of f.                    *)
LEMMA LiftAndCases ==
  ASSUME NEW f
  PROVE  LET x == f.kids[1]
             y == f.kids[2]
             z == Join("Or", x.kids[1], y)
         IN /\ f.type = "And" /\ x.type = "Or" =>
                 Lift(f, "And", "Or", "Or") =
                   Join("Or", Join("Or", z, x.kids[2]), Join("Or", z, y))
            /\ f.type = "And" /\ x.type # "Or" /\ y.type = "Or" =>
                 Lift(f, "And", "Or", "Or") =
                   Join("Or", Join("Or", x, y.kids[1]), Join("Or", x, y.kids[2]))
            /\ f.type # "And" \/ (x.type # "Or" /\ y.type # "Or") =>
                 Lift(f, "And", "Or", "Or") = f
  BY Zenon DEF Lift, Join, Semantic

(* Size satisfies its definition, and is a number.                         *)
LEMMA SizeDef ==
  \A f \in Records : Size[f] = SizeBody(Size, f) /\ Size[f] \in Nat
<1>1. ASSUME NEW f \in Records, NEW g, NEW h, Alike(g, h, f)
      PROVE  SizeBody(g, f) = SizeBody(h, f)
  BY <1>1, AlikeBranches, Operands DEF SizeBody
<1>2. \A g, f : Body("Size", 0, g, f) = SizeBody(g, f)
  BY DEF Body
<1>3. \E g : g = [f \in Records |-> SizeBody(g, f)]
  <2>1. \A f \in Records : \A g, h : Alike(g, h, f) =>
          Body("Size", 0, g, f) = Body("Size", 0, h, f)
    BY <1>1, <1>2
  <2>2. \E g : g = [f \in Records |-> Body("Size", 0, g, f)]
    BY <2>1, RecordFunction
  <2> QED BY <1>2, <2>2
<1>4. Size = [f \in Records |-> SizeBody(Size, f)]
  BY <1>3, Zenon DEF Size, SizeBody
<1> DEFINE T == {f \in Records : Size[f] \in Nat}
<1>5. ASSUME NEW f \in Records, \A i \in DOMAIN f.kids : f.kids[i] \in T
      PROVE  f \in T
  <2>1. Size[f] = SizeBody(Size, f)
    BY <1>4
  <2>2. CASE f.type \in Binary
    BY <1>5, <2>1, <2>2, Operands DEF SizeBody
  <2>3. CASE f.type \notin Binary /\ f.type \in Quantifiers \cup {"Negation"}
    BY <1>5, <2>1, <2>3, Operands DEF SizeBody
  <2>4. CASE f.type \notin Binary /\ f.type \notin Quantifiers \cup {"Negation"}
    BY <2>1, <2>4 DEF SizeBody
  <2> QED BY <2>2, <2>3, <2>4
<1> HIDE DEF T
<1>6. Records \subseteq T
  BY <1>5, RecordInduction
<1> QED BY <1>4, <1>6 DEF T

(* The sizes of the operands, and of a disjunction that is made.           *)
LEMMA SizeFacts ==
  ASSUME NEW f \in Records
  PROVE  /\ Size[f] \in Nat
         /\ f.type \in Binary =>
              /\ Size[f] = 1 + Size[f.kids[1]] + Size[f.kids[2]]
              /\ Size[f.kids[1]] \in Nat \ {0} /\ Size[f.kids[2]] \in Nat \ {0}
         /\ f.type \in Quantifiers \cup {"Negation"} =>
              Size[f] = 1 + Size[f.kids[1]] /\ Size[f.kids[1]] \in Nat \ {0}
<1>1. \A g \in Records : Size[g] # 0
  <2> TAKE g \in Records
  <2>1. Size[g] = SizeBody(Size, g)
    BY SizeDef
  <2>2. g.type \in Binary => Size[g.kids[1]] \in Nat /\ Size[g.kids[2]] \in Nat
    BY SizeDef, Operands
  <2>3. g.type \in Quantifiers \cup {"Negation"} => Size[g.kids[1]] \in Nat
    BY SizeDef, Operands
  <2> QED BY <2>1, <2>2, <2>3 DEF SizeBody
<1>2. f.type \in Binary => f.type \notin Quantifiers \cup {"Negation"}
  BY DEF Binary, Quantifiers
<1>3. Size[f] = SizeBody(Size, f) /\ Size[f] \in Nat
  BY SizeDef
<1>4. f.type \in Binary => /\ Size[f.kids[1]] \in Nat \ {0}
                           /\ Size[f.kids[2]] \in Nat \ {0}
  BY <1>1, SizeDef, Operands
<1>5. f.type \in Quantifiers \cup {"Negation"} => Size[f.kids[1]] \in Nat \ {0}
  BY <1>1, SizeDef, Operands
<1> QED BY <1>2, <1>3, <1>4, <1>5 DEF SizeBody
(* A disjunction of an operand of an operand of f with an operand of f.    *)
LEMMA MixedOr ==
  ASSUME NEW f \in Records, NEW p \in Records, p.type = "And",
         Height(p) <= Height(f) - 1,
         NEW a \in {p.kids[1], p.kids[2]},
         NEW b \in Records, b.type \notin TermTypes, Height(b) <= Height(f) - 1
  PROVE  /\ Join("Or", a, b) \in Records /\ Join("Or", b, a) \in Records
         /\ a \in Records /\ a.type \notin TermTypes
<1>1. /\ Height(f) \in 1 .. MaxHeight /\ Height(p) \in 1 .. MaxHeight
      /\ Height(b) \in 1 .. MaxHeight
  BY Operands
<1>2. /\ a \in Records /\ a.type \notin TermTypes
      /\ Height(a) \in 1 .. MaxHeight /\ Height(a) + 3 <= Height(p)
  BY Operands DEF Binary, Weight
<1>3. Height(a) + 1 <= Height(f) /\ Height(b) + 1 <= Height(f)
  BY <1>1, <1>2, HeightAssumption
<1>4. "Or" \in Binary \cap Logical /\ Weight("Or") = 1
  BY DEF Binary, Logical, Weight
<1>5. Join("Or", a, b) \in Records /\ Join("Or", b, a) \in Records
  BY <1>1, <1>2, <1>3, <1>4, JoinRecord
<1> QED BY <1>2, <1>5

(* The size of a disjunction.                                              *)
LEMMA OrSize ==
  ASSUME NEW a, NEW b, Join("Or", a, b) \in Records
  PROVE  Size[Join("Or", a, b)] = 1 + Size[a] + Size[b]
<1>1. /\ Join("Or", a, b).type \in Binary /\ Join("Or", a, b).kids[1] = a
      /\ Join("Or", a, b).kids[2] = b
  BY DEF Join, Semantic, Binary
<1> QED BY <1>1, SizeFacts

(* distributionOrsOverAnds goes on with smaller records, though what it    *)
(* lifts may make them higher.                                             *)
LEMMA LiftedOrKids ==
  ASSUME NEW f \in Records, f.type \in Branching
  PROVE  LET g == Lift(f, "Or", "And", "Or")
         IN /\ g.type \in Branching
            /\ \A i \in DOMAIN g.kids :
                 g.kids[i] \in Records /\ Size[g.kids[i]] < Size[f]
<1> DEFINE g == Lift(f, "Or", "And", "Or")
           x == f.kids[1]
           y == f.kids[2]
<1>1. CASE f.type # "Or" \/ (x.type # "And" /\ y.type # "And")
  <2>1. g = f
    BY <1>1, LiftOrCases
  <2>2. CASE f.type \in Binary
    BY <2>1, <2>2, Operands, SizeFacts
  <2>3. CASE f.type \in Quantifiers \cup {"Negation"}
    BY <2>1, <2>3, Operands, SizeFacts
  <2> QED BY <2>1, <2>2, <2>3 DEF Branching
<1>2. ASSUME f.type = "Or"
      PROVE  /\ x \in Records /\ y \in Records
             /\ x.type \notin TermTypes /\ y.type \notin TermTypes
             /\ Height(x) <= Height(f) - 1 /\ Height(y) <= Height(f) - 1
             /\ Size[f] = 1 + Size[x] + Size[y]
             /\ Size[x] \in Nat /\ Size[y] \in Nat
  <2>1. f.type \in Binary /\ f.type # "Equal" /\ Weight(f.type) = 1
    BY <1>2 DEF Binary, Weight
  <2> QED BY <2>1, Operands, SizeFacts, HeightAssumption
<1>3. CASE f.type = "Or" /\ x.type = "And"
  <2> DEFINE l == Join("Or", x.kids[1], y)
             r == Join("Or", x.kids[2], y)
  <2>1. g = Join("And", l, r)
    BY <1>3, LiftOrCases
  <2>2. l \in Records /\ r \in Records
    BY <1>2, <1>3, MixedOr
  <2>3. /\ Size[l] = 1 + Size[x.kids[1]] + Size[y]
        /\ Size[r] = 1 + Size[x.kids[2]] + Size[y]
    BY <2>2, OrSize
  <2>4. /\ Size[x] = 1 + Size[x.kids[1]] + Size[x.kids[2]]
        /\ Size[x.kids[1]] \in Nat \ {0} /\ Size[x.kids[2]] \in Nat \ {0}
    BY <1>2, <1>3, SizeFacts DEF Binary
  <2>5. Size[l] < Size[f] /\ Size[r] < Size[f]
    BY <1>2, <1>3, <2>3, <2>4
  <2> HIDE DEF l, r
  <2>6. g.type = "And" /\ g.kids = <<l, r>>
    BY <2>1 DEF Join, Semantic
  <2> QED BY <2>2, <2>5, <2>6 DEF Branching, Binary
<1>4. CASE f.type = "Or" /\ x.type # "And" /\ y.type = "And"
  <2> DEFINE l == Join("Or", x, y.kids[1])
             r == Join("Or", x, y.kids[2])
  <2>1. g = Join("And", l, r)
    BY <1>4, LiftOrCases
  <2>2. l \in Records /\ r \in Records
    BY <1>2, <1>4, MixedOr
  <2>3. /\ Size[l] = 1 + Size[x] + Size[y.kids[1]]
        /\ Size[r] = 1 + Size[x] + Size[y.kids[2]]
    BY <2>2, OrSize
  <2>4. /\ Size[y] = 1 + Size[y.kids[1]] + Size[y.kids[2]]
        /\ Size[y.kids[1]] \in Nat \ {0} /\ Size[y.kids[2]] \in Nat \ {0}
    BY <1>2, <1>4, SizeFacts DEF Binary
  <2>5. Size[l] < Size[f] /\ Size[r] < Size[f]
    BY <1>2, <1>4, <2>3, <2>4
  <2> HIDE DEF l, r
  <2>6. g.type = "And" /\ g.kids = <<l, r>>
    BY <2>1 DEF Join, Semantic
  <2> QED BY <2>2, <2>5, <2>6 DEF Branching, Binary
<1> QED BY <1>1, <1>3, <1>4

(* distributeOrs satisfies its definition.                                 *)
LEMMA DistributeOrsDef ==
  \A f \in Records : distributeOrs[f] = DistributeOrsBody(distributeOrs, f)
<1>1. ASSUME NEW f \in Records, NEW g, NEW h,
             \A y \in Records : SizeOf(y) < SizeOf(f) => g[y] = h[y]
      PROVE  DistributeOrsBody(g, f) = DistributeOrsBody(h, f)
  <2> DEFINE l == Lift(f, "Or", "And", "Or")
  <2>1. CASE f.type \notin Branching
    <3>1. l = f
      BY <2>1, LiftOrCases DEF Branching, Binary
    <3> QED BY <2>1, <3>1 DEF DistributeOrsBody, OnBranches
  <2>2. CASE f.type \in Branching
    <3>1. \A i \in DOMAIN l.kids : g[l.kids[i]] = h[l.kids[i]]
      BY <1>1, <2>2, LiftedOrKids DEF SizeOf
    <3> HIDE DEF l
    <3>2. OnBranches(g, l) = OnBranches(h, l)
      BY <3>1 DEF OnBranches
    <3> QED BY <3>2 DEF DistributeOrsBody, l
  <2> QED BY <2>1, <2>2
<1>2. /\ Over("distributeOrs") = Records
      /\ \A f : Measure("distributeOrs", f) = SizeOf(f)
      /\ \A g, f : Body("distributeOrs", 0, g, f) = DistributeOrsBody(g, f)
  BY DEF Over, Measure, Body
<1>3. IsRecursive("distributeOrs", 0)
  BY <1>1, <1>2, SizeDef DEF IsRecursive, SizeOf
<1>4. \E g : g = [f \in Records |-> DistributeOrsBody(g, f)]
  BY <1>2, <1>3, RecursiveFunction
<1>5. distributeOrs = [f \in Records |-> DistributeOrsBody(distributeOrs, f)]
  BY <1>4 DEF distributeOrs, DistributeOrsBody
<1> QED BY <1>5

(* Induction over the sizes of records.                                    *)
LEMMA SizeInduction ==
  ASSUME NEW T,
         \A f \in Records :
           (\A y \in Records : SizeOf(y) < SizeOf(f) => y \in T) => f \in T
  PROVE  Records \subseteq T
<1>1. /\ Over("distributeOrs") = Records
      /\ \A f : Measure("distributeOrs", f) = SizeOf(f)
  BY DEF Over, Measure
<1> QED BY <1>1, SizeDef, MeasureInduction DEF SizeOf

(* A disjunction of two records that are low enough.                       *)
LEMMA LowOr ==
  ASSUME NEW f \in Records, NEW k \in {1, 2},
         NEW a \in Records, a.type \notin TermTypes, Height(a) <= Height(f) - k - 1,
         NEW b \in Records, b.type \notin TermTypes, Height(b) <= Height(f) - k - 1
  PROVE  /\ Join("Or", a, b) \in Records
         /\ Join("Or", a, b).type \notin TermTypes
         /\ Height(Join("Or", a, b)) \in 1 .. MaxHeight
         /\ Height(Join("Or", a, b)) <= Height(f) - k
<1>1. /\ Height(f) \in 1 .. MaxHeight /\ Height(a) \in 1 .. MaxHeight
      /\ Height(b) \in 1 .. MaxHeight
  BY Operands
<1>2. Height(f) - k \in 1 .. MaxHeight
  BY <1>1, HeightAssumption
<1>3. Height(a) + 1 <= Height(f) - k /\ Height(b) + 1 <= Height(f) - k
  BY <1>1, HeightAssumption
<1>4. "Or" \in Binary \cap Logical /\ Weight("Or") = 1
  BY DEF Binary, Logical, Weight
<1>5. /\ Join("Or", a, b) \in Records
      /\ Height(Join("Or", a, b)) \in 1 .. (Height(f) - k)
  BY <1>2, <1>3, <1>4, JoinRecord
<1>6. Join("Or", a, b).type \notin TermTypes
  BY DEF Join, Semantic, TermTypes
<1> QED BY <1>1, <1>2, <1>5, <1>6, HeightAssumption

(* distributionAndsOverOrs goes on with lower records, for an And counts   *)
(* for three.                                                              *)
LEMMA LiftedAndKids ==
  ASSUME NEW f \in Records
  PROVE  LET g == Lift(f, "And", "Or", "Or")
         IN \A i \in DOMAIN g.kids :
              g.kids[i] \in Records /\ Height(g.kids[i]) < Height(f)
<1> DEFINE g == Lift(f, "And", "Or", "Or")
           x == f.kids[1]
           y == f.kids[2]
<1>1. CASE f.type # "And" \/ (x.type # "Or" /\ y.type # "Or")
  <2>1. g = f
    BY <1>1, LiftAndCases
  <2> QED BY <2>1, Kids
<1>0. Height(f) \in Nat
  BY Kids
<1>2. ASSUME f.type = "And"
      PROVE  /\ x \in Records /\ y \in Records
             /\ x.type \notin TermTypes /\ y.type \notin TermTypes
             /\ Height(x) \in Nat /\ Height(y) \in Nat
             /\ Height(x) <= Height(f) - 3 /\ Height(y) <= Height(f) - 3
  <2>1. f.type \in Binary /\ f.type # "Equal" /\ Weight(f.type) = 3
    BY <1>2 DEF Binary, Weight
  <2> QED BY <2>1, <1>0, Operands, HeightAssumption
<1>3. ASSUME NEW p \in Records, p.type = "Or", Height(p) <= Height(f) - 3
      PROVE  /\ p.kids[1] \in Records /\ p.kids[2] \in Records
             /\ p.kids[1].type \notin TermTypes /\ p.kids[2].type \notin TermTypes
             /\ Height(p.kids[1]) <= Height(f) - 4
             /\ Height(p.kids[2]) <= Height(f) - 4
             /\ Height(p.kids[1]) \in Nat /\ Height(p.kids[2]) \in Nat
  <2>1. p.type \in Binary /\ p.type # "Equal" /\ Weight(p.type) = 1
    BY <1>3 DEF Binary, Weight
  <2>2. Height(p) \in Nat
    BY Kids
  <2> QED BY <1>0, <1>3, <2>1, <2>2, Operands, HeightAssumption
<1>4. CASE f.type = "And" /\ x.type = "Or"
  <2> DEFINE a == x.kids[1]
             b == x.kids[2]
             z == Join("Or", a, y)
             l == Join("Or", z, b)
             r == Join("Or", z, y)
  <2>1. g = Join("Or", l, r)
    BY <1>4, LiftAndCases
  <2>2. /\ a \in Records /\ a.type \notin TermTypes /\ Height(a) <= Height(f) - 4
        /\ b \in Records /\ b.type \notin TermTypes /\ Height(b) <= Height(f) - 4
        /\ y \in Records /\ y.type \notin TermTypes /\ Height(y) <= Height(f) - 3
        /\ Height(a) \in Nat /\ Height(b) \in Nat /\ Height(y) \in Nat
    BY <1>2, <1>3, <1>4
  <2> HIDE DEF a, b
  <2>3. Height(a) <= Height(f) - 2 - 1 /\ Height(y) <= Height(f) - 2 - 1
    BY <1>0, <2>2
  <2>4. /\ z \in Records /\ z.type \notin TermTypes
        /\ Height(z) \in 1 .. MaxHeight /\ Height(z) <= Height(f) - 2
    BY <2>2, <2>3, LowOr
  <2> HIDE DEF z
  <2>5. /\ Height(b) <= Height(f) - 1 - 1 /\ Height(y) <= Height(f) - 1 - 1
        /\ Height(z) <= Height(f) - 1 - 1
    BY <1>0, <2>2, <2>4, HeightAssumption
  <2>6. /\ l \in Records /\ Height(l) \in 1 .. MaxHeight
        /\ Height(l) <= Height(f) - 1
    BY <2>2, <2>4, <2>5, LowOr
  <2>7. /\ r \in Records /\ Height(r) \in 1 .. MaxHeight
        /\ Height(r) <= Height(f) - 1
    BY <2>2, <2>4, <2>5, LowOr
  <2> HIDE DEF l, r
  <2>8. g.kids = <<l, r>>
    BY <2>1 DEF Join, Semantic
  <2> QED BY <1>0, <2>6, <2>7, <2>8, HeightAssumption
<1>5. CASE f.type = "And" /\ x.type # "Or" /\ y.type = "Or"
  <2> DEFINE b == y.kids[1]
             c == y.kids[2]
             l == Join("Or", x, b)
             r == Join("Or", x, c)
  <2>1. g = Join("Or", l, r)
    BY <1>5, LiftAndCases
  <2>2. /\ b \in Records /\ b.type \notin TermTypes /\ Height(b) <= Height(f) - 4
        /\ c \in Records /\ c.type \notin TermTypes /\ Height(c) <= Height(f) - 4
        /\ x \in Records /\ x.type \notin TermTypes /\ Height(x) <= Height(f) - 3
        /\ Height(b) \in Nat /\ Height(c) \in Nat /\ Height(x) \in Nat
    BY <1>2, <1>3, <1>5
  <2> HIDE DEF b, c
  <2>3. /\ Height(b) <= Height(f) - 1 - 1 /\ Height(c) <= Height(f) - 1 - 1
        /\ Height(x) <= Height(f) - 1 - 1
    BY <1>0, <2>2
  <2>4. /\ l \in Records /\ Height(l) \in 1 .. MaxHeight
        /\ Height(l) <= Height(f) - 1
    BY <2>2, <2>3, LowOr
  <2>5. /\ r \in Records /\ Height(r) \in 1 .. MaxHeight
        /\ Height(r) <= Height(f) - 1
    BY <2>2, <2>3, LowOr
  <2> HIDE DEF l, r
  <2>6. g.kids = <<l, r>>
    BY <2>1 DEF Join, Semantic
  <2> QED BY <1>0, <2>4, <2>5, <2>6, HeightAssumption
<1> QED BY <1>1, <1>4, <1>5

(* distributeAnds satisfies its definition.                                *)
LEMMA DistributeAndsDef ==
  \A f \in Records : distributeAnds[f] = DistributeAndsBody(distributeAnds, f)
<1>1. ASSUME NEW f \in Records, NEW g, NEW h, Alike(g, h, f)
      PROVE  DistributeAndsBody(g, f) = DistributeAndsBody(h, f)
  <2> DEFINE l == Lift(f, "And", "Or", "Or")
  <2>1. \A i \in DOMAIN l.kids : g[l.kids[i]] = h[l.kids[i]]
    BY <1>1, LiftedAndKids DEF Alike
  <2> HIDE DEF l
  <2>2. OnBranches(g, l) = OnBranches(h, l)
    BY <2>1 DEF OnBranches
  <2> QED BY <2>2 DEF DistributeAndsBody, l
<1>2. \A g, f : Body("distributeAnds", 0, g, f) = DistributeAndsBody(g, f)
  BY DEF Body
<1>3. \E g : g = [f \in Records |-> DistributeAndsBody(g, f)]
  <2>1. \A f \in Records : \A g, h : Alike(g, h, f) =>
          Body("distributeAnds", 0, g, f) = Body("distributeAnds", 0, h, f)
    BY <1>1, <1>2
  <2>2. \E g : g = [f \in Records |-> Body("distributeAnds", 0, g, f)]
    BY <2>1, RecordFunction
  <2> QED BY <1>2, <2>2
<1>4. distributeAnds = [f \in Records |-> DistributeAndsBody(distributeAnds, f)]
  BY <1>3 DEF distributeAnds, DistributeAndsBody
<1> QED BY <1>4

(* BindOnce satisfies its definition.                                      *)
LEMMA BindOnceDef == \A f \in Records : BindOnce[f] = BindOnceBody(BindOnce, f)
<1>1. ASSUME NEW f \in Records, NEW g, NEW h, Alike(g, h, f)
      PROVE  BindOnceBody(g, f) = BindOnceBody(h, f)
  <2>1. \A i \in DOMAIN f.kids : g[f.kids[i]] = h[f.kids[i]]
    BY <1>1, AlikeBranches
  <2>2. (\A i \in DOMAIN f.kids : g[f.kids[i]])
          = (\A i \in DOMAIN f.kids : h[f.kids[i]])
    BY <2>1
  <2> QED BY <2>2 DEF BindOnceBody
<1>2. \A g, f : Body("BindOnce", 0, g, f) = BindOnceBody(g, f)
  BY DEF Body
<1>3. \E g : g = [f \in Records |-> BindOnceBody(g, f)]
  BY <1>1, <1>2, RecordFunction
<1>4. BindOnce = [f \in Records |-> BindOnceBody(BindOnce, f)]
  BY <1>3 DEF BindOnce, BindOnceBody
<1> QED BY <1>4
-----------------------------------------------------------------------------
(* What is known of the parts of a record.                                 *)

(* All parts of f are in T if f is and all parts of its kids are.          *)
LEMMA PartsWithin ==
  ASSUME NEW f \in Records, NEW T
  PROVE  Parts[f] \subseteq T <=>
           f \in T /\ \A i \in DOMAIN f.kids : Parts[f.kids[i]] \subseteq T
<1>1. Parts[f] = {f} \cup UNION {Parts[f.kids[i]] : i \in DOMAIN f.kids}
  BY PartsDef
<1>2. UNION {Parts[f.kids[i]] : i \in DOMAIN f.kids} \subseteq T
        <=> \A i \in DOMAIN f.kids : Parts[f.kids[i]] \subseteq T
  OBVIOUS
<1> QED BY <1>1, <1>2

(* A record is a part of itself, and its parts are records.                *)
LEMMA PartsAreRecords == \A f \in Records : f \in Parts[f] /\ Parts[f] \subseteq Records
<1> DEFINE T == {f \in Records : Parts[f] \subseteq Records}
<1>1. ASSUME NEW f \in Records, \A i \in DOMAIN f.kids : f.kids[i] \in T
      PROVE  f \in T
  BY <1>1, PartsWithin
<1> HIDE DEF T
<1>2. Records \subseteq T
  BY <1>1, RecordInduction
<1> QED BY <1>2, PartsDef DEF T

(* Below an atom there are terms only.                                     *)
LEMMA TermParts ==
  \A f \in Records : f.type \notin Logical =>
    Parts[f] \subseteq {f} \cup {p \in Records : p.type \in TermTypes}
<1> DEFINE Terms == {p \in Records : p.type \in TermTypes}
           T == {f \in Records : f.type \notin Logical => Parts[f] \subseteq {f} \cup Terms}
<1>1. ASSUME NEW f \in Records, \A i \in DOMAIN f.kids : f.kids[i] \in T
      PROVE  f \in T
  <2> SUFFICES ASSUME f.type \notin Logical PROVE Parts[f] \subseteq {f} \cup Terms
    OBVIOUS
  <2>1. ASSUME NEW i \in DOMAIN f.kids PROVE Parts[f.kids[i]] \subseteq Terms
    <3>1. f.kids[i] \in Terms
      BY Kids DEF Shaped
    <3>2. f.kids[i].type \notin Logical
      BY <3>1 DEF Logical, TermTypes, Quantifiers
    <3> QED BY <1>1, <3>1, <3>2
  <2> HIDE DEF Terms
  <2>2. Parts[f] = {f} \cup UNION {Parts[f.kids[i]] : i \in DOMAIN f.kids}
    BY PartsDef
  <2> QED BY <2>1, <2>2
<1> HIDE DEF T
<1>2. Records \subseteq T
  BY <1>1, RecordInduction
<1> QED BY <1>2 DEF T

(* What OnBranches returns, and what is known of it as a record.           *)
LEMMA BranchFacts ==
  ASSUME NEW op, NEW f, f = Semantic(f.type, f.name, f.kids)
  PROVE  LET g == OnBranches(op, f)
         IN /\ g.type = f.type /\ g.name = f.name
            /\ DOMAIN g.kids = DOMAIN f.kids
            /\ f.type \notin Branching => g = f
            /\ f.type \in Branching =>
                 \A i \in DOMAIN f.kids : g.kids[i] = op[f.kids[i]]
<1>1. f = Semantic(f.type, f.name, f.kids)
  OBVIOUS
<1>2. f.type \in Branching =>
        OnBranches(op, f) =
          Semantic(f.type, f.name, [i \in DOMAIN f.kids |-> op[f.kids[i]]])
  BY <1>1 DEF OnBranches, Semantic
<1>3. f.type \notin Branching => OnBranches(op, f) = f
  BY DEF OnBranches
<1>4. CASE f.type \in Branching
  BY <1>2, <1>4 DEF Semantic
<1>5. CASE f.type \notin Branching
  BY <1>3, <1>5
<1> QED BY <1>4, <1>5

(* The operands and the parts of a join.                                   *)
LEMMA JoinParts ==
  ASSUME NEW t, NEW a, NEW b, Join(t, a, b) \in Records, NEW T
  PROVE  /\ a \in Records /\ b \in Records
         /\ Join(t, a, b).type = t /\ Join(t, a, b).name = NoName
         /\ Parts[Join(t, a, b)] \subseteq T <=>
              /\ Join(t, a, b) \in T
              /\ Parts[a] \subseteq T /\ Parts[b] \subseteq T
<1> DEFINE j == Join(t, a, b)
<1>1. j.kids = <<a, b>> /\ j.type = t /\ j.name = NoName
  BY DEF Join, Semantic
<1> HIDE DEF j
<1>2. DOMAIN j.kids = {1, 2} /\ j.kids[1] = a /\ j.kids[2] = b
  BY <1>1
<1>3. j \in Records
  BY DEF j
<1>4. a \in Records /\ b \in Records
  BY <1>2, <1>3, Kids
<1>5. Parts[j] \subseteq T <=>
        j \in T /\ Parts[a] \subseteq T /\ Parts[b] \subseteq T
  BY <1>2, <1>3, PartsWithin
<1> QED BY <1>1, <1>4, <1>5 DEF j

(* The body and the parts of a quantifier.                                 *)
LEMMA BindParts ==
  ASSUME NEW t, NEW name, NEW a, Bind(t, name, a) \in Records, NEW T
  PROVE  /\ a \in Records
         /\ Bind(t, name, a).type = t /\ Bind(t, name, a).name = name
         /\ Bind(t, name, a).kids[1] = a
         /\ Parts[Bind(t, name, a)] \subseteq T <=>
              Bind(t, name, a) \in T /\ Parts[a] \subseteq T
<1> DEFINE j == Bind(t, name, a)
<1>1. j.kids = <<a>> /\ j.type = t /\ j.name = name
  BY DEF Bind, Semantic
<1> HIDE DEF j
<1>2. DOMAIN j.kids = {1} /\ j.kids[1] = a
  BY <1>1
<1>3. j \in Records
  BY DEF j
<1>4. a \in Records
  BY <1>2, <1>3, Kids
<1>5. Parts[j] \subseteq T <=> j \in T /\ Parts[a] \subseteq T
  <2>1. Parts[j] \subseteq T <=>
          j \in T /\ \A i \in DOMAIN j.kids : Parts[j.kids[i]] \subseteq T
    BY <1>3, PartsWithin
  <2>2. (\A i \in DOMAIN j.kids : Parts[j.kids[i]] \subseteq T)
          <=> Parts[a] \subseteq T
    BY <1>2
  <2> QED BY <2>1, <2>2
<1> QED BY <1>1, <1>2, <1>4, <1>5 DEF j

(* A negation is like a binding without a name.                            *)
LEMMA NotIsBind == \A a : Not(a) = Bind("Negation", NoName, a)
  BY DEF Not, Bind
-----------------------------------------------------------------------------
(* What every call leaves in a record, with names numbered up to n.        *)

Named(n) == {p \in Records : p.name[2] \in 0 .. n}

NoBiconditional(n) == {p \in Named(n) : p.type # "Biconditional"}

NoConditional(n) ==
  {p \in Named(n) : p.type \notin {"Conditional", "Biconditional"}}

(* What PushNot or removeExtraNots does away with below a negation.        *)
Pushable == {"And", "Or", "Negation"} \cup Quantifiers

AtomsNegated(n) ==
  {p \in NoConditional(n) : p.type = "Negation" => p.kids[1].type \notin Pushable}

NoExistential(n) == {p \in AtomsNegated(n) : p.type # "Existential"}

NoQuantifier(n) == {p \in AtomsNegated(n) : p.type \notin Quantifiers}

(* A record without a name has a name without a number.                    *)
LEMMA NoNumber == NoName[2] = 0
  BY DEF NoName

(* An atom or a term is as every call leaves it.                           *)
LEMMA AtomParts ==
  ASSUME NEW n \in Nat, NEW f \in Records, f.type \notin Logical,
         Parts[f] \subseteq Named(n)
  PROVE  Parts[f] \subseteq NoQuantifier(n)
<1> SUFFICES ASSUME NEW p \in Parts[f] PROVE p \in NoQuantifier(n)
  OBVIOUS
<1>1. p = f \/ p.type \in TermTypes
  BY TermParts
<1>2. p.type \notin Logical
  BY <1>1 DEF Logical, TermTypes, Quantifiers
<1>3. p \in Named(n)
  OBVIOUS
<1> QED BY <1>2, <1>3 DEF NoQuantifier, AtomsNegated, NoConditional, Logical

(* What has no branches is not a logical operator.                         *)
LEMMA NotBranching == \A f : f.type \notin Branching => f.type \notin Logical
  BY DEF Branching, Logical, Binary

(* removeBiconditionals leaves none.                                       *)
LEMMA BiconditionalsGone ==
  ASSUME NEW n \in Nat, NEW f0 \in Records, Parts[f0] \subseteq Named(n),
         removeBiconditionals[f0] \in Records
  PROVE  Parts[removeBiconditionals[f0]] \subseteq NoBiconditional(n)
<1> DEFINE op == removeBiconditionals
           T == {f \in Records : Parts[f] \subseteq Named(n) /\ op[f] \in Records
                                   => Parts[op[f]] \subseteq NoBiconditional(n)}
<1>1. ASSUME NEW f \in Records, \A i \in DOMAIN f.kids : f.kids[i] \in T
      PROVE  f \in T
  <2> SUFFICES ASSUME Parts[f] \subseteq Named(n), op[f] \in Records
               PROVE  Parts[op[f]] \subseteq NoBiconditional(n)
    OBVIOUS
  <2> DEFINE g == OnBranches(op, f)
  <2>1. op[f] = BiconditionalsBody(op, f)
    BY BiconditionalsDef
  <2>2. /\ g.type = f.type /\ g.name = f.name /\ DOMAIN g.kids = DOMAIN f.kids
        /\ f.type \notin Branching => g = f
        /\ f.type \in Branching => \A i \in DOMAIN f.kids : g.kids[i] = op[f.kids[i]]
    BY BranchFacts, Kids
  <2>3. /\ f \in Named(n)
        /\ \A i \in DOMAIN f.kids : Parts[f.kids[i]] \subseteq Named(n)
    BY PartsWithin
  <2> HIDE DEF g, op
  <2>4. \A i \in DOMAIN f.kids : op[f.kids[i]] \in Records
                     => Parts[op[f.kids[i]]] \subseteq NoBiconditional(n)
    BY <1>1, <2>3
  <2>5. CASE f.type \notin Branching
    <3>1. op[f] = f
      BY <2>1, <2>2, <2>5 DEF BiconditionalsBody, Branching, Binary, g
    <3>2. Parts[f] \subseteq NoQuantifier(n)
      BY <2>5, AtomParts, NotBranching
    <3> QED BY <3>1, <3>2 DEF NoQuantifier, AtomsNegated, NoConditional,
                              NoBiconditional
  <2>6. CASE f.type \in Branching /\ f.type # "Biconditional"
    <3>1. op[f] = g
      BY <2>1, <2>2, <2>6 DEF BiconditionalsBody, g
    <3>2. g \in Records
      BY <3>1
    <3>3. \A i \in DOMAIN g.kids : Parts[g.kids[i]] \subseteq NoBiconditional(n)
      BY <2>2, <2>4, <2>6, <3>2, Kids
    <3>4. g \in NoBiconditional(n)
      BY <2>2, <2>3, <2>6, <3>2 DEF NoBiconditional, Named
    <3> QED BY <3>1, <3>2, <3>3, <3>4, PartsWithin
  <2>7. CASE f.type = "Biconditional"
    <3> DEFINE a == g.kids[1]
               b == g.kids[2]
               l == Join("Conditional", b, a)
               r == Join("Conditional", a, b)
    <3>1. op[f] = Join("And", l, r)
      BY <2>1, <2>2, <2>7 DEF BiconditionalsBody, g
    <3>2. Join("And", l, r) \in Records
      BY <3>1
    <3>3. l \in Records /\ r \in Records
      BY <3>2, JoinParts
    <3>4. a \in Records /\ b \in Records
      BY <3>3, JoinParts
    <3>5. f.type \in Branching /\ DOMAIN f.kids = {1, 2}
      BY <2>7, Operands DEF Branching, Binary
    <3>6. Parts[a] \subseteq NoBiconditional(n) /\ Parts[b] \subseteq NoBiconditional(n)
      BY <2>2, <2>4, <3>4, <3>5
    <3> HIDE DEF a, b
    <3>7. l \in NoBiconditional(n) /\ r \in NoBiconditional(n)
      BY <3>3, JoinParts, NoNumber DEF NoBiconditional, Named
    <3>8. Parts[l] \subseteq NoBiconditional(n) /\ Parts[r] \subseteq NoBiconditional(n)
      BY <3>3, <3>6, <3>7, JoinParts
    <3> HIDE DEF l, r
    <3>9. Join("And", l, r) \in NoBiconditional(n)
      BY <3>2, JoinParts, NoNumber DEF NoBiconditional, Named
    <3> QED BY <3>1, <3>2, <3>8, <3>9, JoinParts
  <2> QED BY <2>5, <2>6, <2>7
<1> HIDE DEF T
<1>2. Records \subseteq T
  BY <1>1, RecordInduction
<1> QED BY <1>2 DEF T
(* removeConditionals leaves none.                                         *)
LEMMA ConditionalsGone ==
  ASSUME NEW n \in Nat, NEW f0 \in Records, Parts[f0] \subseteq NoBiconditional(n),
         removeConditionals[f0] \in Records
  PROVE  Parts[removeConditionals[f0]] \subseteq NoConditional(n)
<1> DEFINE op == removeConditionals
           T == {f \in Records : Parts[f] \subseteq NoBiconditional(n) /\ op[f] \in Records
                                   => Parts[op[f]] \subseteq NoConditional(n)}
<1>1. ASSUME NEW f \in Records, \A i \in DOMAIN f.kids : f.kids[i] \in T
      PROVE  f \in T
  <2> SUFFICES ASSUME Parts[f] \subseteq NoBiconditional(n), op[f] \in Records
               PROVE  Parts[op[f]] \subseteq NoConditional(n)
    OBVIOUS
  <2> DEFINE g == OnBranches(op, f)
  <2>1. op[f] = ConditionalsBody(op, f)
    BY ConditionalsDef
  <2>2. /\ g.type = f.type /\ g.name = f.name /\ DOMAIN g.kids = DOMAIN f.kids
        /\ f.type \notin Branching => g = f
        /\ f.type \in Branching => \A i \in DOMAIN f.kids : g.kids[i] = op[f.kids[i]]
    BY BranchFacts, Kids
  <2>3. /\ f \in NoBiconditional(n)
        /\ \A i \in DOMAIN f.kids : Parts[f.kids[i]] \subseteq NoBiconditional(n)
    BY PartsWithin
  <2> HIDE DEF g, op
  <2>4. \A i \in DOMAIN f.kids : op[f.kids[i]] \in Records
                     => Parts[op[f.kids[i]]] \subseteq NoConditional(n)
    BY <1>1, <2>3
  <2>5. CASE f.type \notin Branching
    <3>1. op[f] = f
      BY <2>1, <2>2, <2>5 DEF ConditionalsBody, Branching, Binary, g
    <3>2. Parts[f] \subseteq Named(n)
      BY DEF NoBiconditional
    <3>3. Parts[f] \subseteq NoQuantifier(n)
      BY <2>5, <3>2, AtomParts, NotBranching
    <3> QED BY <3>1, <3>3 DEF NoQuantifier, AtomsNegated
  <2>6. CASE f.type \in Branching /\ f.type # "Conditional"
    <3>1. op[f] = g
      BY <2>1, <2>2, <2>6 DEF ConditionalsBody, g
    <3>2. g \in Records
      BY <3>1
    <3>3. \A i \in DOMAIN g.kids : Parts[g.kids[i]] \subseteq NoConditional(n)
      BY <2>2, <2>4, <2>6, <3>2, Kids
    <3>4. g \in NoConditional(n)
      BY <2>2, <2>3, <2>6, <3>2 DEF NoConditional, NoBiconditional, Named
    <3> QED BY <3>1, <3>2, <3>3, <3>4, PartsWithin
  <2>7. CASE f.type = "Conditional"
    <3> DEFINE a == g.kids[1]
               b == g.kids[2]
               l == Not(a)
    <3>1. op[f] = Join("Or", l, b)
      BY <2>1, <2>2, <2>7 DEF ConditionalsBody, g
    <3>2. Join("Or", l, b) \in Records
      BY <3>1
    <3>3. l \in Records /\ b \in Records
      BY <3>2, JoinParts
    <3>4. a \in Records
      BY <3>3, NotIsBind, BindParts
    <3>5. f.type \in Branching /\ DOMAIN f.kids = {1, 2}
      BY <2>7, Operands DEF Branching, Binary
    <3>6. Parts[a] \subseteq NoConditional(n) /\ Parts[b] \subseteq NoConditional(n)
      BY <2>2, <2>4, <3>3, <3>4, <3>5
    <3> HIDE DEF a, b
    <3>7. l \in NoConditional(n)
      BY <3>3, NotIsBind, BindParts, NoNumber DEF NoConditional, Named
    <3>8. Parts[l] \subseteq NoConditional(n)
      BY <3>3, <3>6, <3>7, NotIsBind, BindParts
    <3> HIDE DEF l
    <3>9. Join("Or", l, b) \in NoConditional(n)
      BY <3>2, JoinParts, NoNumber DEF NoConditional, Named
    <3> QED BY <3>1, <3>2, <3>6, <3>8, <3>9, JoinParts
  <2> QED BY <2>5, <2>6, <2>7
<1> HIDE DEF T
<1>2. Records \subseteq T
  BY <1>1, RecordInduction
<1> QED BY <1>2 DEF T

(* What demorgans goes on with has the parts of f, and negations of them.  *)
LEMMA PushedParts ==
  ASSUME NEW n \in Nat, NEW f \in Records, Parts[f] \subseteq NoConditional(n)
  PROVE  LET h == Pushed(f)
         IN /\ h = Semantic(h.type, h.name, h.kids)
            /\ h.type \in RecordTypes \ {"Conditional", "Biconditional"}
            /\ h.name[2] \in 0 .. n
            /\ \A i \in DOMAIN h.kids : Parts[h.kids[i]] \subseteq NoConditional(n)
            /\ h.type \in Branching \/ h \in Records
            /\ f.type # "Negation" => h = f
            /\ h.type = "Negation" => /\ h \in Records
                                      /\ h.kids[1].type \notin Pushable
<1> DEFINE g == removeExtraNots[f]
           k == g.kids[1]
           h == Pushed(f)
<1>1. /\ g \in Records
      /\ g.type = "Negation" => g.kids[1].type # "Negation"
      /\ f.type # "Negation" => g = f
  BY ExtraNotsGone, ExtraNotsDef DEF ExtraNotsBody
<1>2. Parts[g] \subseteq NoConditional(n)
  <2> DEFINE T == {r \in Records : Parts[r] \subseteq NoConditional(n)
                     => Parts[removeExtraNots[r]] \subseteq NoConditional(n)}
  <2>1. ASSUME NEW r \in Records,
               \A y \in Records : Height(y) < Height(r) => y \in T
        PROVE  r \in T
    <3>1. CASE r.type = "Negation" /\ r.kids[1].type = "Negation"
      <4> DEFINE s == r.kids[1].kids[1]
      <4>1. /\ s \in Records /\ Height(s) < Height(r)
            /\ r.kids[1] \in Records /\ 1 \in DOMAIN r.kids
            /\ 1 \in DOMAIN r.kids[1].kids
        BY <3>1, Operands, Kids, HeightAssumption
      <4>2. removeExtraNots[r] = removeExtraNots[s]
        BY <3>1, ExtraNotsDef DEF ExtraNotsBody
      <4> DEFINE X == NoConditional(n)
      <4> HIDE DEF X
      <4>3. Parts[r] \subseteq X => Parts[r.kids[1]] \subseteq X
        BY <4>1, PartsWithin
      <4>4. Parts[r.kids[1]] \subseteq X => Parts[s] \subseteq X
        BY <4>1, PartsWithin
      <4> USE DEF X
      <4> HIDE DEF s
      <4> QED BY <2>1, <4>1, <4>2, <4>3, <4>4
    <3>2. CASE ~ (r.type = "Negation" /\ r.kids[1].type = "Negation")
      BY <3>2, ExtraNotsDef DEF ExtraNotsBody
    <3> QED BY <3>1, <3>2
  <2> HIDE DEF T
  <2>2. Records \subseteq T
    BY <2>1, HeightInduction
  <2> QED BY <2>2 DEF T
<1> HIDE DEF g
<1>3. /\ g \in NoConditional(n)
      /\ \A i \in DOMAIN g.kids : Parts[g.kids[i]] \subseteq NoConditional(n)
  BY <1>1, <1>2, PartsWithin
<1>g. g = Semantic(g.type, g.name, g.kids)
  BY <1>1, Kids
<1>4. g.type \in RecordTypes \ {"Conditional", "Biconditional"} /\ g.name[2] \in 0 .. n
  BY <1>1, <1>3, Kids DEF NoConditional, Named
<1>5. CASE g.type # "Negation"
  <2>1. h = g
    BY <1>5 DEF Pushed, g
  <2> QED BY <1>1, <1>3, <1>4, <1>5, <1>g, <2>1
<1>6. CASE g.type = "Negation"
  <2>1. h = PushNot(g)
    BY <1>6 DEF Pushed, g
  <2>2. /\ k \in Records /\ k.type # "Negation"
        /\ Parts[k] \subseteq NoConditional(n)
    BY <1>1, <1>3, <1>6, Operands
  <2>3. /\ k \in NoConditional(n)
        /\ \A i \in DOMAIN k.kids : Parts[k.kids[i]] \subseteq NoConditional(n)
    BY <2>2, PartsWithin
  <2>4. ASSUME NEW a \in Records, a.type \notin TermTypes, Height(a) + 1 <= Height(k),
               Parts[a] \subseteq NoConditional(n)
        PROVE  Parts[Not(a)] \subseteq NoConditional(n)
    <3>1. Height(k) \in 1 .. MaxHeight
      BY <2>2, Operands
    <3>2. Not(a) \in Records
      BY <2>4, <3>1, NotRecord
    <3>3. Not(a) \in NoConditional(n)
      BY <3>2, NotIsBind, BindParts, NoNumber DEF NoConditional, Named
    <3> QED BY <2>4, <3>2, <3>3, NotIsBind, BindParts
  <2> HIDE DEF k
  <2>5. CASE k.type \in {"Or", "And"}
    <3> DEFINE a == k.kids[1]
               b == k.kids[2]
    <3>1. /\ a \in Records /\ a.type \notin TermTypes
          /\ b \in Records /\ b.type \notin TermTypes
          /\ Height(a) + 1 <= Height(k) /\ Height(b) + 1 <= Height(k)
          /\ DOMAIN k.kids = {1, 2}
      <4>1. k.type \in Binary /\ k.type # "Equal"
        BY <2>5 DEF Binary
      <4> QED BY <2>2, <4>1, Operands, HeightAssumption DEF Weight
    <3>2. Parts[Not(a)] \subseteq NoConditional(n) /\ Parts[Not(b)] \subseteq NoConditional(n)
      BY <2>3, <2>4, <3>1
    <3> HIDE DEF a, b
    <3>3. h.kids = <<Not(a), Not(b)>> /\ h.type \in {"And", "Or"} /\ h.name = NoName
      BY <2>1, <2>5, PushNotCases DEF Join, Semantic, k, a, b
    <3>4. h = Semantic(h.type, h.name, h.kids)
      BY <2>1, <2>5, PushNotCases DEF Join, Semantic, k
    <3> QED BY <1>1, <1>6, <3>2, <3>3, <3>4, NoNumber DEF RecordTypes, Branching, Binary
  <2>6. CASE k.type \in Quantifiers
    <3> DEFINE a == k.kids[1]
    <3>1. /\ a \in Records /\ a.type \notin TermTypes
          /\ Height(a) + 1 <= Height(k) /\ DOMAIN k.kids = {1}
      BY <2>2, <2>6, Operands
    <3>2. Parts[Not(a)] \subseteq NoConditional(n)
      BY <2>3, <2>4, <3>1
    <3> HIDE DEF a
    <3>3. h.kids = <<Not(a)>> /\ h.type \in Quantifiers /\ h.name = k.name
      BY <2>1, <2>6, PushNotCases DEF Bind, Semantic, Quantifiers, k, a
    <3>4. k.name[2] \in 0 .. n
      BY <2>3 DEF NoConditional, Named
    <3>5. h.type \in Branching /\ h.type # "Negation" /\ h.type \in RecordTypes
          /\ h.type \notin {"Conditional", "Biconditional"}
      BY <3>3 DEF RecordTypes, Branching, Quantifiers
    <3>6. h = Semantic(h.type, h.name, h.kids)
      BY <2>1, <2>6, PushNotCases DEF Bind, Semantic, Quantifiers, k
    <3> QED BY <1>1, <1>6, <3>2, <3>3, <3>4, <3>5, <3>6
  <2>7. CASE k.type \notin {"Or", "And"} \cup Quantifiers
    <3>1. h = g
      BY <2>1, <2>7, PushNotCases DEF Quantifiers, k
    <3>2. k.type \notin Pushable
      BY <2>2, <2>7 DEF Pushable
    <3> QED BY <1>1, <1>3, <1>4, <1>6, <1>g, <3>1, <3>2 DEF k
  <2> QED BY <2>5, <2>6, <2>7
<1> QED BY <1>5, <1>6
(* demorgans leaves a negation only where there is an atom to negate.      *)
LEMMA NegationsPushed ==
  ASSUME NEW n \in Nat, NEW f0 \in Records, Parts[f0] \subseteq NoConditional(n),
         demorgans[f0] \in Records
  PROVE  Parts[demorgans[f0]] \subseteq AtomsNegated(n)
<1> DEFINE T == {f \in Records :
                   Parts[f] \subseteq NoConditional(n) /\ demorgans[f] \in Records
                     => Parts[demorgans[f]] \subseteq AtomsNegated(n)}
<1>1. ASSUME NEW f \in Records,
             \A y \in Records : Height(y) < Height(f) => y \in T
      PROVE  f \in T
  <2> DEFINE h == Pushed(f)
             r == demorgans[f]
  <2> SUFFICES ASSUME Parts[f] \subseteq NoConditional(n), r \in Records
               PROVE  Parts[r] \subseteq AtomsNegated(n)
    OBVIOUS
  <2>1. r = OnBranches(demorgans, h)
    BY DemorgansDef DEF DemorgansBody
  <2>2. /\ h = Semantic(h.type, h.name, h.kids)
        /\ h.type \in RecordTypes \ {"Conditional", "Biconditional"}
        /\ h.name[2] \in 0 .. n
        /\ \A i \in DOMAIN h.kids : Parts[h.kids[i]] \subseteq NoConditional(n)
        /\ h.type \in Branching \/ h \in Records
        /\ h.type = "Negation" => h \in Records /\ h.kids[1].type \notin Pushable
    BY PushedParts
  <2>3. \A i \in DOMAIN h.kids : h.kids[i] \in T
    BY <1>1, PushedKids
  <2> HIDE DEF h, r
  <2>4. /\ r.type = h.type /\ r.name = h.name /\ DOMAIN r.kids = DOMAIN h.kids
        /\ h.type \notin Branching => r = h
        /\ h.type \in Branching =>
             \A i \in DOMAIN h.kids : r.kids[i] = demorgans[h.kids[i]]
    BY <2>1, <2>2, BranchFacts
  <2>5. r \in NoConditional(n)
    BY <2>2, <2>4 DEF NoConditional, Named
  <2>6. CASE h.type \notin Branching
    <3>1. h \in NoConditional(n) /\ h = r
      BY <2>4, <2>5, <2>6
    <3>2. Parts[h] \subseteq NoConditional(n)
      BY <2>2, <2>6, <3>1, PartsWithin
    <3>3. Parts[h] \subseteq Named(n)
      BY <3>2 DEF NoConditional
    <3>4. Parts[h] \subseteq NoQuantifier(n)
      BY <2>2, <2>6, <3>3, AtomParts, NotBranching
    <3> QED BY <3>1, <3>4 DEF NoQuantifier
  <2>7. CASE h.type \in Branching
    <3>1. \A i \in DOMAIN r.kids : Parts[r.kids[i]] \subseteq AtomsNegated(n)
      <4> SUFFICES ASSUME NEW i \in DOMAIN r.kids
                   PROVE  Parts[r.kids[i]] \subseteq AtomsNegated(n)
        OBVIOUS
      <4>1. r.kids[i] = demorgans[h.kids[i]] /\ r.kids[i] \in Records
        BY <2>4, <2>7, Kids
      <4> QED BY <2>2, <2>3, <2>4, <4>1
    <3>2. r.type = "Negation" => r.kids[1].type \notin Pushable
      <4> SUFFICES ASSUME r.type = "Negation" PROVE r.kids[1].type \notin Pushable
        OBVIOUS
      <4> DEFINE k == h.kids[1]
      <4>1. h \in Records /\ k.type \notin Pushable
        BY <2>2, <2>4
      <4>2. k \in Records /\ 1 \in DOMAIN h.kids
        BY <2>4, <4>1, Operands
      <4>3. r.kids[1] = demorgans[k]
        BY <2>4, <2>7, <4>2
      <4>4. Pushed(k) = k
        BY <4>1, <4>2, ExtraNotsDef DEF Pushed, ExtraNotsBody, Pushable
      <4> HIDE DEF k
      <4>5. demorgans[k] = OnBranches(demorgans, k)
        BY <4>2, <4>4, DemorgansDef DEF DemorgansBody
      <4> QED BY <4>1, <4>2, <4>3, <4>5, BranchFacts, Kids
    <3>3. r \in AtomsNegated(n)
      BY <2>5, <3>2 DEF AtomsNegated
    <3> QED BY <3>1, <3>3, PartsWithin
  <2> QED BY <2>6, <2>7
<1> HIDE DEF T
<1>2. Records \subseteq T
  BY <1>1, HeightInduction
<1> QED BY <1>2 DEF T

(* removeUniversals leaves no quantifier where there is no existential.    *)
LEMMA UniversalsGone ==
  ASSUME NEW n \in Nat, NEW f0 \in Records, Parts[f0] \subseteq NoExistential(n),
         removeUniversals[f0] \in Records
  PROVE  Parts[removeUniversals[f0]] \subseteq NoQuantifier(n)
<1> DEFINE op == removeUniversals
           T == {f \in Records :
                   Parts[f] \subseteq NoExistential(n) /\ op[f] \in Records
                     => Parts[op[f]] \subseteq NoQuantifier(n)}
<1>1. ASSUME NEW f \in Records, \A i \in DOMAIN f.kids : f.kids[i] \in T
      PROVE  f \in T
  <2> SUFFICES ASSUME Parts[f] \subseteq NoExistential(n), op[f] \in Records
               PROVE  Parts[op[f]] \subseteq NoQuantifier(n)
    OBVIOUS
  <2> DEFINE g == OnBranches(op, f)
  <2>1. op[f] = IF g.type = "Universal" THEN g.kids[1] ELSE g
    BY UniversalsDef DEF UniversalsBody
  <2>2. /\ g.type = f.type /\ g.name = f.name /\ DOMAIN g.kids = DOMAIN f.kids
        /\ f.type \notin Branching => g = f
        /\ f.type \in Branching => \A i \in DOMAIN f.kids : g.kids[i] = op[f.kids[i]]
    BY BranchFacts, Kids
  <2>3. /\ f \in NoExistential(n)
        /\ \A i \in DOMAIN f.kids : Parts[f.kids[i]] \subseteq NoExistential(n)
    BY PartsWithin
  <2>4. \A k \in Records : k.type # "Universal" => op[k].type = k.type
    BY UniversalsDef, BranchFacts, Kids DEF UniversalsBody
  <2> HIDE DEF g, op
  <2>5. \A i \in DOMAIN f.kids : op[f.kids[i]] \in Records
                     => Parts[op[f.kids[i]]] \subseteq NoQuantifier(n)
    BY <1>1, <2>3
  <2>6. CASE f.type \notin Branching
    <3>1. op[f] = f
      BY <2>1, <2>2, <2>6 DEF Branching, Quantifiers
    <3>2. Parts[f] \subseteq Named(n)
      BY DEF NoExistential, AtomsNegated, NoConditional
    <3> QED BY <2>6, <3>1, <3>2, AtomParts, NotBranching
  <2>7. CASE f.type = "Universal"
    <3>1. f.type \in Branching /\ DOMAIN f.kids = {1}
      BY <2>7, Operands DEF Branching, Quantifiers
    <3>2. op[f] = op[f.kids[1]]
      BY <2>1, <2>2, <2>7, <3>1
    <3> QED BY <2>5, <3>1, <3>2
  <2>8. CASE f.type \in Branching /\ f.type # "Universal"
    <3>1. op[f] = g /\ g \in Records
      BY <2>1, <2>2, <2>8
    <3>2. \A i \in DOMAIN g.kids : Parts[g.kids[i]] \subseteq NoQuantifier(n)
      BY <2>2, <2>5, <2>8, <3>1, Kids
    <3>3. g.type = "Negation" => g.kids[1].type \notin Pushable
      <4> SUFFICES ASSUME f.type = "Negation" PROVE g.kids[1].type \notin Pushable
        BY <2>2
      <4>1. DOMAIN f.kids = {1} /\ f.kids[1] \in Records
        BY Operands
      <4>2. f.kids[1].type \notin Pushable
        BY <2>3 DEF NoExistential, AtomsNegated
      <4>3. op[f.kids[1]].type = f.kids[1].type
        BY <2>4, <4>1, <4>2 DEF Pushable, Quantifiers
      <4> QED BY <2>2, <2>8, <4>1, <4>2, <4>3
    <3>4. g \in NoQuantifier(n)
      BY <2>2, <2>3, <2>8, <3>1, <3>3
         DEF NoExistential, NoQuantifier, AtomsNegated, NoConditional, Named,
             Quantifiers
    <3> QED BY <3>1, <3>2, <3>4, PartsWithin
  <2> QED BY <2>6, <2>7, <2>8
<1> HIDE DEF T
<1>2. Records \subseteq T
  BY <1>1, RecordInduction
<1> QED BY <1>2 DEF T
(* What Find returns: what comes with the key, or the default.             *)
LEMMA FindFacts ==
  ASSUME NEW pairs, DOMAIN pairs = 1 .. Len(pairs), Len(pairs) \in Nat, NEW key, NEW default
  PROVE  /\ (\E i \in DOMAIN pairs : pairs[i][1] = key) =>
              \E i \in DOMAIN pairs : /\ pairs[i][1] = key
                                      /\ Find(pairs, key, default) = pairs[i][2]
         /\ ~ (\E i \in DOMAIN pairs : pairs[i][1] = key) =>
              Find(pairs, key, default) = default
<1>1. ASSUME \E i \in DOMAIN pairs : pairs[i][1] = key
      PROVE  \E i \in DOMAIN pairs : /\ pairs[i][1] = key
                                     /\ Find(pairs, key, default) = pairs[i][2]
  <2> DEFINE T == {i \in DOMAIN pairs : pairs[i][1] = key}
             P(i) == /\ pairs[i][1] = key
                     /\ \A j \in 1 .. i - 1 : pairs[j][1] # key
  <2>1. T \in SUBSET Nat /\ T # {}
    BY <1>1
  <2>2. PICK i \in T : \A j \in T : i <= j
    <3> HIDE DEF T
    <3> QED BY <2>1, LeastNumber
  <2>3. \E k \in DOMAIN pairs : P(k)
    <3>1. ASSUME NEW j \in 1 .. i - 1 PROVE pairs[j][1] # key
      <4>0. i \in Nat
        BY <2>1
      <4>1. ~ (i <= j) /\ j \in DOMAIN pairs
        BY <4>0
      <4>2. j \notin T
        BY <2>2, <4>1
      <4> QED BY <4>1, <4>2 DEF T
    <3> QED BY <2>2, <3>1
  <2> DEFINE c == CHOOSE k \in DOMAIN pairs : P(k)
  <2>4. Find(pairs, key, default) = pairs[c][2]
    BY <1>1 DEF Find
  <2> HIDE DEF P
  <2>5. c \in DOMAIN pairs /\ P(c)
    BY <2>3
  <2> QED BY <2>4, <2>5 DEF P
<1>2. ~ (\E i \in DOMAIN pairs : pairs[i][1] = key) =>
        Find(pairs, key, default) = default
  BY DEF Find
<1> QED BY <1>1, <1>2

(* The stacks of renames with new names numbered up to c.                  *)
Stacks(c) == {rs \in Seq(AnyName \X AnyName) : \A i \in DOMAIN rs : rs[i][2][2] \in 0 .. c}

(* After renameVariables a binder has a number between lo and hi.          *)
Renamed(lo, hi) ==
  {p \in AtomsNegated(hi) : p.type \in Quantifiers => p.name[2] \in lo + 1 .. hi}

RenamedWell(f, c, r) ==
  /\ r.data \in Nat /\ c <= r.data
  /\ r.f.type = f.type
  /\ r.f \in Records => Parts[r.f] \subseteq Renamed(c, r.data) /\ BindOnce[r.f]

(* More names of quantifiers are allowed in a wider range of numbers.      *)
LEMMA RenamedGrows ==
  ASSUME NEW a \in Nat, NEW b \in Nat, NEW c \in Nat, NEW d \in Nat,
         c <= a, b <= d
  PROVE  Renamed(a, b) \subseteq Renamed(c, d)
  BY DEF Renamed, AtomsNegated, NoConditional, Named

(* BindOnce for a record whose kids have their binders in intervals of     *)
(* numbers that follow each other.                                         *)
LEMMA BindOnceIntro ==
  ASSUME NEW f \in Records, NEW d,
         \A i \in 0 .. Len(f.kids) : d[i] \in Nat,
         \A i, j \in 0 .. Len(f.kids) : i <= j => d[i] <= d[j],
         \A i \in 1 .. Len(f.kids) :
           /\ BindOnce[f.kids[i]]
           /\ Parts[f.kids[i]] \subseteq Renamed(d[i - 1], d[i]),
         f.type \in Quantifiers => f.name[2] <= d[0] /\ f.name[2] \in Nat
  PROVE  BindOnce[f]
<1>1. DOMAIN f.kids = 1 .. Len(f.kids) /\ Len(f.kids) \in Nat
  BY Kids
<1>2. ASSUME NEW i \in DOMAIN f.kids, NEW b \in BinderNames(f.kids[i])
      PROVE  b[2] \in d[i - 1] + 1 .. d[i]
  <2>1. PICK p \in Parts[f.kids[i]] : p.type \in Quantifiers /\ b = p.name
    BY DEF BinderNames, Binders
  <2> QED BY <1>1, <2>1 DEF Renamed
<1>3. ASSUME NEW i \in DOMAIN f.kids, NEW j \in DOMAIN f.kids, i < j
      PROVE  BinderNames(f.kids[i]) \cap BinderNames(f.kids[j]) = {}
  <2>1. /\ i \in 0 .. Len(f.kids) /\ j \in 0 .. Len(f.kids)
        /\ j - 1 \in 0 .. Len(f.kids) /\ i - 1 \in 0 .. Len(f.kids) /\ i <= j - 1
    BY <1>1, <1>3
  <2>2. d[i] <= d[j - 1] /\ d[i] \in Nat /\ d[j - 1] \in Nat
    BY <2>1
  <2>3. d[j] \in Nat /\ d[i - 1] \in Nat
    BY <2>1
  <2> SUFFICES ASSUME NEW b \in BinderNames(f.kids[i]), b \in BinderNames(f.kids[j])
               PROVE  FALSE
    OBVIOUS
  <2>4. b[2] \in d[i - 1] + 1 .. d[i] /\ b[2] \in d[j - 1] + 1 .. d[j]
    BY <1>2
  <2> QED BY <2>2, <2>3, <2>4
<1>4. \A i, j \in DOMAIN f.kids :
        i # j => BinderNames(f.kids[i]) \cap BinderNames(f.kids[j]) = {}
  <2> SUFFICES ASSUME NEW i \in DOMAIN f.kids, NEW j \in DOMAIN f.kids, i # j
               PROVE  BinderNames(f.kids[i]) \cap BinderNames(f.kids[j]) = {}
    OBVIOUS
  <2>1. i < j \/ j < i
    BY <1>1
  <2> QED BY <1>3, <2>1
<1>5. f.type \in Quantifiers => f.name \notin BinderNames(f.kids[1])
  <2> SUFFICES ASSUME f.type \in Quantifiers, f.name \in BinderNames(f.kids[1])
               PROVE  FALSE
    OBVIOUS
  <2>1. 1 \in DOMAIN f.kids
    BY Operands
  <2>2. 0 \in 0 .. Len(f.kids) /\ 1 \in 0 .. Len(f.kids)
    BY <1>1, <2>1
  <2>3. f.name[2] \in d[0] + 1 .. d[1]
    BY <1>2, <2>1
  <2> QED BY <2>2, <2>3
<1>6. BindOnceBody(BindOnce, f)
  BY <1>1, <1>4, <1>5 DEF BindOnceBody
<1> QED BY <1>6, BindOnceDef
(* A record with another name.                                             *)
LEMMA OtherName ==
  ASSUME NEW f \in Records, NEW name
  PROVE  LET e == [f EXCEPT !.name = name]
         IN /\ e = Semantic(f.type, name, f.kids)
            /\ e.type = f.type /\ e.name = name /\ e.kids = f.kids
<1>1. f = Semantic(f.type, f.name, f.kids)
  BY Kids
<1> QED BY <1>1 DEF Semantic

(* What a traversal returns: f with its kids as op gives them along d.     *)
Travels(r, d, op, f, data, env) ==
  /\ Threads(d, op, f, data, env)
  /\ r.data = d[Len(f.kids)]
  /\ r.f.type = f.type /\ r.f.name = f.name
  /\ DOMAIN r.f.kids = 1 .. Len(f.kids)
  /\ r.f.kids = [i \in 1 .. Len(f.kids) |-> r.f.kids[i]]
  /\ \A i \in 1 .. Len(f.kids) : r.f.kids[i] = op[f.kids[i]][d[i - 1]][env].f
  /\ r.f = Semantic(r.f.type, r.f.name, r.f.kids)

(* Traverse visits the kids one after the other, each with what the one    *)
(* before has left.                                                        *)
LEMMA TraverseTravels ==
  ASSUME NEW op, NEW f, f = Semantic(f.type, f.name, f.kids),
         Len(f.kids) \in Nat, NEW data, NEW env
  PROVE  \E d : Travels(Traverse(op, f, data, env), d, op, f, data, env)
<1>1. PICK d :
        /\ Threads(d, op, f, data, env)
        /\ Traverse(op, f, data, env) =
             [f |-> [f EXCEPT !.kids = [i \in 1 .. Len(f.kids) |->
                                          op[f.kids[i]][d[i - 1]][env].f]],
              data |-> d[Len(f.kids)]]
  BY TraverseThreads
<1> DEFINE new == [i \in 1 .. Len(f.kids) |-> op[f.kids[i]][d[i - 1]][env].f]
           r == Traverse(op, f, data, env)
<1>2. DOMAIN new = 1 .. Len(f.kids) /\ new = [i \in 1 .. Len(f.kids) |-> new[i]]
  OBVIOUS
<1>3. \A i \in 1 .. Len(f.kids) : new[i] = op[f.kids[i]][d[i - 1]][env].f
  OBVIOUS
<1>4. r = [f |-> [f EXCEPT !.kids = new], data |-> d[Len(f.kids)]]
  BY <1>1
<1> HIDE DEF new, r
<1>5. [f EXCEPT !.kids = new] = Semantic(f.type, f.name, new)
  BY DEF Semantic
<1>6. r.data = d[Len(f.kids)] /\ r.f = Semantic(f.type, f.name, new)
  BY <1>4, <1>5
<1>7. r.f.type = f.type /\ r.f.name = f.name /\ r.f.kids = new
  BY <1>6 DEF Semantic
<1>8. Travels(r, d, op, f, data, env)
  BY <1>1, <1>2, <1>3, <1>6, <1>7 DEF Travels
<1> QED BY <1>8 DEF r

(* uniqueName makes a name.                                                *)
LEMMA UniqueIsName ==
  \A p \in UniquePrefixes, n \in Nat : uniqueName(p, n) \in AnyName
<1> DEFINE words == Identifiers \cup UniquePrefixes \cup {"", "true", "false"}
<1>1. UniquePrefixes \subseteq words /\ AnyName = words \X Nat
  BY Zenon DEF AnyName
<1> HIDE DEF words
<1> QED BY <1>1 DEF uniqueName

(* What renameWith does at f: a name that is allowed, then its kids.       *)
LEMMA RenameStep ==
  ASSUME NEW n \in Nat, NEW f \in Records, Parts[f] \subseteq AtomsNegated(n),
         NEW c \in Nat, n <= c, NEW rs \in Stacks(c)
  PROVE  \E name : \E c1 \in Nat : \E rs1 \in Stacks(c1) :
           /\ renameWith[f][c][rs] =
                Traverse(renameWith, [f EXCEPT !.name = name], c1, rs1)
           /\ c <= c1 /\ name[2] \in 0 .. c1
           /\ f.type \in Quantifiers => name[2] = c1 /\ c < c1
<1> DEFINE P(name, c1, rs1) ==
             /\ renameWith[f][c][rs] =
                  Traverse(renameWith, [f EXCEPT !.name = name], c1, rs1)
             /\ c <= c1 /\ name[2] \in 0 .. c1
             /\ f.type \in Quantifiers => name[2] = c1 /\ c < c1
<1> SUFFICES \E name : \E c1 \in Nat : \E rs1 \in Stacks(c1) : P(name, c1, rs1)
  OBVIOUS
<1>1. f \in AtomsNegated(n)
  BY PartsWithin
<1>2. f.name[2] \in 0 .. n /\ f.name \in AnyName
  BY <1>1, Kids DEF AtomsNegated, NoConditional, Named
<1>3. rs \in Seq(AnyName \X AnyName) /\ \A i \in DOMAIN rs : rs[i][2][2] \in 0 .. c
  BY DEF Stacks
<1>4. renameWith[f] = RenameBody(renameWith, f)
  BY RenameWithDef
<1>5. CASE f.type \in Quantifiers
  <2> DEFINE new == uniqueName(IF f.type = "Universal" THEN "uvar" ELSE "xvar", c)
             rs1 == <<<<f.name, new>>>> \o rs
  <2>1. renameWith[f][c][rs] =
          Traverse(renameWith, [f EXCEPT !.name = new], c + 1, rs1)
    BY <1>3, <1>4, <1>5 DEF RenameBody
  <2>2. new[2] = c + 1
    BY DEF uniqueName
  <2>3. new \in AnyName
    <3>1. (IF f.type = "Universal" THEN "uvar" ELSE "xvar") \in UniquePrefixes
      BY DEF UniquePrefixes
    <3> QED BY <3>1, UniqueIsName
  <2> HIDE DEF new
  <2>4. <<f.name, new>> \in AnyName \X AnyName
    BY <1>2, <2>3
  <2>5. rs1 \in Seq(AnyName \X AnyName)
    BY <1>3, <2>4
  <2>6. \A i \in DOMAIN rs1 : rs1[i] = <<f.name, new>> \/ \E j \in DOMAIN rs : rs1[i] = rs[j]
    <3>1. DOMAIN rs1 = 1 .. (1 + Len(rs))
      BY <1>3
    <3>2. rs1[1] = <<f.name, new>>
      BY <1>3
    <3>3. \A i \in 2 .. (1 + Len(rs)) : rs1[i] = rs[i - 1] /\ i - 1 \in DOMAIN rs
      BY <1>3
    <3> HIDE DEF rs1
    <3>4. \A i \in DOMAIN rs1 : i = 1 \/ i \in 2 .. (1 + Len(rs))
      BY <1>3, <3>1
    <3> QED BY <3>2, <3>3, <3>4
  <2> HIDE DEF rs1
  <2>7. rs1 \in Stacks(c + 1)
    <3> SUFFICES ASSUME NEW i \in DOMAIN rs1 PROVE rs1[i][2][2] \in 0 .. c + 1
      BY <2>5 DEF Stacks
    <3>1. CASE rs1[i] = <<f.name, new>>
      BY <2>2, <3>1
    <3>2. CASE \E j \in DOMAIN rs : rs1[i] = rs[j]
      BY <1>3, <3>2
    <3> QED BY <2>6, <3>1, <3>2
  <2>8. c + 1 \in Nat /\ new[2] \in 0 .. c + 1 /\ c < c + 1
    BY <2>2
  <2>9. P(new, c + 1, rs1)
    BY <2>1, <2>2, <2>8
  <2> HIDE DEF P
  <2> QED BY <2>7, <2>8, <2>9
<1>6. CASE f.type \notin Quantifiers
  <2> DEFINE name == Find(rs, f.name, f.name)
  <2>1. renameWith[f][c][rs] =
          Traverse(renameWith, [f EXCEPT !.name = name], c, rs)
    BY <1>3, <1>4, <1>6 DEF RenameBody
  <2>2. name = f.name \/ \E i \in DOMAIN rs : name = rs[i][2]
    <3>1. DOMAIN rs = 1 .. Len(rs) /\ Len(rs) \in Nat
      BY <1>3
    <3> QED BY <3>1, FindFacts
  <2> HIDE DEF name
  <2>3. name[2] \in 0 .. c
    BY <1>2, <1>3, <2>2
  <2>4. P(name, c, rs)
    BY <1>6, <2>1, <2>3
  <2> HIDE DEF P
  <2> QED BY <2>4
<1> QED BY <1>5, <1>6
(* What renameVariables makes of a record: its binders are numbered after  *)
(* what was there, each differently, and it has the shape it had.          *)
LEMMA VariablesRenamed ==
  ASSUME NEW n \in Nat, NEW f0 \in Records, Parts[f0] \subseteq AtomsNegated(n)
  PROVE  \A c \in Nat : n <= c =>
           \A rs \in Stacks(c) : RenamedWell(f0, c, renameWith[f0][c][rs])
<1> DEFINE T == {f \in Records : Parts[f] \subseteq AtomsNegated(n) =>
                   \A c \in Nat : n <= c =>
                     \A rs \in Stacks(c) : RenamedWell(f, c, renameWith[f][c][rs])}
<1>1. ASSUME NEW f \in Records, \A i \in DOMAIN f.kids : f.kids[i] \in T
      PROVE  f \in T
  <2> SUFFICES ASSUME Parts[f] \subseteq AtomsNegated(n),
                      NEW c \in Nat, n <= c, NEW rs \in Stacks(c)
               PROVE  RenamedWell(f, c, renameWith[f][c][rs])
    OBVIOUS
  <2> DEFINE L == Len(f.kids)
  <2>1. PICK name, c1, rs1 :
          /\ c1 \in Nat /\ rs1 \in Stacks(c1)
          /\ renameWith[f][c][rs] =
               Traverse(renameWith, [f EXCEPT !.name = name], c1, rs1)
          /\ c <= c1 /\ name[2] \in 0 .. c1
          /\ f.type \in Quantifiers => name[2] = c1 /\ c < c1
    BY RenameStep
  <2> DEFINE e == [f EXCEPT !.name = name]
             r == renameWith[f][c][rs]
  <2>2. /\ e = Semantic(f.type, name, f.kids)
        /\ e.type = f.type /\ e.name = name /\ e.kids = f.kids
    BY OtherName
  <2>3. L \in Nat /\ DOMAIN f.kids = 1 .. L
    BY Kids
  <2>4. r = Traverse(renameWith, e, c1, rs1)
    BY <2>1
  <2>5. \A i \in DOMAIN f.kids :
          f.kids[i] \in Records /\ Parts[f.kids[i]] \subseteq AtomsNegated(n)
    BY PartsWithin, Kids
  <2>6. \A i \in DOMAIN f.kids : \A x \in Nat : n <= x =>
          \A s \in Stacks(x) :
            RenamedWell(f.kids[i], x, renameWith[f.kids[i]][x][s])
    BY <1>1, <2>5
  <2> HIDE DEF e, r, T
  <2>7. PICK d : Travels(r, d, renameWith, e, c1, rs1)
    <3>1. Len(e.kids) \in Nat /\ e = Semantic(e.type, e.name, e.kids)
      BY <2>2, <2>3
    <3> QED BY <2>4, <3>1, TraverseTravels
  <2> DEFINE new == r.f.kids
  <2>8. \A x \in Nat : c1 <= x => rs1 \in Stacks(x) /\ n <= x
    BY <2>1 DEF Stacks
  <2> DEFINE D == {x \in Nat : c1 <= x}
  <2>9. \A i \in 0 .. L : d[i] \in D
    <3>1. c1 \in D
      BY <2>1
    <3>2. \A i \in 1 .. Len(e.kids) : \A x \in D :
            renameWith[e.kids[i]][x][rs1].data \in D
      BY <2>1, <2>2, <2>3, <2>6, <2>8 DEF RenamedWell
    <3> HIDE DEF D
    <3>3. Len(e.kids) \in Nat
      BY <2>2, <2>3
    <3>4. \A i \in 0 .. Len(e.kids) : d[i] \in D
      BY <2>7, <3>1, <3>2, <3>3, ThreadWithin DEF Travels
    <3> QED BY <2>2, <3>4
  <2>10. ASSUME NEW i \in 1 .. L
         PROVE  /\ i - 1 \in 0 .. L /\ i \in 0 .. L
                /\ RenamedWell(f.kids[i], d[i - 1],
                               renameWith[f.kids[i]][d[i - 1]][rs1])
                /\ d[i] = renameWith[f.kids[i]][d[i - 1]][rs1].data
    <3>1. i - 1 \in 0 .. L /\ i \in 0 .. L
      BY <2>3
    <3>2. d[i - 1] \in Nat /\ c1 <= d[i - 1]
      BY <2>9, <3>1
    <3>3. RenamedWell(f.kids[i], d[i - 1], renameWith[f.kids[i]][d[i - 1]][rs1])
      BY <2>3, <2>6, <2>8, <3>2
    <3>4. d[i] = renameWith[f.kids[i]][d[i - 1]][rs1].data
      BY <2>2, <2>7 DEF Travels, Threads
    <3> QED BY <3>1, <3>3, <3>4
  <2>11. \A i \in 0 .. L : d[i] \in Nat /\ c1 <= d[i]
    BY <2>9
  <2>12. \A i, j \in 0 .. L : i <= j => d[i] <= d[j]
    <3>1. \A i \in 1 .. L : d[i - 1] <= d[i]
      BY <2>10 DEF RenamedWell
    <3> QED BY <2>3, <2>11, <3>1, NeverFalls
  <2>13. /\ r.f.type = f.type /\ r.f.name = name /\ r.f.kids = new
         /\ r.data = d[L]
    BY <2>2, <2>7 DEF Travels
  <2>14. r.data \in Nat /\ c1 <= r.data /\ c <= r.data
    BY <2>1, <2>3, <2>11, <2>13
  <2>15. d[0] = c1
    BY <2>7 DEF Travels, Threads
  <2>16. ASSUME r.f \in Records
         PROVE  Parts[r.f] \subseteq Renamed(c, r.data) /\ BindOnce[r.f]
    <3>1. ASSUME NEW i \in 1 .. L
          PROVE  /\ new[i] \in Records /\ new[i].type = f.kids[i].type
                 /\ Parts[new[i]] \subseteq Renamed(d[i - 1], d[i])
                 /\ Parts[new[i]] \subseteq Renamed(c, r.data)
                 /\ BindOnce[new[i]]
      <4>1. new[i] = renameWith[f.kids[i]][d[i - 1]][rs1].f
        BY <2>2, <2>7 DEF Travels
      <4>2. DOMAIN r.f.kids = 1 .. L /\ r.f.kids[i] = new[i]
        BY <2>2, <2>7 DEF Travels
      <4> HIDE DEF new
      <4>3. new[i] \in Records
        BY <2>16, <4>2, Kids
      <4>4. /\ new[i].type = f.kids[i].type
            /\ Parts[new[i]] \subseteq Renamed(d[i - 1], d[i])
            /\ BindOnce[new[i]]
        BY <2>10, <4>1, <4>3, Zenon DEF RenamedWell
      <4>5. Renamed(d[i - 1], d[i]) \subseteq Renamed(c, r.data)
        <5>1. i - 1 \in 0 .. L /\ i \in 0 .. L /\ L \in 0 .. L /\ i <= L
          BY <2>3
        <5>2. d[i - 1] \in Nat /\ d[i] \in Nat /\ c1 <= d[i - 1] /\ d[i] <= d[L]
          BY <2>11, <2>12, <5>1
        <5>3. c <= d[i - 1] /\ d[i] <= r.data
          BY <2>1, <2>13, <5>2
        <5> QED BY <2>14, <5>2, <5>3, RenamedGrows
      <4> QED BY <4>3, <4>4, <4>5
    <3>2. /\ DOMAIN r.f.kids = 1 .. L /\ Len(r.f.kids) = L
          /\ \A i \in 1 .. L : r.f.kids[i] = new[i]
      <4>1. DOMAIN r.f.kids = 1 .. L
        BY <2>2, <2>7 DEF Travels
      <4>2. Len(r.f.kids) \in Nat /\ DOMAIN r.f.kids = 1 .. Len(r.f.kids)
        BY <2>16, Kids
      <4> QED BY <2>3, <2>13, <4>1, <4>2
    <3> HIDE DEF new
    <3>3. r.f \in Renamed(c, r.data)
      <4>1. f \in AtomsNegated(n)
        BY PartsWithin
      <4>2. r.f \in NoConditional(r.data)
        BY <2>1, <2>13, <2>14, <2>16, <4>1 DEF AtomsNegated, NoConditional, Named
      <4>3. r.f.type = "Negation" => r.f.kids[1].type \notin Pushable
        <5> SUFFICES ASSUME f.type = "Negation"
                     PROVE  r.f.kids[1].type = f.kids[1].type
          BY <2>13, <4>1 DEF AtomsNegated
        <5>1. 1 \in 1 .. L
          BY <2>3, Operands
        <5> QED BY <3>1, <3>2, <5>1
      <4>4. r.f.type \in Quantifiers => r.f.name[2] \in c + 1 .. r.data
        BY <2>1, <2>13, <2>14
      <4> QED BY <4>2, <4>3, <4>4 DEF Renamed, AtomsNegated
    <3>4. Parts[r.f] \subseteq Renamed(c, r.data)
      BY <2>16, <3>1, <3>2, <3>3, PartsWithin
    <3>5. BindOnce[r.f]
      <4>1. r.f.type \in Quantifiers => r.f.name[2] <= d[0] /\ r.f.name[2] \in Nat
        BY <2>1, <2>13, <2>15
      <4> QED BY <2>11, <2>12, <2>16, <3>1, <3>2, <4>1, BindOnceIntro
    <3> QED BY <3>4, <3>5
  <2> QED BY <2>13, <2>14, <2>16 DEF RenamedWell, r
<1> HIDE DEF T
<1>2. Records \subseteq T
  BY <1>1, RecordInduction
<1> QED BY <1>2 DEF T
(* The data of skolemize: terms with names numbered up to the counter.     *)
Skolems ==
  {data \in SkolemData : \A i \in DOMAIN data.fns :
     /\ data.fns[i][2] \in Records /\ data.fns[i][2].type \in TermTypes
     /\ Parts[data.fns[i][2]] \subseteq Named(data.counter)}

(* The universal variables in scope.                                       *)
Scopes(c) == {s \in Seq(AnyName) : \A i \in DOMAIN s : s[i][2] \in 0 .. c}

SkolemizedWell(f, data, r) ==
  /\ r.data \in Skolems /\ data.counter <= r.data.counter
  /\ f.type \notin TermTypes \cup Quantifiers => r.f.type = f.type
  /\ f.type \in TermTypes => r.f.type \in TermTypes
  /\ r.f \in Records => Parts[r.f] \subseteq NoExistential(r.data.counter)

(* skolemize does well on the kids of f.                                   *)
SkolemizesKids(f, n) ==
  \A i \in DOMAIN f.kids : \A x \in Skolems : n <= x.counter =>
    \A s \in Scopes(x.counter) :
      SkolemizedWell(f.kids[i], x, skolemizeIn[f.kids[i]][x][s])

(* Names numbered up to a are numbered up to b.                            *)
LEMMA ExistentialGrows ==
  ASSUME NEW a \in Nat, NEW b \in Nat, a <= b
  PROVE  /\ NoExistential(a) \subseteq NoExistential(b)
         /\ Named(a) \subseteq Named(b)
  BY DEF NoExistential, AtomsNegated, NoConditional, Named

(* A term without arguments is a record, on the first level.               *)
LEMMA LeafRecord ==
  ASSUME NEW t \in TermTypes, NEW name \in AnyName
  PROVE  /\ Leaf(t, name) \in Records /\ Height(Leaf(t, name)) = 1
         /\ Leaf(t, name).type = t /\ Leaf(t, name).name = name
         /\ Parts[Leaf(t, name)] = {Leaf(t, name)}
<1> DEFINE f == Leaf(t, name)
<1>1. f.type = t /\ f.name = name /\ f.kids = <<>>
  BY DEF Leaf, Semantic
<1>2. Shaped(f)
  BY <1>1 DEF Shaped, TermTypes, Binary, Quantifiers
<1>3. f \in [type : RecordTypes, name : AnyName, kids : Seq(Records)]
  <2>1. t \in RecordTypes /\ <<>> \in Seq(Records)
    BY DEF RecordTypes
  <2> QED BY <2>1 DEF Leaf, Semantic
<1>4. f \in Shape(Records)
  BY <1>2, <1>3 DEF Shape
<1>5. 1 \in 1 .. MaxHeight
  BY HeightAssumption
<1>6. \A i \in DOMAIN f.kids : Height(f.kids[i]) + Weight(f.type) <= 1
  BY <1>1
<1> HIDE DEF f
<1>7. f \in Records /\ Height(f) \in 1 .. 1
  BY <1>4, <1>5, <1>6, RecordIntro
<1>8. Parts[f] = {f}
  <2>1. Parts[f] = {f} \cup UNION {Parts[f.kids[i]] : i \in DOMAIN f.kids}
    BY <1>7, PartsDef
  <2> QED BY <1>1, <2>1
<1> QED BY <1>1, <1>7, <1>8 DEF f

(* What an existential variable is replaced by.                            *)
LEMMA SkolemTermRecord ==
  ASSUME NEW c \in Nat, NEW name \in AnyName, name[2] \in 0 .. c, NEW s \in Scopes(c)
  PROVE  LET t == SkolemTerm(name, s)
         IN t \in Records /\ t.type \in TermTypes /\ Parts[t] \subseteq Named(c)
<1>1. s \in Seq(AnyName) /\ \A i \in DOMAIN s : s[i][2] \in 0 .. c
  BY DEF Scopes
<1>2. CASE s = <<>>
  <2>1. SkolemTerm(name, s) = Leaf("Constant", name)
    BY <1>2 DEF SkolemTerm
  <2>2. "Constant" \in TermTypes
    BY DEF TermTypes
  <2> QED BY <2>1, <2>2, LeafRecord DEF Named
<1>3. CASE s # <<>>
  <2> DEFINE kids == [i \in DOMAIN s |-> Leaf("Variable", s[i])]
             t == Semantic("Function", name, kids)
  <2>1. SkolemTerm(name, s) = t
    BY <1>3 DEF SkolemTerm
  <2>2. \A i \in DOMAIN s :
          /\ kids[i] \in Records /\ Height(kids[i]) = 1 /\ kids[i].type \in TermTypes
          /\ Parts[kids[i]] \subseteq Named(c)
    <3>1. "Variable" \in TermTypes
      BY DEF TermTypes
    <3> QED BY <1>1, <3>1, LeafRecord DEF Named
  <2>3. kids \in Seq(Records) /\ DOMAIN kids = DOMAIN s
    <3>1. DOMAIN s = 1 .. Len(s) /\ Len(s) \in Nat
      BY <1>1
    <3> QED BY <2>2, <3>1
  <2>4. t.type = "Function" /\ t.name = name /\ t.kids = kids
    BY DEF Semantic
  <2> HIDE DEF kids
  <2>5. t \in Shape(Records)
    <3>1. Shaped(t)
      BY <2>2, <2>3, <2>4 DEF Shaped, Logical, Binary, Quantifiers, TermTypes
    <3>2. "Function" \in RecordTypes
      BY DEF RecordTypes, TermTypes
    <3> QED BY <2>3, <3>1, <3>2 DEF Shape, Semantic
  <2> HIDE DEF t
  <2>6. 2 \in 1 .. MaxHeight /\ Weight("Function") = 1
    BY HeightAssumption DEF Weight
  <2>7. \A i \in DOMAIN t.kids : Height(t.kids[i]) + Weight(t.type) <= 2
    BY <2>2, <2>3, <2>4, <2>6
  <2>8. t \in Records
    BY <2>5, <2>6, <2>7, RecordIntro
  <2>9. t \in Named(c)
    BY <2>4, <2>8 DEF Named
  <2>10. Parts[t] \subseteq Named(c)
    BY <2>2, <2>3, <2>4, <2>8, <2>9, PartsWithin
  <2> QED BY <2>1, <2>4, <2>8, <2>10 DEF TermTypes
<1> QED BY <1>2, <1>3
(* What skolemize makes of a record of which it visits the kids.           *)
LEMMA SkolemTraverse ==
  ASSUME NEW n \in Nat, NEW f \in Records, Parts[f] \subseteq AtomsNegated(n),
         f.type # "Existential",
         NEW data \in Skolems, n <= data.counter, NEW env \in Scopes(data.counter),
         SkolemizesKids(f, n)
  PROVE  LET r == Traverse(skolemizeIn, f, data, env)
         IN /\ r.data \in Skolems /\ data.counter <= r.data.counter
            /\ r.f.type = f.type
            /\ r.f \in Records => Parts[r.f] \subseteq NoExistential(r.data.counter)
<1> DEFINE r == Traverse(skolemizeIn, f, data, env)
           L == Len(f.kids)
<1>1. L \in Nat /\ DOMAIN f.kids = 1 .. L /\ f = Semantic(f.type, f.name, f.kids)
  BY Kids
<1>2. PICK d : Travels(r, d, skolemizeIn, f, data, env)
  BY <1>1, TraverseTravels
<1> HIDE DEF r
<1>3. \A x \in Skolems : x.counter \in Nat
  BY DEF Skolems, SkolemData
<1> DEFINE D == {x \in Skolems : data.counter <= x.counter}
<1>4. \A x \in D : n <= x.counter /\ env \in Scopes(x.counter)
  BY <1>3 DEF Scopes
<1>5. \A i \in 0 .. L : d[i] \in D
  <2>1. data \in D
    BY <1>3
  <2>2. \A i \in 1 .. L : \A x \in D : skolemizeIn[f.kids[i]][x][env].data \in D
    <3> SUFFICES ASSUME NEW i \in 1 .. L, NEW x \in D
                 PROVE  skolemizeIn[f.kids[i]][x][env].data \in D
      OBVIOUS
    <3>1. SkolemizedWell(f.kids[i], x, skolemizeIn[f.kids[i]][x][env])
      BY <1>1, <1>4 DEF SkolemizesKids
    <3> QED BY <1>3, <3>1 DEF SkolemizedWell
  <2> HIDE DEF D
  <2> QED BY <1>1, <1>2, <2>1, <2>2, ThreadWithin DEF Travels
<1>6. ASSUME NEW i \in 1 .. L
      PROVE  /\ i - 1 \in 0 .. L /\ i \in 0 .. L
             /\ SkolemizedWell(f.kids[i], d[i - 1], skolemizeIn[f.kids[i]][d[i - 1]][env])
             /\ d[i] = skolemizeIn[f.kids[i]][d[i - 1]][env].data
             /\ r.f.kids[i] = skolemizeIn[f.kids[i]][d[i - 1]][env].f
  <2>1. i - 1 \in 0 .. L /\ i \in 0 .. L
    BY <1>1
  <2>2. d[i - 1] \in D
    BY <1>5, <2>1
  <2>3. SkolemizedWell(f.kids[i], d[i - 1], skolemizeIn[f.kids[i]][d[i - 1]][env])
    BY <1>1, <1>4, <2>2 DEF SkolemizesKids
  <2>4. d[i] = skolemizeIn[f.kids[i]][d[i - 1]][env].data
    BY <1>2 DEF Travels, Threads
  <2>5. r.f.kids[i] = skolemizeIn[f.kids[i]][d[i - 1]][env].f
    BY <1>2 DEF Travels
  <2> QED BY <2>1, <2>3, <2>4, <2>5
<1>7. \A i \in 0 .. L :
        d[i] \in Skolems /\ d[i].counter \in Nat /\ data.counter <= d[i].counter
  BY <1>3, <1>5
<1>8. \A i, j \in 0 .. L : i <= j => d[i].counter <= d[j].counter
  <2> DEFINE c == [i \in 0 .. L |-> d[i].counter]
  <2>1. \A i \in 0 .. L : c[i] \in Nat /\ c[i] = d[i].counter
    BY <1>7
  <2>2. \A i \in 1 .. L : c[i - 1] <= c[i]
    BY <1>6, <2>1 DEF SkolemizedWell
  <2> HIDE DEF c
  <2>3. \A i, j \in 0 .. L : i <= j => c[i] <= c[j]
    BY <1>1, <2>1, <2>2, NeverFalls
  <2> QED BY <2>1, <2>3
<1>9. /\ r.data = d[L] /\ r.f.type = f.type /\ r.f.name = f.name
      /\ DOMAIN r.f.kids = 1 .. L
  BY <1>2 DEF Travels
<1>10. r.data \in Skolems /\ data.counter <= r.data.counter /\ r.data.counter \in Nat
  BY <1>1, <1>7, <1>9
<1>11. ASSUME r.f \in Records PROVE Parts[r.f] \subseteq NoExistential(r.data.counter)
  <2>1. ASSUME NEW i \in 1 .. L
        PROVE  Parts[r.f.kids[i]] \subseteq NoExistential(r.data.counter)
    <3>1. r.f.kids[i] \in Records
      BY <1>9, <1>11, Kids
    <3>2. Parts[r.f.kids[i]] \subseteq NoExistential(d[i].counter)
      BY <1>6, <3>1 DEF SkolemizedWell
    <3>3. i \in 0 .. L /\ L \in 0 .. L /\ i <= L
      BY <1>1
    <3>4. /\ d[i].counter \in Nat /\ d[L].counter \in Nat
          /\ d[i].counter <= d[L].counter
      BY <1>7, <1>8, <3>3
    <3> QED BY <1>9, <3>2, <3>4, ExistentialGrows
  <2>2. f \in AtomsNegated(n)
    BY PartsWithin
  <2>3. n <= r.data.counter
    BY <1>3, <1>10
  <2>4. r.f \in NoConditional(r.data.counter)
    BY <1>9, <1>10, <1>11, <2>2, <2>3 DEF AtomsNegated, NoConditional, Named
  <2>5. r.f.type = "Negation" => r.f.kids[1].type \notin Pushable
    <3> SUFFICES ASSUME f.type = "Negation" PROVE r.f.kids[1].type = f.kids[1].type
      BY <1>9, <2>2 DEF AtomsNegated
    <3>1. 1 \in 1 .. L /\ f.kids[1].type \notin TermTypes
      BY <1>1, Operands
    <3>2. f.kids[1].type \notin Quantifiers
      BY <2>2 DEF AtomsNegated, Pushable
    <3> QED BY <1>6, <3>1, <3>2 DEF SkolemizedWell
  <2>6. r.f \in NoExistential(r.data.counter)
    BY <1>9, <2>4, <2>5 DEF NoExistential, AtomsNegated
  <2> QED BY <1>9, <1>11, <2>1, <2>6, PartsWithin
<1> QED BY <1>9, <1>10, <1>11 DEF r

(* What skolemize makes of a record: no existential, the shape it had, and *)
(* only terms where there were terms.                                      *)
LEMMA ExistentialsGone ==
  ASSUME NEW n \in Nat, NEW f0 \in Records, Parts[f0] \subseteq AtomsNegated(n)
  PROVE  \A x \in Skolems : n <= x.counter =>
           \A s \in Scopes(x.counter) : SkolemizedWell(f0, x, skolemizeIn[f0][x][s])
<1> DEFINE T == {f \in Records : Parts[f] \subseteq AtomsNegated(n) =>
                   \A x \in Skolems : n <= x.counter =>
                     \A s \in Scopes(x.counter) :
                       SkolemizedWell(f, x, skolemizeIn[f][x][s])}
<1>1. ASSUME NEW f \in Records, \A i \in DOMAIN f.kids : f.kids[i] \in T
      PROVE  f \in T
  <2> SUFFICES ASSUME Parts[f] \subseteq AtomsNegated(n),
                      NEW x \in Skolems, n <= x.counter, NEW s \in Scopes(x.counter)
               PROVE  SkolemizedWell(f, x, skolemizeIn[f][x][s])
    OBVIOUS
  <2> DEFINE r == skolemizeIn[f][x][s]
  <2>1. \A i \in DOMAIN f.kids :
          f.kids[i] \in Records /\ Parts[f.kids[i]] \subseteq AtomsNegated(n)
    BY PartsWithin, Kids
  <2>2. SkolemizesKids(f, n)
    BY <1>1, <2>1 DEF SkolemizesKids
  <2> HIDE DEF T
  <2>3. /\ x \in SkolemData /\ s \in Seq(AnyName) /\ x.counter \in Nat
        /\ x.fns \in Seq(AnyName \X Records)
    BY DEF Skolems, Scopes, SkolemData
  <2>4. skolemizeIn[f] = SkolemizeBody(skolemizeIn, f)
    BY SkolemizeDef
  <2>5. f \in AtomsNegated(n) /\ f.name \in AnyName /\ f.name[2] \in 0 .. n
    BY PartsWithin, Kids DEF AtomsNegated, NoConditional, Named
  <2>6. CASE f.type = "Universal"
    <3>1. r = Traverse(skolemizeIn, f, x, Append(s, f.name))
      BY <2>3, <2>4, <2>6 DEF SkolemizeBody
    <3>2. Append(s, f.name) \in Scopes(x.counter)
      <4>1. Append(s, f.name) \in Seq(AnyName)
        BY <2>3, <2>5
      <4>2. \A i \in DOMAIN Append(s, f.name) :
              Append(s, f.name)[i] = f.name \/ \E j \in DOMAIN s : Append(s, f.name)[i] = s[j]
        BY <2>3
      <4>3. f.name[2] \in 0 .. x.counter
        BY <2>3, <2>5
      <4> QED BY <4>1, <4>2, <4>3 DEF Scopes
    <3>3. f.type \in Quantifiers /\ f.type \notin TermTypes
      BY <2>6 DEF Quantifiers, TermTypes
    <3> HIDE DEF r
    <3> QED BY <2>2, <2>6, <3>1, <3>2, <3>3, SkolemTraverse DEF SkolemizedWell, r
  <2>7. CASE f.type = "Existential"
    <3> DEFINE name == uniqueName("skolem", x.counter)
               t == SkolemTerm(name, s)
               y == [counter |-> x.counter + 1, fns |-> Append(x.fns, <<f.name, t>>)]
    <3>1. r = skolemizeIn[f.kids[1]][y][s]
      BY <2>3, <2>4, <2>7 DEF SkolemizeBody
    <3>2. name \in AnyName /\ name[2] = x.counter + 1 /\ name[2] \in 0 .. x.counter + 1
      <4>1. "skolem" \in UniquePrefixes
        BY DEF UniquePrefixes
      <4> QED BY <2>3, <4>1, UniqueIsName DEF uniqueName
    <3> HIDE DEF name
    <3>3. s \in Scopes(x.counter + 1) /\ x.counter + 1 \in Nat
      BY <2>3 DEF Scopes
    <3>4. t \in Records /\ t.type \in TermTypes /\ Parts[t] \subseteq Named(x.counter + 1)
      BY <3>2, <3>3, SkolemTermRecord
    <3> HIDE DEF t
    <3>5. /\ y.counter = x.counter + 1 /\ y.fns = Append(x.fns, <<f.name, t>>)
          /\ y \in SkolemData
      <4>1. <<f.name, t>> \in AnyName \X Records
        BY <2>5, <3>4
      <4>2. Append(x.fns, <<f.name, t>>) \in Seq(AnyName \X Records)
        BY <2>3, <4>1
      <4> QED BY <3>3, <4>2 DEF SkolemData
    <3>6. \A i \in DOMAIN y.fns :
            y.fns[i] = <<f.name, t>> \/ \E j \in DOMAIN x.fns : y.fns[i] = x.fns[j]
      BY <2>3, <3>5
    <3> HIDE DEF y
    <3>7. y \in Skolems
      <4> SUFFICES ASSUME NEW i \in DOMAIN y.fns
                   PROVE  /\ y.fns[i][2] \in Records /\ y.fns[i][2].type \in TermTypes
                          /\ Parts[y.fns[i][2]] \subseteq Named(y.counter)
        BY <3>5 DEF Skolems
      <4>1. CASE y.fns[i] = <<f.name, t>>
        BY <3>4, <3>5, <4>1
      <4>2. CASE \E j \in DOMAIN x.fns : y.fns[i] = x.fns[j]
        <5>1. PICK j \in DOMAIN x.fns : y.fns[i] = x.fns[j]
          BY <4>2
        <5>2. /\ x.fns[j][2] \in Records /\ x.fns[j][2].type \in TermTypes
              /\ Parts[x.fns[j][2]] \subseteq Named(x.counter)
          BY DEF Skolems
        <5>3. Named(x.counter) \subseteq Named(x.counter + 1)
          BY <2>3, <3>3, ExistentialGrows
        <5> QED BY <3>5, <5>1, <5>2, <5>3
      <4> QED BY <3>6, <4>1, <4>2
    <3>8. 1 \in DOMAIN f.kids
      BY <2>7, Operands DEF Quantifiers
    <3>9. SkolemizedWell(f.kids[1], y, r)
      <4>1. n <= y.counter /\ s \in Scopes(y.counter)
        BY <2>3, <3>3, <3>5
      <4> QED BY <2>2, <3>1, <3>7, <3>8, <4>1 DEF SkolemizesKids
    <3>10. f.type \in Quantifiers /\ f.type \notin TermTypes
      BY <2>7 DEF Quantifiers, TermTypes
    <3>11. x.counter <= r.data.counter
      <4>1. r.data.counter \in Nat
        BY <3>9 DEF SkolemizedWell, Skolems, SkolemData
      <4> QED BY <2>3, <3>5, <3>9, <4>1 DEF SkolemizedWell
    <3> HIDE DEF r
    <3> QED BY <3>9, <3>10, <3>11 DEF SkolemizedWell, r
  <2>8. CASE f.type = "Variable"
    <3>1. r = [f |-> Find(x.fns, f.name, f), data |-> x]
      BY <2>3, <2>4, <2>8 DEF SkolemizeBody
    <3> DEFINE v == Find(x.fns, f.name, f)
    <3>2. v = f \/ \E i \in DOMAIN x.fns : v = x.fns[i][2]
      <4>1. DOMAIN x.fns = 1 .. Len(x.fns) /\ Len(x.fns) \in Nat
        BY <2>3
      <4> QED BY <4>1, FindFacts
    <3> HIDE DEF v, r
    <3>3. v \in Records /\ v.type \in TermTypes /\ Parts[v] \subseteq Named(x.counter)
      <4>1. CASE v = f
        <5>1. Parts[f] \subseteq Named(n)
          BY DEF AtomsNegated, NoConditional
        <5>2. Named(n) \subseteq Named(x.counter)
          BY <2>3, ExistentialGrows
        <5> QED BY <2>8, <4>1, <5>1, <5>2 DEF TermTypes
      <4>2. CASE \E i \in DOMAIN x.fns : v = x.fns[i][2]
        BY <4>2 DEF Skolems
      <4> QED BY <3>2, <4>1, <4>2
    <3>4. Parts[v] \subseteq NoQuantifier(x.counter)
      <4>1. v.type \notin Logical
        BY <3>3 DEF TermTypes, Logical, Quantifiers
      <4> QED BY <2>3, <3>3, <4>1, AtomParts
    <3>5. Parts[v] \subseteq NoExistential(x.counter)
      BY <3>4 DEF NoQuantifier, NoExistential, Quantifiers
    <3>6. r.f = v /\ r.data = x
      BY <3>1 DEF v
    <3>7. f.type \in TermTypes
      BY <2>8 DEF TermTypes
    <3> QED BY <2>3, <3>3, <3>5, <3>6, <3>7 DEF SkolemizedWell, r
  <2>9. CASE f.type \notin {"Universal", "Existential", "Variable"}
    <3>1. r = Traverse(skolemizeIn, f, x, s)
      BY <2>3, <2>4, <2>9 DEF SkolemizeBody
    <3> HIDE DEF r
    <3> QED BY <2>2, <2>9, <3>1, SkolemTraverse DEF SkolemizedWell, r
  <2> QED BY <2>6, <2>7, <2>8, <2>9
<1> HIDE DEF T
<1>2. Records \subseteq T
  BY <1>1, RecordInduction
<1> QED BY <1>2 DEF T
-----------------------------------------------------------------------------
(* What a pass of the distribution leaves, and what it has no more to do.  *)

(* A disjunction of quantifier-free operands is quantifier-free.           *)
LEMMA OrParts ==
  ASSUME NEW n \in Nat, NEW a, NEW b, Join("Or", a, b) \in Records,
         Parts[a] \subseteq NoQuantifier(n), Parts[b] \subseteq NoQuantifier(n)
  PROVE  Parts[Join("Or", a, b)] \subseteq NoQuantifier(n)
<1>1. Join("Or", a, b) \in NoQuantifier(n)
  BY JoinParts, NoNumber DEF NoQuantifier, AtomsNegated, NoConditional, Named, Quantifiers
<1> QED BY <1>1, JoinParts

(* What Lift makes of f keeps to what f keeps to.                          *)
LEMMA LiftedOrParts ==
  ASSUME NEW n \in Nat, NEW f \in Records, Parts[f] \subseteq NoQuantifier(n)
  PROVE  LET g == Lift(f, "Or", "And", "Or")
         IN /\ g = Semantic(g.type, g.name, g.kids) /\ g.name[2] \in 0 .. n
            /\ g = f \/ (f.type = "Or" /\ g.type = "And")
            /\ \A i \in DOMAIN g.kids : Parts[g.kids[i]] \subseteq NoQuantifier(n)
<1> DEFINE g == Lift(f, "Or", "And", "Or")
           x == f.kids[1]
           y == f.kids[2]
           Free(k) == Parts[k] \subseteq NoQuantifier(n)
           Halves(a, b, c, d) == Join("And", Join("Or", a, b), Join("Or", c, d))
           Goal == /\ g = Semantic(g.type, g.name, g.kids) /\ g.name[2] \in 0 .. n
                   /\ f.type = "Or" /\ g.type = "And"
                   /\ \A i \in DOMAIN g.kids : Parts[g.kids[i]] \subseteq NoQuantifier(n)
<1>1. /\ f \in NoQuantifier(n) /\ f = Semantic(f.type, f.name, f.kids)
      /\ \A i \in DOMAIN f.kids : Parts[f.kids[i]] \subseteq NoQuantifier(n)
  BY PartsWithin, Kids
<1>2. f.name[2] \in 0 .. n
  BY <1>1 DEF NoQuantifier, AtomsNegated, NoConditional, Named
<1>3. CASE f.type # "Or" \/ (x.type # "And" /\ y.type # "And")
  <2>1. g = f
    BY <1>3, LiftOrCases
  <2> QED BY <1>1, <1>2, <2>1
<1>4. ASSUME NEW a, NEW b, NEW c, NEW d, f.type = "Or", g = Halves(a, b, c, d),
             Free(a), Free(b), Free(c), Free(d)
      PROVE  Goal
  <2> DEFINE l == Join("Or", a, b)
             r == Join("Or", c, d)
  <2> HIDE DEF g
  <2>1. /\ g.type = "And" /\ g.name = NoName /\ g.kids = <<l, r>>
        /\ g = Semantic(g.type, g.name, g.kids)
    BY <1>4 DEF Join, Semantic
  <2>2. \A i \in DOMAIN g.kids : g.kids[i] \in Records
    BY <1>4, LiftedOrKids DEF Branching, Binary, g
  <2>3. l \in Records /\ r \in Records
    BY <2>1, <2>2
  <2>4. Parts[l] \subseteq NoQuantifier(n) /\ Parts[r] \subseteq NoQuantifier(n)
    BY <1>4, <2>3, OrParts
  <2> QED BY <1>4, <2>1, <2>4, NoNumber
<1>5. ASSUME f.type = "Or"
      PROVE  /\ x \in Records /\ y \in Records
             /\ Parts[x] \subseteq NoQuantifier(n) /\ Parts[y] \subseteq NoQuantifier(n)
  BY <1>1, <1>5, Operands DEF Binary
<1>6. ASSUME NEW p \in Records, p.type = "And", Parts[p] \subseteq NoQuantifier(n)
      PROVE  /\ Parts[p.kids[1]] \subseteq NoQuantifier(n)
             /\ Parts[p.kids[2]] \subseteq NoQuantifier(n)
  <2>1. 1 \in DOMAIN p.kids /\ 2 \in DOMAIN p.kids
    BY <1>6, Operands DEF Binary
  <2> QED BY <1>6, <2>1, PartsWithin
<1>7. CASE f.type = "Or" /\ x.type = "And"
  <2>1. g = Join("And", Join("Or", x.kids[1], y), Join("Or", x.kids[2], y))
    BY <1>7, LiftOrCases
  <2>2. Parts[x.kids[1]] \subseteq NoQuantifier(n) /\ Parts[x.kids[2]] \subseteq NoQuantifier(n)
    BY <1>5, <1>6, <1>7
  <2>3. /\ g = Halves(x.kids[1], y, x.kids[2], y)
        /\ Free(x.kids[1]) /\ Free(x.kids[2]) /\ Free(y)
    BY <1>5, <1>7, <2>1, <2>2
  <2> HIDE DEF g, Halves, Free, Goal
  <2>4. Goal
    BY <1>4, <1>7, <2>3
  <2> QED BY <2>4 DEF Goal, g
<1>8. CASE f.type = "Or" /\ x.type # "And" /\ y.type = "And"
  <2>1. g = Join("And", Join("Or", x, y.kids[1]), Join("Or", x, y.kids[2]))
    BY <1>8, LiftOrCases
  <2>2. Parts[y.kids[1]] \subseteq NoQuantifier(n) /\ Parts[y.kids[2]] \subseteq NoQuantifier(n)
    BY <1>5, <1>6, <1>8
  <2>3. /\ g = Halves(x, y.kids[1], x, y.kids[2])
        /\ Free(y.kids[1]) /\ Free(y.kids[2]) /\ Free(x)
    BY <1>5, <1>8, <2>1, <2>2
  <2> HIDE DEF g, Halves, Free, Goal
  <2>4. Goal
    BY <1>4, <1>8, <2>3
  <2> QED BY <2>4 DEF Goal, g
<1> QED BY <1>3, <1>7, <1>8

(* Types that are not distributed over stay what they are.                 *)
LEMMA OrsKeepType ==
  \A f \in Records : f.type # "Or" =>
    /\ distributeOrs[f].type = f.type
    /\ distributeOrs[f] = OnBranches(distributeOrs, f)
<1> SUFFICES ASSUME NEW f \in Records, f.type # "Or"
             PROVE  /\ distributeOrs[f].type = f.type
                    /\ distributeOrs[f] = OnBranches(distributeOrs, f)
  OBVIOUS
<1>1. Lift(f, "Or", "And", "Or") = f
  BY LiftOrCases
<1>2. distributeOrs[f] = OnBranches(distributeOrs, f)
  BY <1>1, DistributeOrsDef DEF DistributeOrsBody
<1> QED BY <1>2, BranchFacts, Kids

(* distributeOrs makes no quantifier, no conditional, and no negation of   *)
(* anything but an atom.                                                   *)
LEMMA OrsKept ==
  ASSUME NEW n \in Nat, NEW f0 \in Records, Parts[f0] \subseteq NoQuantifier(n),
         distributeOrs[f0] \in Records
  PROVE  Parts[distributeOrs[f0]] \subseteq NoQuantifier(n)
<1> DEFINE T == {f \in Records :
                   Parts[f] \subseteq NoQuantifier(n) /\ distributeOrs[f] \in Records
                     => Parts[distributeOrs[f]] \subseteq NoQuantifier(n)}
<1>1. ASSUME NEW f \in Records,
             \A y \in Records : SizeOf(y) < SizeOf(f) => y \in T
      PROVE  f \in T
  <2> DEFINE g == Lift(f, "Or", "And", "Or")
             r == distributeOrs[f]
  <2> SUFFICES ASSUME Parts[f] \subseteq NoQuantifier(n), r \in Records
               PROVE  Parts[r] \subseteq NoQuantifier(n)
    OBVIOUS
  <2>1. r = OnBranches(distributeOrs, g)
    BY DistributeOrsDef DEF DistributeOrsBody
  <2>2. /\ g = Semantic(g.type, g.name, g.kids) /\ g.name[2] \in 0 .. n
        /\ g = f \/ (f.type = "Or" /\ g.type = "And")
        /\ \A i \in DOMAIN g.kids : Parts[g.kids[i]] \subseteq NoQuantifier(n)
    BY LiftedOrParts
  <2>3. f.type \in Branching => \A i \in DOMAIN g.kids : g.kids[i] \in T
    BY <1>1, LiftedOrKids DEF SizeOf
  <2>4. f \in NoQuantifier(n)
    BY PartsWithin
  <2> HIDE DEF g, r
  <2>5. /\ r.type = g.type /\ r.name = g.name /\ DOMAIN r.kids = DOMAIN g.kids
        /\ g.type \notin Branching => r = g
        /\ g.type \in Branching =>
             \A i \in DOMAIN g.kids : r.kids[i] = distributeOrs[g.kids[i]]
    BY <2>1, <2>2, BranchFacts
  <2>6. CASE f.type \notin Branching
    <3>1. r = f
      BY <2>2, <2>5, <2>6 DEF Branching, Binary
    <3> QED BY <3>1
  <2>7. CASE f.type \in Branching
    <3>1. g.type \in Branching
      BY <2>2, <2>7 DEF Branching, Binary
    <3>2. \A i \in DOMAIN r.kids : Parts[r.kids[i]] \subseteq NoQuantifier(n)
      <4> SUFFICES ASSUME NEW i \in DOMAIN r.kids
                   PROVE  Parts[r.kids[i]] \subseteq NoQuantifier(n)
        OBVIOUS
      <4>1. r.kids[i] = distributeOrs[g.kids[i]] /\ r.kids[i] \in Records
        BY <2>5, <3>1, Kids
      <4> QED BY <2>2, <2>3, <2>5, <2>7, <4>1
    <3>3. r.type = "Negation" => r.kids[1].type \notin Pushable
      <4> SUFFICES ASSUME r.type = "Negation" PROVE r.kids[1].type \notin Pushable
        OBVIOUS
      <4>1. g = f /\ f.type = "Negation"
        BY <2>2, <2>5
      <4>2. f.kids[1] \in Records /\ 1 \in DOMAIN f.kids
        BY <4>1, Operands
      <4>3. f.kids[1].type \notin Pushable
        BY <2>4, <4>1 DEF NoQuantifier, AtomsNegated
      <4>4. r.kids[1] = distributeOrs[f.kids[1]]
        BY <2>5, <3>1, <4>1, <4>2
      <4>5. f.kids[1].type # "Or"
        BY <4>3 DEF Pushable
      <4> QED BY <4>2, <4>3, <4>4, <4>5, OrsKeepType
    <3>4. r \in NoQuantifier(n)
      BY <2>2, <2>4, <2>5, <3>3
         DEF NoQuantifier, AtomsNegated, NoConditional, Named, Quantifiers
    <3> QED BY <3>2, <3>4, PartsWithin
  <2> QED BY <2>6, <2>7
<1> HIDE DEF T
<1>2. Records \subseteq T
  <2>1. \A f \in Records : SizeOf(f) \in Nat
    BY SizeDef DEF SizeOf
  <2> QED BY <1>1, SizeInduction
<1> QED BY <1>2 DEF T

(* No operand of type inner is below a part of type outer.                 *)
Apart(inner, outer) ==
  {p \in Records : p.type = inner => \A k \in DOMAIN p.kids : p.kids[k].type # outer}

(* A pass that changes nothing has found nothing to distribute.            *)
LEMMA OrsDistributed ==
  ASSUME NEW f0 \in Records, distributeOrs[f0] = f0
  PROVE  Parts[f0] \subseteq Apart("Or", "And")
<1> DEFINE T == {f \in Records : distributeOrs[f] = f => Parts[f] \subseteq Apart("Or", "And")}
<1>1. ASSUME NEW f \in Records, \A i \in DOMAIN f.kids : f.kids[i] \in T
      PROVE  f \in T
  <2> SUFFICES ASSUME distributeOrs[f] = f PROVE Parts[f] \subseteq Apart("Or", "And")
    OBVIOUS
  <2> DEFINE g == Lift(f, "Or", "And", "Or")
  <2>1. f = OnBranches(distributeOrs, g)
    BY DistributeOrsDef DEF DistributeOrsBody
  <2>2. /\ g = Semantic(g.type, g.name, g.kids)
        /\ g = f \/ (f.type = "Or" /\ g.type = "And")
        /\ f.type = "Or" /\ (f.kids[1].type = "And" \/ f.kids[2].type = "And")
             => g.type = "And"
    <3>1. f = Semantic(f.type, f.name, f.kids)
      BY Kids
    <3> QED BY <3>1, LiftOrCases DEF Join, Semantic
  <2> HIDE DEF g
  <2>3. g.type = f.type
    BY <2>1, <2>2, BranchFacts
  <2>4. g = f
    BY <2>2, <2>3
  <2>5. f \in Apart("Or", "And")
    <3> SUFFICES ASSUME f.type = "Or", NEW k \in DOMAIN f.kids PROVE f.kids[k].type # "And"
      BY DEF Apart
    <3>1. k \in {1, 2}
      BY Operands DEF Binary
    <3> QED BY <2>2, <2>3, <3>1
  <2>6. CASE f.type \notin Branching
    <3>1. f.type \notin Logical
      BY <2>6, NotBranching
    <3>2. \A p \in Parts[f] : p = f \/ (p \in Records /\ p.type \in TermTypes)
      BY <3>1, TermParts
    <3> QED BY <2>5, <3>2 DEF Apart, TermTypes
  <2>7. CASE f.type \in Branching
    <3>1. \A i \in DOMAIN f.kids : f.kids[i] = distributeOrs[f.kids[i]]
      BY <2>1, <2>2, <2>4, <2>7, BranchFacts
    <3>2. \A i \in DOMAIN f.kids : Parts[f.kids[i]] \subseteq Apart("Or", "And")
      BY <1>1, <3>1
    <3> QED BY <2>5, <3>2, PartsWithin
  <2> QED BY <2>6, <2>7
<1> HIDE DEF T
<1>2. Records \subseteq T
  BY <1>1, RecordInduction
<1> QED BY <1>2 DEF T
(* The same of the distribution over Or, whose halves are made with Or.    *)
LEMMA LiftedAndParts ==
  ASSUME NEW n \in Nat, NEW f \in Records, Parts[f] \subseteq NoQuantifier(n)
  PROVE  LET g == Lift(f, "And", "Or", "Or")
         IN /\ g = Semantic(g.type, g.name, g.kids) /\ g.name[2] \in 0 .. n
            /\ g = f \/ (f.type = "And" /\ g.type = "Or")
            /\ \A i \in DOMAIN g.kids : Parts[g.kids[i]] \subseteq NoQuantifier(n)
<1> DEFINE g == Lift(f, "And", "Or", "Or")
           x == f.kids[1]
           y == f.kids[2]
           z == Join("Or", x.kids[1], y)
           Free(k) == Parts[k] \subseteq NoQuantifier(n)
           Halves(a, b, c, d) == Join("Or", Join("Or", a, b), Join("Or", c, d))
           Goal == /\ g = Semantic(g.type, g.name, g.kids) /\ g.name[2] \in 0 .. n
                   /\ f.type = "And" /\ g.type = "Or"
                   /\ \A i \in DOMAIN g.kids : Parts[g.kids[i]] \subseteq NoQuantifier(n)
<1>1. /\ f \in NoQuantifier(n) /\ f = Semantic(f.type, f.name, f.kids)
      /\ \A i \in DOMAIN f.kids : Parts[f.kids[i]] \subseteq NoQuantifier(n)
  BY PartsWithin, Kids
<1>2. f.name[2] \in 0 .. n
  BY <1>1 DEF NoQuantifier, AtomsNegated, NoConditional, Named
<1>3. CASE f.type # "And" \/ (x.type # "Or" /\ y.type # "Or")
  <2>1. g = f
    BY <1>3, LiftAndCases
  <2> QED BY <1>1, <1>2, <2>1
<1>0. ASSUME NEW a, NEW b, NEW c, NEW d, g = Halves(a, b, c, d)
      PROVE  /\ g.type = "Or" /\ g.name = NoName
             /\ g.kids = <<Join("Or", a, b), Join("Or", c, d)>>
             /\ g = Semantic(g.type, g.name, g.kids)
             /\ Join("Or", a, b) \in Records /\ Join("Or", c, d) \in Records
  <2> DEFINE l == Join("Or", a, b)
             r == Join("Or", c, d)
  <2> HIDE DEF g
  <2>1. /\ g.type = "Or" /\ g.name = NoName /\ g.kids = <<l, r>>
        /\ g = Semantic(g.type, g.name, g.kids)
    BY <1>0 DEF Join, Semantic
  <2>2. \A i \in DOMAIN g.kids : g.kids[i] \in Records
    BY LiftedAndKids DEF g
  <2> QED BY <2>1, <2>2
<1>4. ASSUME NEW a, NEW b, NEW c, NEW d, f.type = "And", g = Halves(a, b, c, d),
             Free(a), Free(b), Free(c), Free(d)
      PROVE  Goal
  <2> DEFINE l == Join("Or", a, b)
             r == Join("Or", c, d)
  <2>1. /\ g.type = "Or" /\ g.name = NoName /\ g.kids = <<l, r>>
        /\ g = Semantic(g.type, g.name, g.kids) /\ l \in Records /\ r \in Records
    BY <1>0, <1>4
  <2>2. Parts[l] \subseteq NoQuantifier(n) /\ Parts[r] \subseteq NoQuantifier(n)
    BY <1>4, <2>1, OrParts
  <2> HIDE DEF g
  <2> QED BY <1>4, <2>1, <2>2, NoNumber
<1>5. ASSUME f.type = "And"
      PROVE  x \in Records /\ y \in Records /\ Free(x) /\ Free(y)
  BY <1>1, <1>5, Operands DEF Binary
<1>6. ASSUME NEW p \in Records, p.type = "Or", Free(p)
      PROVE  Free(p.kids[1]) /\ Free(p.kids[2])
  <2>1. 1 \in DOMAIN p.kids /\ 2 \in DOMAIN p.kids
    BY <1>6, Operands DEF Binary
  <2> QED BY <1>6, <2>1, PartsWithin
<1>7. CASE f.type = "And" /\ x.type = "Or"
  <2>1. g = Halves(z, x.kids[2], z, y)
    BY <1>7, LiftAndCases
  <2>2. Free(x.kids[1]) /\ Free(x.kids[2]) /\ Free(y)
    BY <1>5, <1>6, <1>7
  <2>3. Join("Or", z, y) \in Records
    BY <1>0, <2>1
  <2>4. z \in Records
    BY <2>3, JoinParts
  <2>5. Free(z)
    BY <2>2, <2>4, OrParts
  <2> HIDE DEF g, Halves, Free, Goal, z
  <2>6. Goal
    BY <1>4, <1>7, <2>1, <2>2, <2>5
  <2> QED BY <2>6 DEF Goal, g
<1>8. CASE f.type = "And" /\ x.type # "Or" /\ y.type = "Or"
  <2>1. g = Halves(x, y.kids[1], x, y.kids[2])
    BY <1>8, LiftAndCases
  <2>2. Free(x) /\ Free(y.kids[1]) /\ Free(y.kids[2])
    BY <1>5, <1>6, <1>8
  <2> HIDE DEF g, Halves, Free, Goal
  <2>4. Goal
    BY <1>4, <1>8, <2>1, <2>2
  <2> QED BY <2>4 DEF Goal, g
<1> QED BY <1>3, <1>7, <1>8

(* distributeAnds looks at conjunctions only.                              *)
LEMMA AndsKeepType ==
  \A f \in Records : f.type # "And" =>
    /\ distributeAnds[f].type = f.type
    /\ distributeAnds[f] = OnBranches(distributeAnds, f)
<1> SUFFICES ASSUME NEW f \in Records, f.type # "And"
             PROVE  /\ distributeAnds[f].type = f.type
                    /\ distributeAnds[f] = OnBranches(distributeAnds, f)
  OBVIOUS
<1>1. Lift(f, "And", "Or", "Or") = f
  BY LiftAndCases
<1>2. distributeAnds[f] = OnBranches(distributeAnds, f)
  BY <1>1, DistributeAndsDef DEF DistributeAndsBody
<1> QED BY <1>2, BranchFacts, Kids

(* distributeAnds makes no quantifier, no conditional, and no negation of  *)
(* anything but an atom.                                                   *)
LEMMA AndsKept ==
  ASSUME NEW n \in Nat, NEW f0 \in Records, Parts[f0] \subseteq NoQuantifier(n),
         distributeAnds[f0] \in Records
  PROVE  Parts[distributeAnds[f0]] \subseteq NoQuantifier(n)
<1> DEFINE T == {f \in Records :
                   Parts[f] \subseteq NoQuantifier(n) /\ distributeAnds[f] \in Records
                     => Parts[distributeAnds[f]] \subseteq NoQuantifier(n)}
<1>1. ASSUME NEW f \in Records,
             \A y \in Records : Height(y) < Height(f) => y \in T
      PROVE  f \in T
  <2> DEFINE g == Lift(f, "And", "Or", "Or")
             r == distributeAnds[f]
  <2> SUFFICES ASSUME Parts[f] \subseteq NoQuantifier(n), r \in Records
               PROVE  Parts[r] \subseteq NoQuantifier(n)
    OBVIOUS
  <2>1. r = OnBranches(distributeAnds, g)
    BY DistributeAndsDef DEF DistributeAndsBody
  <2>2. /\ g = Semantic(g.type, g.name, g.kids) /\ g.name[2] \in 0 .. n
        /\ g = f \/ (f.type = "And" /\ g.type = "Or")
        /\ \A i \in DOMAIN g.kids : Parts[g.kids[i]] \subseteq NoQuantifier(n)
    BY LiftedAndParts
  <2>3. \A i \in DOMAIN g.kids : g.kids[i] \in T
    BY <1>1, LiftedAndKids
  <2>4. f \in NoQuantifier(n)
    BY PartsWithin
  <2> HIDE DEF g, r
  <2>5. /\ r.type = g.type /\ r.name = g.name /\ DOMAIN r.kids = DOMAIN g.kids
        /\ g.type \notin Branching => r = g
        /\ g.type \in Branching =>
             \A i \in DOMAIN g.kids : r.kids[i] = distributeAnds[g.kids[i]]
    BY <2>1, <2>2, BranchFacts
  <2>6. CASE f.type \notin Branching
    <3>1. r = f
      BY <2>2, <2>5, <2>6 DEF Branching, Binary
    <3> QED BY <3>1
  <2>7. CASE f.type \in Branching
    <3>1. g.type \in Branching
      BY <2>2, <2>7 DEF Branching, Binary
    <3>2. \A i \in DOMAIN r.kids : Parts[r.kids[i]] \subseteq NoQuantifier(n)
      <4> SUFFICES ASSUME NEW i \in DOMAIN r.kids
                   PROVE  Parts[r.kids[i]] \subseteq NoQuantifier(n)
        OBVIOUS
      <4>1. r.kids[i] = distributeAnds[g.kids[i]] /\ r.kids[i] \in Records
        BY <2>5, <3>1, Kids
      <4> QED BY <2>2, <2>3, <2>5, <2>7, <4>1
    <3>3. r.type = "Negation" => r.kids[1].type \notin Pushable
      <4> SUFFICES ASSUME r.type = "Negation" PROVE r.kids[1].type \notin Pushable
        OBVIOUS
      <4>1. g = f /\ f.type = "Negation"
        BY <2>2, <2>5
      <4>2. f.kids[1] \in Records /\ 1 \in DOMAIN f.kids
        BY <4>1, Operands
      <4>3. f.kids[1].type \notin Pushable
        BY <2>4, <4>1 DEF NoQuantifier, AtomsNegated
      <4>4. r.kids[1] = distributeAnds[f.kids[1]]
        BY <2>5, <3>1, <4>1, <4>2
      <4>5. f.kids[1].type # "And"
        BY <4>3 DEF Pushable
      <4> QED BY <4>2, <4>3, <4>4, <4>5, AndsKeepType
    <3>4. r \in NoQuantifier(n)
      BY <2>2, <2>4, <2>5, <3>3
         DEF NoQuantifier, AtomsNegated, NoConditional, Named, Quantifiers
    <3> QED BY <3>2, <3>4, PartsWithin
  <2> QED BY <2>6, <2>7
<1> HIDE DEF T
<1>2. Records \subseteq T
  BY <1>1, HeightInduction
<1> QED BY <1>2 DEF T

(* When distributeAnds changes nothing, no Or is below an And.             *)
LEMMA AndsDistributed ==
  ASSUME NEW f0 \in Records, distributeAnds[f0] = f0
  PROVE  Parts[f0] \subseteq Apart("And", "Or")
<1> DEFINE T == {f \in Records : distributeAnds[f] = f => Parts[f] \subseteq Apart("And", "Or")}
<1>1. ASSUME NEW f \in Records, \A i \in DOMAIN f.kids : f.kids[i] \in T
      PROVE  f \in T
  <2> SUFFICES ASSUME distributeAnds[f] = f PROVE Parts[f] \subseteq Apart("And", "Or")
    OBVIOUS
  <2> DEFINE g == Lift(f, "And", "Or", "Or")
  <2>1. f = OnBranches(distributeAnds, g)
    BY DistributeAndsDef DEF DistributeAndsBody
  <2>2. /\ g = Semantic(g.type, g.name, g.kids)
        /\ g = f \/ (f.type = "And" /\ g.type = "Or")
        /\ f.type = "And" /\ (f.kids[1].type = "Or" \/ f.kids[2].type = "Or")
             => g.type = "Or"
    <3>1. f = Semantic(f.type, f.name, f.kids)
      BY Kids
    <3> QED BY <3>1, LiftAndCases DEF Join, Semantic
  <2> HIDE DEF g
  <2>3. g.type = f.type
    BY <2>1, <2>2, BranchFacts
  <2>4. g = f
    BY <2>2, <2>3
  <2>5. f \in Apart("And", "Or")
    <3> SUFFICES ASSUME f.type = "And", NEW k \in DOMAIN f.kids PROVE f.kids[k].type # "Or"
      BY DEF Apart
    <3>1. k \in {1, 2}
      BY Operands DEF Binary
    <3> QED BY <2>2, <2>3, <3>1
  <2>6. CASE f.type \notin Branching
    <3>1. f.type \notin Logical
      BY <2>6, NotBranching
    <3>2. \A p \in Parts[f] : p = f \/ (p \in Records /\ p.type \in TermTypes)
      BY <3>1, TermParts
    <3> QED BY <2>5, <3>2 DEF Apart, TermTypes
  <2>7. CASE f.type \in Branching
    <3>1. \A i \in DOMAIN f.kids : f.kids[i] = distributeAnds[f.kids[i]]
      BY <2>1, <2>2, <2>4, <2>7, BranchFacts
    <3>2. \A i \in DOMAIN f.kids : Parts[f.kids[i]] \subseteq Apart("And", "Or")
      BY <1>1, <3>1
    <3> QED BY <2>5, <3>2, PartsWithin
  <2> QED BY <2>6, <2>7
<1> HIDE DEF T
<1>2. Records \subseteq T
  BY <1>1, RecordInduction
<1> QED BY <1>2 DEF T
-----------------------------------------------------------------------------
(* The inductive invariant: what the calls before the next one have made   *)
(* of the copy, and that the entries that are done are in normal form.  No *)
(* name has a number that uniqueName has still to give.                    *)
Reached(c, n) ==
  CASE c = "removeBiconditionals" -> Named(n)
    [] c = "removeConditionals" -> NoBiconditional(n)
    [] c = "demorgans" -> NoConditional(n)
    [] c = "renameVariables" -> AtomsNegated(n)
    [] c = "skolemize" -> AtomsNegated(n)
    [] c = "removeUniversals" -> NoExistential(n)
    [] c = "distribution" -> NoQuantifier(n)

CallNames == {"removeBiconditionals", "removeConditionals", "demorgans",
              "renameVariables", "skolemize", "removeUniversals",
              "distribution"}

ProgramRead == program.list \in Seq(Written) /\ counter \in Nat

NormalMade ==
  /\ "list" \in DOMAIN normal /\ normal.list \in Seq(Entries)
  /\ Len(normal.list) <= Len(program.list)
  /\ phase \notin {"normal", "clauses", "aborted"} => normal.list = <<>>
  /\ phase = "normal" => form \in {"CNF", "DNF"}

EntriesDone ==
  \A i \in DOMAIN normal.list : /\ IsNormal(normal.list[i].f)
                                /\ Parts[normal.list[i].f] \subseteq Named(counter)

CopyReached ==
  Working => /\ call \in CallNames /\ cur \in Records
             /\ Parts[cur] \subseteq Reached(call, counter)
             /\ call = "skolemize" => BindersApart

FormInv == ProgramRead /\ NormalMade /\ EntriesDone /\ CopyReached

(* The order of the calls.                                                 *)
LEMMA AfterCalls ==
  /\ After("removeBiconditionals") = "removeConditionals"
  /\ After("removeConditionals") = "demorgans"
  /\ After("demorgans") = "renameVariables"
  /\ After("renameVariables") = "skolemize"
  /\ After("skolemize") = "removeUniversals"
  /\ After("removeUniversals") = "distribution"
  /\ Calls[1] = "removeBiconditionals"
<1>1. ASSUME NEW k \in 1 .. 6 PROVE After(Calls[k]) = Calls[k + 1]
  <2> DEFINE i0 == CHOOSE i \in DOMAIN Calls : Calls[i] = Calls[k]
  <2>1. i0 = k
    <3>1. k \in DOMAIN Calls /\ \A i \in DOMAIN Calls : Calls[i] = Calls[k] => i = k
      BY DEF Calls
    <3> QED BY <3>1
  <2>2. Len(Calls) = 7
    BY DEF Calls
  <2>3. After(Calls[k]) = IF i0 = Len(Calls) THEN Calls[1] ELSE Calls[i0 + 1]
    BY DEF After
  <2> HIDE DEF i0
  <2> QED BY <2>1, <2>2, <2>3
<1>2. /\ After(Calls[1]) = Calls[2] /\ After(Calls[2]) = Calls[3]
      /\ After(Calls[3]) = Calls[4] /\ After(Calls[4]) = Calls[5]
      /\ After(Calls[5]) = Calls[6] /\ After(Calls[6]) = Calls[7]
  <2>1. 1 \in 1 .. 6 /\ 2 \in 1 .. 6 /\ 3 \in 1 .. 6 /\ 4 \in 1 .. 6 /\ 5 \in 1 .. 6
        /\ 6 \in 1 .. 6
    OBVIOUS
  <2>2. 1 + 1 = 2 /\ 2 + 1 = 3 /\ 3 + 1 = 4 /\ 4 + 1 = 5 /\ 5 + 1 = 6 /\ 6 + 1 = 7
    OBVIOUS
  <2>3. \A k \in 1 .. 6 : After(Calls[k]) = Calls[k + 1]
    BY <1>1
  <2> HIDE DEF Calls, After
  <2> QED BY <2>1, <2>2, <2>3
<1> QED BY <1>2 DEF Calls

(* The copy of an entry has the names of the program only.                 *)
LEMMA CopyIsNamed ==
  ASSUME program.list \in Seq(Written), NEW k \in Nat, k < Len(program.list),
         NEW n \in Nat
  PROVE  Copy(k) \in Records /\ Parts[Copy(k)] \subseteq Named(n)
<1> DEFINE e == program.list[k + 1]
<1>1. e \in Written /\ Copy(k) = e.f
  BY DEF Copy
<1>2. e.f \in Records /\ \A name \in Names(e.f) : name[2] = 0
  BY <1>1 DEF Written, Entries
<1>3. \A p \in Parts[e.f] : p \in Records /\ p.name[2] = 0
  BY <1>2, PartsAreRecords DEF Names
<1> QED BY <1>1, <1>2, <1>3 DEF Named

(* insert appends to the list.                                             *)
LEMMA InsertAppends ==
  ASSUME NEW p, NEW e, "list" \in DOMAIN p
  PROVE  /\ "list" \in DOMAIN insert(p, e)
         /\ insert(p, e).list = Append(p.list, e)
<1> DEFINE q == [p EXCEPT !.list = Append(@, e)]
<1>1. DOMAIN q = DOMAIN p /\ q.list = Append(p.list, e)
  OBVIOUS
<1>2. \/ insert(p, e) = q
      \/ insert(p, e) = [q EXCEPT !.options = @ @@ (e.f.name :> e)]
      \/ insert(p, e) = [q EXCEPT !.goals = Append(@, e)]
      \/ insert(p, e) = [q EXCEPT !.queries = Append(@, e)]
  BY DEF insert
<1> HIDE DEF q
<1> QED BY <1>1, <1>2

(* Every number that a call of uniqueName leaves behind is one it may use. *)
LEMMA NamedGrows ==
  ASSUME NEW a \in Nat, NEW b \in Nat, a <= b
  PROVE  Named(a) \subseteq Named(b)
  BY DEF Named

(* A call that makes of the copy what the next call expects.               *)
LEMMA CallKeeps ==
  ASSUME FormInv, Working, NEW f \in Records, NEW n \in Nat, counter <= n,
         cur' = f, counter' = n, UNCHANGED <<phase, program, form, normal>>,
         call' \in CallNames, Parts[f] \subseteq Reached(call', n),
         call' = "skolemize" => BindersApart'
  PROVE  FormInv'
<1>1. ProgramRead' /\ NormalMade'
  BY DEF FormInv, ProgramRead, NormalMade
<1>2. EntriesDone'
  <2>1. Named(counter) \subseteq Named(n)
    BY NamedGrows DEF FormInv, ProgramRead
  <2> SUFFICES ASSUME NEW i \in DOMAIN normal.list
               PROVE  /\ IsNormal(normal.list[i].f)'
                      /\ Parts[normal.list[i].f] \subseteq Named(n)
    BY DEF EntriesDone
  <2>2. IsNormal(normal.list[i].f) /\ Parts[normal.list[i].f] \subseteq Named(counter)
    BY DEF FormInv, EntriesDone
  <2> QED BY <2>1, <2>2 DEF IsNormal, Inner, Outer
<1>3. CopyReached'
  BY DEF CopyReached
<1> QED BY <1>1, <1>2, <1>3 DEF FormInv
(* What is inserted is in normal form when a pass has changed nothing.     *)
LEMMA PassedIsNormal ==
  ASSUME NEW f \in Records, NEW n \in Nat, Parts[f] \subseteq NoQuantifier(n),
         form \in {"CNF", "DNF"},
         (IF form = "CNF" THEN distributeOrs[f] ELSE distributeAnds[f]) = f
  PROVE  IsNormal(f) /\ Parts[f] \subseteq Named(n)
<1>1. Parts[f] \subseteq Apart(Inner, Outer)
  <2>1. CASE form = "CNF"
    BY <2>1, OrsDistributed DEF Inner, Outer
  <2>2. CASE form = "DNF"
    BY <2>2, AndsDistributed DEF Inner, Outer
  <2> QED BY <2>1, <2>2
<1>2. ASSUME NEW p \in Parts[f]
      PROVE  /\ p.type \notin Quantifiers \cup {"Conditional", "Biconditional"}
             /\ p.type = "Negation" =>
                  p.kids[1].type \notin {"And", "Or", "Negation"}
             /\ p.type = Inner => \A k \in DOMAIN p.kids : p.kids[k].type # Outer
             /\ p \in Named(n)
  BY <1>1, <1>2 DEF Apart, NoQuantifier, AtomsNegated, NoConditional, Pushable
<1> QED BY <1>2 DEF IsNormal

(* The beginning, and the steps that make no call.                         *)
LEMMA FormInvBegins == FormInit => FormInv
<1> SUFFICES ASSUME FormInit PROVE FormInv
  OBVIOUS
<1>1. /\ program.list = <<>> /\ normal.list = <<>> /\ "list" \in DOMAIN normal
      /\ counter = 0 /\ phase = "idle"
  BY DEF FormInit, EmptyProgram
<1>2. ~ Working
  BY <1>1 DEF Working
<1> QED BY <1>1, <1>2
       DEF FormInv, ProgramRead, NormalMade, EntriesDone, CopyReached

(* Reading another program keeps the invariant: nothing is being made.     *)
LEMMA ReadKeeps == FormInv /\ Read => FormInv'
<1> SUFFICES ASSUME FormInv, Read PROVE FormInv'
  OBVIOUS
<1>1. /\ phase \notin {"normal", "clauses", "aborted"}
      /\ phase' \notin {"normal", "clauses", "aborted"}
      /\ program'.list \in Seq(Written) /\ normal' = normal /\ counter' = counter
  BY DEF Read, making
<1>2. normal.list = <<>> /\ ~ Working'
  BY <1>1 DEF FormInv, NormalMade, Working
<1>3. Len(program'.list) \in Nat
  BY <1>1
<1> QED BY <1>1, <1>2, <1>3
       DEF FormInv, ProgramRead, NormalMade, EntriesDone, CopyReached

(* So does a constructor that starts on a program.                         *)
LEMMA StartNormalKeeps ==
  ASSUME FormInv, NEW nf \in {"CNF", "DNF"}, StartNormal(nf)
  PROVE  FormInv'
<1>1. /\ "list" \in DOMAIN normal' /\ normal'.list = <<>>
  BY DEF StartNormal, EmptyProgram
<1>2. Len(program.list) \in Nat
  BY DEF FormInv, ProgramRead
<1>3. ASSUME Working'
      PROVE  /\ call' \in CallNames /\ cur' \in Records
             /\ Parts[cur'] \subseteq Reached(call', counter') /\ call' # "skolemize"
  <2>1. 0 < Len(program.list)
    BY <1>1, <1>2, <1>3 DEF Working, StartNormal
  <2>2. /\ cur' = Copy(0) /\ call' = "removeBiconditionals" /\ counter' = counter
    BY AfterCalls DEF StartNormal
  <2> QED BY <2>1, <2>2, CopyIsNamed DEF FormInv, ProgramRead, CallNames, Reached
<1>4. CopyReached'
  BY <1>3 DEF CopyReached
<1>5. ProgramRead' /\ NormalMade' /\ EntriesDone'
  BY <1>1, <1>2 DEF StartNormal, FormInv, ProgramRead, NormalMade, EntriesDone
<1> QED BY <1>4, <1>5 DEF FormInv

(* So does the insertion of an entry, for its copy has passed all calls.   *)
LEMMA InsertNormalKeeps == FormInv /\ InsertNormal => FormInv'
<1> SUFFICES ASSUME FormInv, InsertNormal PROVE FormInv'
  OBVIOUS
<1> DEFINE k == Len(normal.list)
           e == [program.list[k + 1] EXCEPT !.f = cur]
<1>1. /\ Working /\ call = "distribution" /\ Pass = cur
      /\ normal' = insert(normal, e) /\ cur' = Copy(Len(normal'.list))
      /\ call' = Calls[1] /\ UNCHANGED <<phase, program, form, counter>>
  BY DEF InsertNormal
<1>2. /\ "list" \in DOMAIN normal /\ normal.list \in Seq(Entries) /\ k \in Nat
      /\ phase = "normal" /\ form \in {"CNF", "DNF"}
      /\ program.list \in Seq(Written) /\ Len(program.list) \in Nat
      /\ k < Len(program.list) /\ counter \in Nat
  BY <1>1 DEF FormInv, ProgramRead, NormalMade, Working
<1>3. cur \in Records /\ Parts[cur] \subseteq NoQuantifier(counter)
  BY <1>1 DEF FormInv, CopyReached, Reached
<1>4. IsNormal(cur) /\ Parts[cur] \subseteq Named(counter)
  BY <1>1, <1>2, <1>3, PassedIsNormal DEF Pass
<1>5. e \in Entries /\ e.f = cur
  <2>1. program.list[k + 1] \in Entries
    BY <1>2 DEF Written
  <2> QED BY <1>3, <2>1 DEF Entries
<1> HIDE DEF e
<1>6. /\ "list" \in DOMAIN normal' /\ normal'.list = Append(normal.list, e)
  BY <1>1, <1>2, InsertAppends
<1>7. /\ normal'.list \in Seq(Entries) /\ Len(normal'.list) = k + 1
      /\ DOMAIN normal'.list = 1 .. k + 1
      /\ \A i \in 1 .. k : normal'.list[i] = normal.list[i]
      /\ normal'.list[k + 1] = e
  BY <1>2, <1>5, <1>6
<1>8. ProgramRead' /\ NormalMade'
  BY <1>1, <1>2, <1>6, <1>7 DEF ProgramRead, NormalMade
<1>9. EntriesDone'
  <2> SUFFICES ASSUME NEW i \in 1 .. k + 1
               PROVE  /\ IsNormal(normal'.list[i].f)
                      /\ Parts[normal'.list[i].f] \subseteq Named(counter)
    BY <1>1, <1>7 DEF EntriesDone, IsNormal, Inner, Outer
  <2>1. CASE i = k + 1
    BY <1>4, <1>5, <1>7, <2>1
  <2>2. CASE i \in 1 .. k
    <3>1. i \in DOMAIN normal.list /\ normal'.list[i] = normal.list[i]
      BY <1>2, <1>7, <2>2
    <3> QED BY <3>1 DEF FormInv, EntriesDone
  <2> QED BY <1>2, <2>1, <2>2
<1>10. CopyReached'
  <2> SUFFICES ASSUME Working'
               PROVE  /\ call' \in CallNames /\ cur' \in Records
                      /\ Parts[cur'] \subseteq Reached(call', counter)
                      /\ call' # "skolemize"
    BY <1>1 DEF CopyReached
  <2>1. k + 1 < Len(program.list)
    BY <1>1, <1>7 DEF Working
  <2>2. /\ cur' = Copy(k + 1) /\ call' = "removeBiconditionals"
    BY <1>1, <1>7, AfterCalls
  <2> QED BY <1>2, <2>1, <2>2, CopyIsNamed DEF CallNames, Reached
<1> QED BY <1>8, <1>9, <1>10 DEF FormInv
-----------------------------------------------------------------------------
(* renameAgain: every variable gets a number after lo.                     *)
Tables(lo) ==
  {data \in NamesData :
     /\ lo <= data.counter
     /\ \A i \in DOMAIN data.names : data.names[i][2][2] \in lo + 1 .. data.counter}

Fresh(lo, hi) == {p \in Records : p.type = "Variable" => p.name[2] \in lo + 1 .. hi}

RenamedAgain(f, data, r, lo) ==
  /\ r.data \in Tables(lo) /\ data.counter <= r.data.counter
  /\ r.f \in Records /\ Height(r.f) <= Height(f) /\ r.f.type = f.type
  /\ Parts[r.f] \subseteq Fresh(lo, r.data.counter)

(* renameAll does well on the kids of f.                                   *)
RenamesKids(f, lo) ==
  \A i \in DOMAIN f.kids : \A x \in Tables(lo) :
    RenamedAgain(f.kids[i], x, renameAll[f.kids[i]][x][<<>>], lo)

(* More numbers, more names.                                               *)
LEMMA FreshGrows ==
  ASSUME NEW lo \in Nat, NEW a \in Nat, NEW b \in Nat, a <= b
  PROVE  Fresh(lo, a) \subseteq Fresh(lo, b)
  BY DEF Fresh

(* A traversal of what is no variable.                                     *)
LEMMA RenameKids ==
  ASSUME NEW lo \in Nat, NEW f \in Records, f.type # "Variable",
         NEW data \in Tables(lo), RenamesKids(f, lo)
  PROVE  RenamedAgain(f, data, Traverse(renameAll, f, data, <<>>), lo)
<1> DEFINE r == Traverse(renameAll, f, data, <<>>)
           L == Len(f.kids)
<1>1. L \in Nat /\ DOMAIN f.kids = 1 .. L /\ f = Semantic(f.type, f.name, f.kids)
  BY Kids
<1>2. PICK d : Travels(r, d, renameAll, f, data, <<>>)
  BY <1>1, TraverseTravels
<1> HIDE DEF r
<1>3. \A x \in Tables(lo) : x.counter \in Nat
  BY DEF Tables, NamesData
<1> DEFINE D == {x \in Tables(lo) : data.counter <= x.counter}
<1>4. \A i \in 0 .. L : d[i] \in D
  <2>1. data \in D
    BY <1>3
  <2>2. \A i \in 1 .. L : \A x \in D : renameAll[f.kids[i]][x][<<>>].data \in D
    <3> SUFFICES ASSUME NEW i \in 1 .. L, NEW x \in D
                 PROVE  renameAll[f.kids[i]][x][<<>>].data \in D
      OBVIOUS
    <3>1. RenamedAgain(f.kids[i], x, renameAll[f.kids[i]][x][<<>>], lo)
      BY <1>1 DEF RenamesKids
    <3> QED BY <1>3, <3>1 DEF RenamedAgain
  <2> HIDE DEF D
  <2> QED BY <1>1, <1>2, <2>1, <2>2, ThreadWithin DEF Travels
<1>5. ASSUME NEW i \in 1 .. L
      PROVE  /\ i - 1 \in 0 .. L /\ i \in 0 .. L
             /\ RenamedAgain(f.kids[i], d[i - 1],
                             renameAll[f.kids[i]][d[i - 1]][<<>>], lo)
             /\ d[i] = renameAll[f.kids[i]][d[i - 1]][<<>>].data
             /\ r.f.kids[i] = renameAll[f.kids[i]][d[i - 1]][<<>>].f
  <2>1. i - 1 \in 0 .. L /\ i \in 0 .. L
    BY <1>1
  <2>2. d[i - 1] \in Tables(lo)
    BY <1>4, <2>1
  <2>3. RenamedAgain(f.kids[i], d[i - 1], renameAll[f.kids[i]][d[i - 1]][<<>>], lo)
    BY <1>1, <2>2 DEF RenamesKids
  <2>4. d[i] = renameAll[f.kids[i]][d[i - 1]][<<>>].data
    BY <1>2 DEF Travels, Threads
  <2>5. r.f.kids[i] = renameAll[f.kids[i]][d[i - 1]][<<>>].f
    BY <1>2 DEF Travels
  <2> QED BY <2>1, <2>3, <2>4, <2>5
<1>6. \A i \in 0 .. L :
        d[i] \in Tables(lo) /\ d[i].counter \in Nat /\ data.counter <= d[i].counter
  BY <1>3, <1>4
<1>7. \A i, j \in 0 .. L : i <= j => d[i].counter <= d[j].counter
  <2> DEFINE c == [i \in 0 .. L |-> d[i].counter]
  <2>1. \A i \in 0 .. L : c[i] \in Nat /\ c[i] = d[i].counter
    BY <1>6
  <2>2. \A i \in 1 .. L : c[i - 1] <= c[i]
    BY <1>5, <2>1 DEF RenamedAgain
  <2> HIDE DEF c
  <2>3. \A i, j \in 0 .. L : i <= j => c[i] <= c[j]
    BY <1>1, <2>1, <2>2, NeverFalls
  <2> QED BY <2>1, <2>3
<1>8. /\ r.data = d[L] /\ r.f.type = f.type /\ r.f.name = f.name
      /\ DOMAIN r.f.kids = 1 .. L /\ r.f = Semantic(f.type, f.name, r.f.kids)
  BY <1>2 DEF Travels
<1>9. r.data \in Tables(lo) /\ data.counter <= r.data.counter /\ r.data.counter \in Nat
  BY <1>1, <1>6, <1>8
<1> DEFINE new == r.f.kids
<1>10. ASSUME NEW i \in 1 .. L
       PROVE  /\ new[i] \in Records /\ Height(new[i]) <= Height(f.kids[i])
              /\ new[i].type = f.kids[i].type
              /\ Parts[new[i]] \subseteq Fresh(lo, r.data.counter)
  <2>1. /\ new[i] \in Records /\ Height(new[i]) <= Height(f.kids[i])
        /\ new[i].type = f.kids[i].type
        /\ Parts[new[i]] \subseteq Fresh(lo, d[i].counter)
    BY <1>5 DEF RenamedAgain
  <2>2. i \in 0 .. L /\ L \in 0 .. L /\ i <= L
    BY <1>1
  <2>3. /\ d[i].counter \in Nat /\ d[L].counter \in Nat
        /\ d[i].counter <= d[L].counter
    BY <1>6, <1>7, <2>2
  <2> QED BY <1>8, <2>1, <2>3, FreshGrows
<1>11. new \in Seq(Records) /\ Len(new) = L
  <2>1. new = [i \in 1 .. L |-> new[i]]
    BY <1>2 DEF Travels
  <2> HIDE DEF new
  <2>2. \A i \in 1 .. L : new[i] \in Records
    BY <1>10
  <2> QED BY <1>1, <2>1, <2>2
<1>12. r.f \in Shape(Records)
  <2>1. f.type \in RecordTypes /\ f.name \in AnyName /\ Shaped(f) /\ f.kids \in Seq(Records)
    BY Kids
  <2>2. r.f \in [type : RecordTypes, name : AnyName, kids : Seq(Records)]
    BY <1>8, <1>11, <2>1 DEF Semantic
  <2>3. Shaped(r.f)
    <3>1. f.type \in TermTypes \ {"Function"} => new = <<>>
      BY <1>1, <1>11, <2>1 DEF Shaped
    <3> QED BY <1>1, <1>8, <1>10, <1>11, <2>1, <3>1 DEF Shaped
  <2> QED BY <2>2, <2>3 DEF Shape
<1>13. r.f \in Records /\ Height(r.f) <= Height(f)
  <2>1. Height(f) \in 1 .. MaxHeight
    BY RecordFacts
  <2>2. ASSUME NEW i \in 1 .. L
        PROVE  Height(new[i]) + Weight(f.type) <= Height(f)
    <3>1. /\ Height(f.kids[i]) \in 1 .. MaxHeight
          /\ Height(f.kids[i]) + Weight(f.type) <= Height(f)
      BY <1>1, RecordFacts
    <3>2. Height(new[i]) \in 1 .. MaxHeight /\ Height(new[i]) <= Height(f.kids[i])
      BY <1>10, RecordFacts
    <3> QED BY <2>1, <3>1, <3>2, HeightAssumption DEF Weight
  <2>3. \A i \in DOMAIN r.f.kids : Height(r.f.kids[i]) + Weight(r.f.type) <= Height(f)
    BY <1>8, <2>2
  <2>4. r.f \in Records /\ Height(r.f) \in 1 .. Height(f)
    BY <1>12, <2>1, <2>3, RecordIntro
  <2> QED BY <2>1, <2>4, HeightAssumption
<1>14. Parts[r.f] \subseteq Fresh(lo, r.data.counter)
  <2>1. r.f \in Fresh(lo, r.data.counter)
    BY <1>8, <1>13 DEF Fresh
  <2> QED BY <1>8, <1>10, <1>13, <2>1, PartsWithin
<1> QED BY <1>8, <1>9, <1>13, <1>14 DEF RenamedAgain, r
(* A variable gets the new name that it has in the table, or the next one. *)
LEMMA RenameVariable ==
  ASSUME NEW lo \in Nat, NEW f \in Records, f.type = "Variable",
         NEW data \in Tables(lo)
  PROVE  RenamedAgain(f, data, RenameAllBody(renameAll, f)[data][<<>>], lo)
<1> DEFINE r == RenameAllBody(renameAll, f)[data][<<>>]
           new == uniqueName("rvar", data.counter)
<1>1. /\ data \in NamesData /\ lo <= data.counter
      /\ data.counter \in Nat /\ data.names \in Seq(AnyName \X AnyName)
      /\ DOMAIN data.names = 1 .. Len(data.names) /\ Len(data.names) \in Nat
      /\ \A i \in DOMAIN data.names : data.names[i][2][2] \in lo + 1 .. data.counter
  BY DEF Tables, NamesData
<1>2. ASSUME NEW name \in AnyName, NEW hi \in Nat, name[2] \in lo + 1 .. hi
      PROVE  LET e == [f EXCEPT !.name = name]
             IN /\ e \in Records /\ Height(e) <= Height(f) /\ e.type = f.type
                /\ Parts[e] \subseteq Fresh(lo, hi)
  <2> DEFINE e == [f EXCEPT !.name = name]
  <2>1. /\ e = Semantic(f.type, name, f.kids)
        /\ e.type = f.type /\ e.name = name /\ e.kids = f.kids
    BY OtherName
  <2>2. /\ f.type \in RecordTypes /\ f.kids \in Seq(Records) /\ Shaped(f)
        /\ Height(f) \in 1 .. MaxHeight
    BY Kids, RecordFacts
  <2>3. f.kids = <<>> /\ DOMAIN f.kids = {}
    BY <2>2 DEF Shaped, TermTypes
  <2> HIDE DEF e
  <2>4. e \in Shape(Records)
    <3>1. e \in [type : RecordTypes, name : AnyName, kids : Seq(Records)]
      BY <2>1, <2>2 DEF Semantic
    <3>2. Shaped(e)
      BY <2>1, <2>2, <2>3 DEF Shaped
    <3> QED BY <3>1, <3>2 DEF Shape
  <2>5. e \in Records /\ Height(e) \in 1 .. Height(f)
    BY <2>1, <2>2, <2>3, <2>4, RecordIntro
  <2>6. Parts[e] \subseteq Fresh(lo, hi)
    BY <1>2, <2>1, <2>3, <2>5, PartsWithin DEF Fresh
  <2> QED BY <2>1, <2>2, <2>5, <2>6, HeightAssumption DEF e
<1>3. CASE \E i \in DOMAIN data.names : data.names[i][1] = f.name
  <2> DEFINE name == Find(data.names, f.name, f.name)
  <2>1. r = [f |-> [f EXCEPT !.name = name], data |-> data]
    BY <1>1, <1>3 DEF RenameAllBody
  <2>2. PICK i \in DOMAIN data.names : name = data.names[i][2]
    <3> DEFINE pairs == data.names
    <3>1. DOMAIN pairs = 1 .. Len(pairs) /\ Len(pairs) \in Nat
      BY <1>1
    <3>2. \E i \in DOMAIN pairs : pairs[i][1] = f.name
      BY <1>3
    <3>3. name = Find(pairs, f.name, f.name)
      OBVIOUS
    <3> HIDE DEF pairs, name
    <3>4. \E i \in DOMAIN pairs : name = pairs[i][2]
      BY <3>1, <3>2, <3>3, FindFacts
    <3> QED BY <3>4 DEF pairs
  <2>3. name \in AnyName /\ name[2] \in lo + 1 .. data.counter
    BY <1>1, <2>2
  <2> HIDE DEF name, r
  <2>4. /\ r.f \in Records /\ Height(r.f) <= Height(f) /\ r.f.type = f.type
        /\ Parts[r.f] \subseteq Fresh(lo, r.data.counter) /\ r.data = data
    BY <1>1, <1>2, <2>1, <2>3
  <2> QED BY <1>1, <2>4 DEF RenamedAgain, r
<1>4. CASE ~ \E i \in DOMAIN data.names : data.names[i][1] = f.name
  <2> DEFINE pair == <<f.name, new>>
             table == [counter |-> data.counter + 1, names |-> Append(data.names, pair)]
  <2>1. r = [f |-> [f EXCEPT !.name = new], data |-> table]
    BY <1>1, <1>4 DEF RenameAllBody
  <2>2. new[2] = data.counter + 1
    BY DEF uniqueName
  <2>3. new \in AnyName
    <3>1. "rvar" \in UniquePrefixes
      BY DEF UniquePrefixes
    <3> QED BY <1>1, <3>1, UniqueIsName
  <2> HIDE DEF new, r
  <2>4. pair \in AnyName \X AnyName
    BY <2>3, Kids
  <2>5. table \in NamesData /\ table.counter = data.counter + 1
    BY <1>1, <2>4 DEF NamesData
  <2>6. ASSUME NEW i \in DOMAIN table.names
        PROVE  table.names[i][2][2] \in lo + 1 .. data.counter + 1
    <3>1. table.names[i] = pair \/ (i \in DOMAIN data.names /\ table.names[i] = data.names[i])
      BY <1>1
    <3>2. pair[2][2] = data.counter + 1
      BY <2>2
    <3> HIDE DEF pair, table
    <3> QED BY <1>1, <3>1, <3>2
  <2> HIDE DEF pair, table
  <2>7. table \in Tables(lo) /\ data.counter <= table.counter
    BY <1>1, <2>5, <2>6 DEF Tables
  <2>8. new[2] \in lo + 1 .. table.counter /\ table.counter \in Nat
    BY <1>1, <2>2, <2>5
  <2>9. /\ r.f \in Records /\ Height(r.f) <= Height(f) /\ r.f.type = f.type
        /\ Parts[r.f] \subseteq Fresh(lo, r.data.counter) /\ r.data = table
    BY <1>2, <2>1, <2>3, <2>8
  <2> QED BY <2>7, <2>9 DEF RenamedAgain, r
<1> QED BY <1>3, <1>4

(* What renameAgain makes of a record: one of the same height, in which    *)
(* every variable has a number that was not given before.                  *)
LEMMA AllRenamed ==
  ASSUME NEW lo \in Nat, NEW f0 \in Records
  PROVE  \A x \in Tables(lo) : RenamedAgain(f0, x, renameAll[f0][x][<<>>], lo)
<1> DEFINE T == {f \in Records : \A x \in Tables(lo) :
                   RenamedAgain(f, x, renameAll[f][x][<<>>], lo)}
<1>1. ASSUME NEW f \in Records, \A i \in DOMAIN f.kids : f.kids[i] \in T
      PROVE  f \in T
  <2> SUFFICES ASSUME NEW x \in Tables(lo)
               PROVE  RenamedAgain(f, x, renameAll[f][x][<<>>], lo)
    OBVIOUS
  <2>1. renameAll[f] = RenameAllBody(renameAll, f)
    BY RenameAllDef
  <2>2. CASE f.type = "Variable"
    BY <2>1, <2>2, RenameVariable
  <2>3. CASE f.type # "Variable"
    <3>1. x \in NamesData
      BY DEF Tables
    <3>2. renameAll[f][x][<<>>] = Traverse(renameAll, f, x, <<>>)
      BY <2>1, <2>3, <3>1 DEF RenameAllBody
    <3>3. RenamesKids(f, lo)
      BY <1>1 DEF RenamesKids
    <3> QED BY <2>3, <3>2, <3>3, RenameKids
  <2> QED BY <2>2, <2>3
<1> HIDE DEF T
<1>2. Records \subseteq T
  BY <1>1, RecordInduction
<1> QED BY <1>2 DEF T

(* removeAnds splits a record into records that are parts of it.           *)
LEMMA AndsAreParts ==
  ASSUME NEW f0 \in Records
  PROVE  /\ removeAnds[f0] \in Seq(Records)
         /\ \A i \in DOMAIN removeAnds[f0] : Parts[removeAnds[f0][i]] \subseteq Parts[f0]
<1> DEFINE Good(s, f) == /\ s \in Seq(Records)
                         /\ \A i \in DOMAIN s : Parts[s[i]] \subseteq Parts[f]
           T == {f \in Records : Good(removeAnds[f], f)}
<1>1. ASSUME NEW f \in Records, \A i \in DOMAIN f.kids : f.kids[i] \in T
      PROVE  f \in T
  <2>1. CASE f.type # "And"
    <3>1. removeAnds[f] = <<f>>
      BY <2>1, AndsDef DEF AndsBody
    <3>2. Good(<<f>>, f)
      OBVIOUS
    <3> HIDE DEF Good
    <3> QED BY <3>1, <3>2
  <2>2. CASE f.type = "And"
    <3> DEFINE a == f.kids[1]
               b == f.kids[2]
    <3>1. /\ removeAnds[f] = removeAnds[a] \o removeAnds[b]
          /\ 1 \in DOMAIN f.kids /\ 2 \in DOMAIN f.kids
      BY <2>2, AndsDef, Operands DEF AndsBody, Binary
    <3>2. Good(removeAnds[a], a) /\ Good(removeAnds[b], b)
      BY <1>1, <3>1
    <3>3. Parts[a] \subseteq Parts[f] /\ Parts[b] \subseteq Parts[f]
      BY <3>1, PartsDef
    <3> HIDE DEF a, b
    <3>4. Good(removeAnds[a], f) /\ Good(removeAnds[b], f)
      BY <3>2, <3>3
    <3> DEFINE s == removeAnds[a]
               t == removeAnds[b]
    <3> HIDE DEF s, t
    <3>5. s \o t \in Seq(Records)
      BY <3>4 DEF s, t
    <3>6. ASSUME NEW i \in DOMAIN (s \o t) PROVE Parts[(s \o t)[i]] \subseteq Parts[f]
      <4>0. s \in Seq(Records) /\ t \in Seq(Records) /\ Good(s, f) /\ Good(t, f)
        BY <3>4 DEF s, t
      <4>1. \/ i \in DOMAIN s /\ (s \o t)[i] = s[i]
            \/ i - Len(s) \in DOMAIN t /\ (s \o t)[i] = t[i - Len(s)]
        BY <4>0
      <4> QED BY <4>0, <4>1
    <3>7. removeAnds[f] = s \o t
      BY <3>1 DEF s, t
    <3>8. Good(s \o t, f)
      BY <3>5, <3>6
    <3> HIDE DEF Good
    <3> QED BY <3>7, <3>8
  <2> QED BY <2>1, <2>2
<1> HIDE DEF T
<1>2. Records \subseteq T
  BY <1>1, RecordInduction
<1> QED BY <1>2 DEF T

(* The same of removeOrs.                                                  *)
LEMMA OrsAreParts ==
  ASSUME NEW f0 \in Records
  PROVE  /\ removeOrs[f0] \in Seq(Records)
         /\ \A i \in DOMAIN removeOrs[f0] : Parts[removeOrs[f0][i]] \subseteq Parts[f0]
<1> DEFINE Good(s, f) == /\ s \in Seq(Records)
                         /\ \A i \in DOMAIN s : Parts[s[i]] \subseteq Parts[f]
           T == {f \in Records : Good(removeOrs[f], f)}
<1>1. ASSUME NEW f \in Records, \A i \in DOMAIN f.kids : f.kids[i] \in T
      PROVE  f \in T
  <2>1. CASE f.type # "Or"
    <3>1. removeOrs[f] = <<f>>
      BY <2>1, OrsDef DEF OrsBody
    <3>2. Good(<<f>>, f)
      OBVIOUS
    <3> HIDE DEF Good
    <3> QED BY <3>1, <3>2
  <2>2. CASE f.type = "Or"
    <3> DEFINE a == f.kids[1]
               b == f.kids[2]
    <3>1. /\ removeOrs[f] = removeOrs[a] \o removeOrs[b]
          /\ 1 \in DOMAIN f.kids /\ 2 \in DOMAIN f.kids
      BY <2>2, OrsDef, Operands DEF OrsBody, Binary
    <3>2. Good(removeOrs[a], a) /\ Good(removeOrs[b], b)
      BY <1>1, <3>1
    <3>3. Parts[a] \subseteq Parts[f] /\ Parts[b] \subseteq Parts[f]
      BY <3>1, PartsDef
    <3> HIDE DEF a, b
    <3>4. Good(removeOrs[a], f) /\ Good(removeOrs[b], f)
      BY <3>2, <3>3
    <3> DEFINE s == removeOrs[a]
               t == removeOrs[b]
    <3> HIDE DEF s, t
    <3>5. s \o t \in Seq(Records)
      BY <3>4 DEF s, t
    <3>6. ASSUME NEW i \in DOMAIN (s \o t) PROVE Parts[(s \o t)[i]] \subseteq Parts[f]
      <4>0. s \in Seq(Records) /\ t \in Seq(Records) /\ Good(s, f) /\ Good(t, f)
        BY <3>4 DEF s, t
      <4>1. \/ i \in DOMAIN s /\ (s \o t)[i] = s[i]
            \/ i - Len(s) \in DOMAIN t /\ (s \o t)[i] = t[i - Len(s)]
        BY <4>0
      <4> QED BY <4>0, <4>1
    <3>7. removeOrs[f] = s \o t
      BY <3>1 DEF s, t
    <3>8. Good(s \o t, f)
      BY <3>5, <3>6
    <3> HIDE DEF Good
    <3> QED BY <3>7, <3>8
  <2> QED BY <2>1, <2>2
<1> HIDE DEF T
<1>2. Records \subseteq T
  BY <1>1, RecordInduction
<1> QED BY <1>2 DEF T
-----------------------------------------------------------------------------
(* The split into clauses.  The variables of a clause have numbers of      *)
(* their own: those that were given while it was made.                     *)
NumberedIn(c, lo, hi) == \A v \in VariablesOf(c) : v[2] \in lo + 1 .. hi

Separate(list) ==
  \A k, l \in DOMAIN list :
    k # l => VariablesOf(list[k]) \cap VariablesOf(list[l]) = {}

SplitWell(list, lo, hi) ==
  /\ list \in Seq(Seq(Records))
  /\ \A k \in DOMAIN list : NumberedIn(list[k], lo, hi)
  /\ Separate(list)

(* A clause with later numbers may be added.                               *)
LEMMA SplitAppend ==
  ASSUME NEW lo \in Nat, NEW a \in Nat, NEW b \in Nat, lo <= a, a <= b,
         NEW list, SplitWell(list, lo, a), NEW c \in Seq(Records), NumberedIn(c, a, b)
  PROVE  SplitWell(Append(list, c), lo, b)
<1> DEFINE s == Append(list, c)
           L == Len(list)
<1>1. list \in Seq(Seq(Records)) /\ L \in Nat /\ DOMAIN list = 1 .. L
  BY DEF SplitWell
<1>2. /\ s \in Seq(Seq(Records)) /\ DOMAIN s = 1 .. L + 1 /\ s[L + 1] = c
      /\ \A k \in 1 .. L : s[k] = list[k]
  BY <1>1
<1> HIDE DEF s, L
<1>3. ASSUME NEW k \in 1 .. L, NEW v \in VariablesOf(s[k]) PROVE v[2] \in lo + 1 .. a
  BY <1>1, <1>2 DEF SplitWell, NumberedIn
<1>4. ASSUME NEW v \in VariablesOf(s[L + 1]) PROVE v[2] \in a + 1 .. b
  BY <1>2 DEF NumberedIn
<1>5. \A k \in DOMAIN s : k \in 1 .. L \/ k = L + 1
  BY <1>1, <1>2
<1>6. ASSUME NEW k \in DOMAIN s PROVE NumberedIn(s[k], lo, b)
  <2> SUFFICES ASSUME NEW v \in VariablesOf(s[k]) PROVE v[2] \in lo + 1 .. b
    BY DEF NumberedIn
  <2>1. CASE k \in 1 .. L
    BY <1>3, <2>1
  <2>2. CASE k = L + 1
    BY <1>4, <2>2
  <2> QED BY <1>5, <2>1, <2>2
<1>7. ASSUME NEW k \in 1 .. L
      PROVE  VariablesOf(s[k]) \cap VariablesOf(s[L + 1]) = {}
  <2> SUFFICES ASSUME NEW v \in VariablesOf(s[k]), v \in VariablesOf(s[L + 1]) PROVE FALSE
    OBVIOUS
  <2>1. v[2] \in lo + 1 .. a /\ v[2] \in a + 1 .. b
    BY <1>3, <1>4
  <2> QED BY <2>1
<1>8. Separate(s)
  <2> SUFFICES ASSUME NEW k \in DOMAIN s, NEW l \in DOMAIN s, k # l
               PROVE  VariablesOf(s[k]) \cap VariablesOf(s[l]) = {}
    BY DEF Separate
  <2>1. CASE k \in 1 .. L /\ l \in 1 .. L
    BY <1>1, <1>2, <2>1 DEF SplitWell, Separate
  <2>2. CASE k = L + 1 \/ l = L + 1
    BY <1>5, <1>7, <2>2
  <2> QED BY <1>5, <2>1, <2>2
<1> QED BY <1>2, <1>6, <1>8 DEF SplitWell, s

(* The disjuncts of a conjunct whose variables have been renamed.          *)
LEMMA ClauseOfConjunct ==
  ASSUME NEW n \in Nat, NEW f \in Records
  PROVE  LET r == renameAgain(f, n)
         IN /\ r.data.counter \in Nat /\ n <= r.data.counter
            /\ removeOrs[r.f] \in Seq(Records)
            /\ NumberedIn(removeOrs[r.f], n, r.data.counter)
<1> DEFINE r == renameAgain(f, n)
           x == [counter |-> n, names |-> <<>>]
           c == removeOrs[r.f]
<1>1. x \in Tables(n)
  <2>1. x.counter = n /\ x.names = <<>> /\ x \in NamesData
    BY DEF NamesData
  <2> QED BY <2>1 DEF Tables
<1>2. r = renameAll[f][x][<<>>]
  BY DEF renameAgain
<1>3. RenamedAgain(f, x, r, n)
  BY <1>1, <1>2, AllRenamed
<1> HIDE DEF r
<1>4. /\ r.data.counter \in Nat /\ n <= r.data.counter /\ r.f \in Records
      /\ Parts[r.f] \subseteq Fresh(n, r.data.counter)
  BY <1>3 DEF RenamedAgain, Tables, NamesData
<1>5. c \in Seq(Records) /\ \A k \in DOMAIN c : Parts[c[k]] \subseteq Parts[r.f]
  BY <1>4, OrsAreParts
<1> HIDE DEF c
<1>6. NumberedIn(c, n, r.data.counter)
  <2> SUFFICES ASSUME NEW k \in DOMAIN c, NEW v \in Variables(c[k])
               PROVE  v[2] \in n + 1 .. r.data.counter
    BY DEF NumberedIn, VariablesOf
  <2>1. PICK p \in Parts[c[k]] : p.type = "Variable" /\ v = p.name
    BY DEF Variables
  <2> QED BY <1>4, <1>5, <2>1 DEF Fresh
<1> QED BY <1>4, <1>5, <1>6 DEF r, c

DoneBody(cs, n, v, i) ==
  IF i = 0 THEN [list |-> <<>>, counter |-> n]
  ELSE LET before == v[i - 1]
           r == renameAgain(cs[i], before.counter)
       IN IF cs[i].type \in Markers THEN before
          ELSE [list |-> Append(before.list, removeOrs[r.f]),
                counter |-> r.data.counter]

(* What is done of the conjuncts satisfies its recursive definition.       *)
LEMMA ClausesOfDef ==
  ASSUME NEW f \in Records, NEW n
  PROVE  LET cs == removeAnds[f]
         IN \E v : /\ v = [i \in 0 .. Len(cs) |-> DoneBody(cs, n, v, i)]
                   /\ ClausesOf(f, n) = v[Len(cs)]
<1> DEFINE cs == removeAnds[f]
           B(v, i) == DoneBody(cs, n, v, i)
           T == {m \in Nat : \E v : v = [i \in 0 .. m |-> B(v, i)]}
<1>0. Len(cs) \in Nat
  <2>1. cs \in Seq(Records)
    BY AndsAreParts
  <2> QED BY <2>1
<1>1. 0 \in T
  <2> DEFINE v == [i \in 0 .. 0 |-> [list |-> <<>>, counter |-> n]]
  <2>1. v = [i \in 0 .. 0 |-> B(v, i)]
    BY DEF DoneBody
  <2> QED BY <2>1
<1>2. ASSUME NEW m \in T PROVE m + 1 \in T
  <2>1. PICK v : v = [i \in 0 .. m |-> B(v, i)]
    OBVIOUS
  <2> DEFINE w == [i \in 0 .. m + 1 |-> B(v, i)]
  <2>2. ASSUME NEW i \in 0 .. m + 1 PROVE B(v, i) = B(w, i)
    <3>1. i # 0 => i - 1 \in 0 .. m /\ i - 1 \in 0 .. m + 1
      OBVIOUS
    <3>2. i # 0 => v[i - 1] = w[i - 1]
      BY <2>1, <3>1
    <3> HIDE DEF w
    <3> QED BY <3>2 DEF DoneBody
  <2>3. w = [i \in 0 .. m + 1 |-> B(w, i)]
    BY <2>2
  <2> HIDE DEF w
  <2> QED BY <2>3
<1>3. T = Nat
  <2> HIDE DEF T
  <2>1. T \in SUBSET Nat
    BY DEF T
  <2> QED BY <1>1, <1>2, <2>1, NumberInduction
<1>4. \E v : v = [i \in 0 .. Len(cs) |-> B(v, i)]
  BY <1>0, <1>3
<1> DEFINE V == CHOOSE v : v = [i \in 0 .. Len(cs) |-> B(v, i)]
<1>5. V = [i \in 0 .. Len(cs) |-> B(V, i)]
  BY <1>4
<1>6. ClausesOf(f, n) = V[Len(cs)]
  BY DEF ClausesOf, DoneBody
<1> HIDE DEF V
<1> QED BY <1>5, <1>6

(* The clauses of an entry have variables of their own.                    *)
LEMMA ClausesSplit ==
  ASSUME NEW f \in Records, NEW n \in Nat
  PROVE  LET r == ClausesOf(f, n)
         IN r.counter \in Nat /\ n <= r.counter /\ SplitWell(r.list, n, r.counter)
<1> DEFINE cs == removeAnds[f]
           L == Len(cs)
           Well(r) == r.counter \in Nat /\ n <= r.counter /\ SplitWell(r.list, n, r.counter)
<1>1. cs \in Seq(Records)
  BY AndsAreParts
<1>2. PICK v : /\ v = [i \in 0 .. L |-> DoneBody(cs, n, v, i)]
               /\ ClausesOf(f, n) = v[L]
  BY ClausesOfDef
<1>3. L \in Nat /\ DOMAIN cs = 1 .. L /\ \A i \in 1 .. L : cs[i] \in Records
  BY <1>1
<1> HIDE DEF cs, L
<1> DEFINE T == {i \in Nat : i <= L => Well(v[i])}
<1>4. 0 \in T
  <2>1. v[0] = [list |-> <<>>, counter |-> n]
    BY <1>2, <1>3 DEF DoneBody
  <2>2. SplitWell(<<>>, n, n)
    BY DEF SplitWell, Separate
  <2> QED BY <2>1, <2>2
<1>5. ASSUME NEW i \in T PROVE i + 1 \in T
  <2> SUFFICES ASSUME i + 1 <= L PROVE Well(v[i + 1])
    OBVIOUS
  <2>1. i \in Nat /\ i + 1 \in 1 .. L /\ (i + 1) - 1 = i /\ Well(v[i]) /\ i + 1 \in 0 .. L
    BY <1>3
  <2> DEFINE g == cs[i + 1]
             r == renameAgain(g, v[i].counter)
  <2>2. v[i + 1] = IF g.type \in Markers THEN v[i]
                   ELSE [list |-> Append(v[i].list, removeOrs[r.f]),
                         counter |-> r.data.counter]
    <3>1. v[i + 1] = DoneBody(cs, n, v, i + 1)
      BY <1>2, <2>1
    <3> QED BY <2>1, <3>1 DEF DoneBody
  <2>3. g \in Records
    BY <1>3, <2>1
  <2>4. /\ r.data.counter \in Nat /\ v[i].counter <= r.data.counter
        /\ removeOrs[r.f] \in Seq(Records)
        /\ NumberedIn(removeOrs[r.f], v[i].counter, r.data.counter)
    BY <2>1, <2>3, ClauseOfConjunct
  <2> HIDE DEF g, r
  <2>5. SplitWell(Append(v[i].list, removeOrs[r.f]), n, r.data.counter)
    BY <2>1, <2>4, SplitAppend
  <2> QED BY <2>1, <2>2, <2>4, <2>5
<1>6. T \in SUBSET Nat
  OBVIOUS
<1> HIDE DEF T
<1>7. T = Nat
  BY <1>4, <1>5, <1>6, NumberInduction
<1>8. Well(v[L])
  BY <1>3, <1>7 DEF T
<1> QED BY <1>2, <1>8
-----------------------------------------------------------------------------
(* The steps of the constructors keep the invariant.                       *)
LEMMA RewriteKeeps ==
  ASSUME FormInv, NEW c \in CallNames, c # "renameVariables",
         NEW f, Rewrite(c, f), After(c) \in CallNames,
         f \in Records => Parts[f] \subseteq Reached(After(c), counter),
         After(c) # "skolemize"
  PROVE  FormInv'
<1>1. /\ Working /\ f \in Records /\ cur' = f /\ call' = After(c) /\ counter' = counter
      /\ UNCHANGED <<phase, program, form, normal>>
  BY DEF Rewrite
<1>2. counter \in Nat /\ counter <= counter
  BY DEF FormInv, ProgramRead
<1> QED BY <1>1, <1>2, CallKeeps

(* renameVariables numbers every binder of the copy anew.                  *)
LEMMA RenameVariablesKeeps == FormInv /\ RenameVariables => FormInv'
<1> SUFFICES ASSUME FormInv, RenameVariables PROVE FormInv'
  OBVIOUS
<1> DEFINE r == renameVariables(cur, counter)
<1>1. /\ Working /\ call = "renameVariables" /\ r.f \in Records
      /\ cur' = r.f /\ counter' = r.data /\ call' = "skolemize"
      /\ UNCHANGED <<phase, program, form, normal>>
  BY AfterCalls DEF RenameVariables, RewriteNaming
<1>2. /\ counter \in Nat /\ cur \in Records
      /\ Parts[cur] \subseteq AtomsNegated(counter)
  BY <1>1 DEF FormInv, ProgramRead, CopyReached, Reached
<1>3. RenamedWell(cur, counter, r)
  <2>1. <<>> \in Stacks(counter)
    BY DEF Stacks
  <2> QED BY <1>2, <2>1, VariablesRenamed DEF renameVariables
<1> HIDE DEF r
<1>4. /\ r.data \in Nat /\ counter <= r.data
      /\ Parts[r.f] \subseteq Renamed(counter, r.data) /\ BindOnce[r.f]
  BY <1>1, <1>3 DEF RenamedWell
<1>5. BindersApart'
  <2> SUFFICES ASSUME NEW i \in DOMAIN normal.list, NEW b \in BinderNames(r.f),
                      b \in Names(normal.list[i].f)
               PROVE  FALSE
    BY <1>1, <1>4 DEF BindersApart
  <2>1. PICK p \in Parts[r.f] : p.type \in Quantifiers /\ b = p.name
    BY DEF BinderNames, Binders
  <2>2. b[2] \in counter + 1 .. r.data
    BY <1>4, <2>1 DEF Renamed
  <2>3. PICK q \in Parts[normal.list[i].f] : b = q.name
    BY DEF Names
  <2>4. b[2] \in 0 .. counter
    BY <2>3 DEF FormInv, EntriesDone, Named
  <2> QED BY <1>2, <1>4, <2>2, <2>4
<1>6. Parts[r.f] \subseteq Reached(call', r.data) /\ call' \in CallNames
  BY <1>1, <1>4 DEF Renamed, Reached, CallNames
<1> QED BY <1>1, <1>4, <1>5, <1>6, CallKeeps

(* skolemize leaves no existential.                                        *)
LEMMA SkolemizeKeeps == FormInv /\ Skolemize => FormInv'
<1> SUFFICES ASSUME FormInv, Skolemize PROVE FormInv'
  OBVIOUS
<1> DEFINE r == skolemize(cur, counter)
           data == [counter |-> counter, fns |-> <<>>]
<1>1. /\ Working /\ call = "skolemize" /\ r.f \in Records
      /\ cur' = r.f /\ counter' = r.data.counter /\ call' = "removeUniversals"
      /\ UNCHANGED <<phase, program, form, normal>>
  BY AfterCalls DEF Skolemize, RewriteNaming
<1>2. /\ counter \in Nat /\ cur \in Records
      /\ Parts[cur] \subseteq AtomsNegated(counter)
  BY <1>1 DEF FormInv, ProgramRead, CopyReached, Reached
<1>3. SkolemizedWell(cur, data, r)
  <2>1. data \in Skolems /\ data.counter = counter
    <3>1. data.counter = counter /\ data.fns = <<>> /\ data \in SkolemData
      BY <1>2 DEF SkolemData
    <3> QED BY <3>1 DEF Skolems
  <2>2. <<>> \in Scopes(data.counter)
    BY DEF Scopes
  <2>3. r = skolemizeIn[cur][data][<<>>]
    BY DEF skolemize
  <2> HIDE DEF data, r
  <2> QED BY <1>2, <2>1, <2>2, <2>3, ExistentialsGone
<1> HIDE DEF r
<1>4. /\ r.data.counter \in Nat /\ counter <= r.data.counter
      /\ Parts[r.f] \subseteq NoExistential(r.data.counter)
  BY <1>1, <1>3 DEF SkolemizedWell, Skolems, SkolemData
<1>5. Parts[r.f] \subseteq Reached(call', r.data.counter) /\ call' \in CallNames
  BY <1>1, <1>4 DEF Reached, CallNames
<1> QED BY <1>1, <1>4, <1>5, CallKeeps

(* A pass of the distribution leaves no quantifier.                        *)
LEMMA DistributeKeeps == FormInv /\ Distribute => FormInv'
<1> SUFFICES ASSUME FormInv, Distribute PROVE FormInv'
  OBVIOUS
<1>1. /\ Working /\ call = "distribution" /\ Pass \in Records /\ cur' = Pass
      /\ UNCHANGED <<phase, program, form, normal, call, counter>>
  BY DEF Distribute
<1>2. /\ counter \in Nat /\ counter <= counter /\ cur \in Records
      /\ Parts[cur] \subseteq NoQuantifier(counter)
  BY <1>1 DEF FormInv, ProgramRead, CopyReached, Reached
<1>3. Parts[Pass] \subseteq NoQuantifier(counter)
  BY <1>1, <1>2, OrsKept, AndsKept DEF Pass
<1>4. Parts[Pass] \subseteq Reached(call', counter) /\ call' \in CallNames
  BY <1>1, <1>3 DEF Reached, CallNames
<1> QED BY <1>1, <1>2, <1>4, CallKeeps

(* The clauses that are made next.                                         *)
LEMMA EntryClauses ==
  ASSUME FormInv, Clausify, clauses \in Seq(Seq(Seq(Records)))
  PROVE  \E list \in Seq(Seq(Records)) :
           /\ clauses' = Append(clauses, list)
           /\ counter' \in Nat /\ counter <= counter'
           /\ SplitWell(list, counter, counter')
<1> DEFINE f == normal.list[Len(clauses) + 1].f
           r == ClausesOf(f, counter)
<1>1. /\ Len(clauses) < Len(normal.list)
      /\ clauses' = Append(clauses, r.list) /\ counter' = r.counter
  BY DEF Clausify
<1>2. f \in Records /\ counter \in Nat
  <2>1. normal.list \in Seq(Entries) /\ Len(clauses) \in Nat
    BY DEF FormInv, NormalMade
  <2>2. normal.list[Len(clauses) + 1] \in Entries
    BY <1>1, <2>1
  <2> QED BY <2>2 DEF Entries, FormInv, ProgramRead
<1>3. r.counter \in Nat /\ counter <= r.counter /\ SplitWell(r.list, counter, r.counter)
  BY <1>2, ClausesSplit
<1> HIDE DEF r
<1> QED BY <1>1, <1>3 DEF SplitWell

(* Clauses are made of entries that are done.                              *)
LEMMA ClausifyKeeps ==
  ASSUME clauses \in Seq(Seq(Seq(Records)))
  PROVE  FormInv /\ (StartClauses \/ Clausify) => FormInv'
<1>1. FormInv /\ StartClauses => FormInv'
  <2> SUFFICES ASSUME FormInv, StartClauses PROVE FormInv'
    OBVIOUS
  <2>1. /\ phase = "normal" /\ phase' = "clauses"
        /\ UNCHANGED <<program, form, normal, counter>>
    BY DEF StartClauses, making
  <2> QED BY <2>1 DEF FormInv, ProgramRead, NormalMade, EntriesDone, CopyReached,
                      Working, IsNormal, Inner, Outer
<1>2. FormInv /\ Clausify => FormInv'
  <2> SUFFICES ASSUME FormInv, Clausify PROVE FormInv'
    OBVIOUS
  <2>1. /\ phase = "clauses" /\ phase' \in {"clauses", "aborted"}
        /\ UNCHANGED <<program, form, normal>>
    BY DEF Clausify
  <2>2. counter' \in Nat /\ counter <= counter'
    BY EntryClauses DEF FormInv, ProgramRead
  <2>3. Named(counter) \subseteq Named(counter')
    BY <2>2, NamedGrows DEF FormInv, ProgramRead
  <2>4. EntriesDone'
    BY <2>1, <2>3 DEF FormInv, EntriesDone, IsNormal, Inner, Outer
  <2> QED BY <2>1, <2>2, <2>4 DEF FormInv, ProgramRead, NormalMade, CopyReached, Working
<1> QED BY <1>1, <1>2
(* The clauses of an entry are apart from each other and from all others.  *)
ClausesWell ==
  /\ clauses \in Seq(Seq(Seq(Records)))
  /\ phase \notin {"clauses", "aborted"} => clauses = <<>>
  /\ \A i \in DOMAIN clauses : SplitWell(clauses[i], 0, counter)
  /\ ClausesApart

ProofInv == FormInv /\ ClausesWell

(* Later clauses have later numbers.                                       *)
LEMMA ClausifyKeepsApart == ProofInv /\ Clausify => ClausesWell'
<1> SUFFICES ASSUME ProofInv, Clausify PROVE ClausesWell'
  OBVIOUS
<1> DEFINE L == Len(clauses)
<1>1. PICK list \in Seq(Seq(Records)) :
        /\ clauses' = Append(clauses, list)
        /\ counter' \in Nat /\ counter <= counter'
        /\ SplitWell(list, counter, counter')
  BY EntryClauses DEF ProofInv, ClausesWell
<1>2. /\ clauses \in Seq(Seq(Seq(Records))) /\ L \in Nat /\ DOMAIN clauses = 1 .. L
      /\ counter \in Nat
  BY DEF ProofInv, ClausesWell, FormInv, ProgramRead
<1>3. /\ clauses' \in Seq(Seq(Seq(Records))) /\ DOMAIN clauses' = 1 .. L + 1
      /\ clauses'[L + 1] = list /\ \A i \in 1 .. L : clauses'[i] = clauses[i]
  BY <1>1, <1>2
<1> HIDE DEF L
<1>4. \A i \in DOMAIN clauses' : i \in 1 .. L \/ i = L + 1
  BY <1>2, <1>3
<1>5. ASSUME NEW i \in 1 .. L, NEW k \in DOMAIN clauses'[i], NEW v \in VariablesOf(clauses'[i][k])
      PROVE  v[2] \in 1 .. counter
  <2>1. SplitWell(clauses[i], 0, counter)
    BY <1>2 DEF ProofInv, ClausesWell
  <2>2. NumberedIn(clauses[i][k], 0, counter)
    BY <1>3, <2>1 DEF SplitWell
  <2> QED BY <1>2, <1>3, <2>2 DEF NumberedIn
<1>6. ASSUME NEW k \in DOMAIN list, NEW v \in VariablesOf(list[k])
      PROVE  v[2] \in counter + 1 .. counter'
  BY <1>1 DEF SplitWell, NumberedIn
<1>7. ASSUME NEW i \in DOMAIN clauses' PROVE SplitWell(clauses'[i], 0, counter')
  <2>1. clauses'[i] \in Seq(Seq(Records)) /\ Separate(clauses'[i])
    <3>1. CASE i \in 1 .. L
      <4>1. SplitWell(clauses[i], 0, counter)
        BY <1>2, <3>1 DEF ProofInv, ClausesWell
      <4> QED BY <1>3, <3>1, <4>1 DEF SplitWell
    <3>2. CASE i = L + 1
      BY <1>1, <1>3, <3>2 DEF SplitWell
    <3> QED BY <1>4, <3>1, <3>2
  <2>2. ASSUME NEW k \in DOMAIN clauses'[i], NEW v \in VariablesOf(clauses'[i][k])
        PROVE  v[2] \in 0 + 1 .. counter'
    <3>1. CASE i \in 1 .. L
      <4>1. v[2] \in 1 .. counter
        BY <1>5, <3>1
      <4> QED BY <1>1, <1>2, <4>1
    <3>2. CASE i = L + 1
      <4>1. v[2] \in counter + 1 .. counter'
        BY <1>3, <1>6, <3>2
      <4> QED BY <1>1, <1>2, <4>1
    <3> QED BY <1>4, <3>1, <3>2
  <2> QED BY <2>1, <2>2 DEF SplitWell, NumberedIn
<1>8. ASSUME NEW i \in 1 .. L, NEW k \in DOMAIN clauses'[i], NEW l \in DOMAIN list
      PROVE  VariablesOf(clauses'[i][k]) \cap VariablesOf(list[l]) = {}
  <2> SUFFICES ASSUME NEW v \in VariablesOf(clauses'[i][k]), v \in VariablesOf(list[l])
               PROVE  FALSE
    OBVIOUS
  <2>1. v[2] \in 1 .. counter /\ v[2] \in counter + 1 .. counter'
    BY <1>5, <1>6
  <2> QED BY <1>1, <1>2, <2>1
<1>9. ClausesApart'
  <2> SUFFICES ASSUME NEW i \in DOMAIN clauses', NEW j \in DOMAIN clauses',
                      NEW k \in DOMAIN clauses'[i], NEW l \in DOMAIN clauses'[j],
                      <<i, k>> # <<j, l>>
               PROVE  VariablesOf(clauses'[i][k]) \cap VariablesOf(clauses'[j][l]) = {}
    BY DEF ClausesApart, VariablesOf, Variables
  <2>1. CASE i \in 1 .. L /\ j \in 1 .. L
    <3>1. i \in DOMAIN clauses /\ j \in DOMAIN clauses
      BY <1>2, <2>1
    <3>2. clauses'[i] = clauses[i] /\ clauses'[j] = clauses[j]
      BY <1>3, <2>1
    <3> QED BY <3>1, <3>2 DEF ProofInv, ClausesWell, ClausesApart
  <2>2. CASE i \in 1 .. L /\ j = L + 1
    BY <1>3, <1>8, <2>2
  <2>3. CASE i = L + 1 /\ j \in 1 .. L
    BY <1>3, <1>8, <2>3
  <2>4. CASE i = L + 1 /\ j = L + 1
    <3>1. k # l /\ k \in DOMAIN list /\ l \in DOMAIN list
      BY <1>3, <2>4
    <3> QED BY <1>1, <1>3, <2>4, <3>1 DEF SplitWell, Separate
  <2> QED BY <1>4, <2>1, <2>2, <2>3, <2>4
<1>10. phase' \in {"clauses", "aborted"}
  BY DEF Clausify
<1> QED BY <1>3, <1>7, <1>9, <1>10 DEF ClausesWell

(* Before the clauses are made there are none.                             *)
LEMMA NoClauses ==
  ASSUME clauses = <<>>, clauses' = <<>>
  PROVE  ClausesWell'
  BY DEF ClausesWell, ClausesApart

(* The steps before StartClauses.                                          *)
LEMMA StepsKeepNone ==
  ASSUME ProofInv, Read \/ FormStep
  PROVE  Clausify \/ (clauses = <<>> /\ clauses' = <<>>)
<1> SUFFICES ASSUME ~ Clausify
             PROVE  phase \notin {"clauses", "aborted"} /\ clauses' = clauses
  BY DEF ProofInv, ClausesWell
<1>1. CASE Read
  BY <1>1 DEF Read, making
<1>2. CASE FormStep
  BY <1>2 DEF FormStep, StartNormal, StartClauses, making, Rewrite, RewriteNaming, Working,
              RemoveBiconditionals, RemoveConditionals, Demorgans, RenameVariables,
              Skolemize, RemoveUniversals, Distribute, InsertNormal
<1> QED BY <1>1, <1>2
(* A call of the rewriting keeps the invariant.                            *)
LEMMA CallsKeep ==
  FormInv /\ (\/ RemoveBiconditionals \/ RemoveConditionals \/ Demorgans
              \/ RemoveUniversals) => FormInv'
<1>1. FormInv => counter \in Nat
  BY DEF FormInv, ProgramRead
<1>2. ASSUME FormInv, NEW c, NEW f, Rewrite(c, f)
      PROVE  call = c /\ cur \in Records /\ f \in Records
             /\ Parts[cur] \subseteq Reached(c, counter)
  BY <1>2 DEF Rewrite, FormInv, CopyReached
<1>3. ASSUME FormInv, RemoveBiconditionals PROVE FormInv'
  <2>1. Rewrite("removeBiconditionals", removeBiconditionals[cur])
    BY <1>3 DEF RemoveBiconditionals
  <2>2. Parts[removeBiconditionals[cur]] \subseteq NoBiconditional(counter)
    BY <1>1, <1>2, <1>3, <2>1, BiconditionalsGone DEF Reached
  <2> QED BY <1>3, <2>1, <2>2, AfterCalls, RewriteKeeps DEF Reached, CallNames
<1>4. ASSUME FormInv, RemoveConditionals PROVE FormInv'
  <2>1. Rewrite("removeConditionals", removeConditionals[cur])
    BY <1>4 DEF RemoveConditionals
  <2>2. Parts[removeConditionals[cur]] \subseteq NoConditional(counter)
    BY <1>1, <1>2, <1>4, <2>1, ConditionalsGone DEF Reached
  <2> QED BY <1>4, <2>1, <2>2, AfterCalls, RewriteKeeps DEF Reached, CallNames
<1>5. ASSUME FormInv, Demorgans PROVE FormInv'
  <2>1. Rewrite("demorgans", demorgans[cur])
    BY <1>5 DEF Demorgans
  <2>2. Parts[demorgans[cur]] \subseteq AtomsNegated(counter)
    BY <1>1, <1>2, <1>5, <2>1, NegationsPushed DEF Reached
  <2> QED BY <1>5, <2>1, <2>2, AfterCalls, RewriteKeeps DEF Reached, CallNames
<1>6. ASSUME FormInv, RemoveUniversals PROVE FormInv'
  <2>1. Rewrite("removeUniversals", removeUniversals[cur])
    BY <1>6 DEF RemoveUniversals
  <2>2. Parts[removeUniversals[cur]] \subseteq NoQuantifier(counter)
    BY <1>1, <1>2, <1>6, <2>1, UniversalsGone DEF Reached
  <2> QED BY <1>6, <2>1, <2>2, AfterCalls, RewriteKeeps DEF Reached, CallNames
<1> QED BY <1>3, <1>4, <1>5, <1>6

(* The invariant holds of every program and of every order in which        *)
(* programs are read and brought into a normal form.                       *)
THEOREM ProofInvariant == FormSpec => []ProofInv
<1>1. FormInit => ProofInv
  <2> SUFFICES ASSUME FormInit PROVE ProofInv
    OBVIOUS
  <2>1. clauses = <<>>
    BY DEF FormInit
  <2> QED BY <2>1, FormInvBegins DEF ProofInv, ClausesWell, ClausesApart
<1>2. ProofInv /\ [Read \/ FormStep]_formVars => ProofInv'
  <2> SUFFICES ASSUME ProofInv, [Read \/ FormStep]_formVars PROVE ProofInv'
    OBVIOUS
  <2>1. FormInv /\ clauses \in Seq(Seq(Seq(Records)))
    BY DEF ProofInv, ClausesWell
  <2>2. CASE Read
    BY <2>1, <2>2, ReadKeeps, StepsKeepNone, NoClauses, ClausifyKeepsApart DEF ProofInv
  <2>3. CASE FormStep
    <3>1. FormInv'
      BY <2>1, <2>3, StartNormalKeeps, CallsKeep, RenameVariablesKeeps, SkolemizeKeeps,
         DistributeKeeps, InsertNormalKeeps, ClausifyKeeps DEF FormStep
    <3>2. ClausesWell'
      BY <2>3, StepsKeepNone, NoClauses, ClausifyKeepsApart
    <3> QED BY <3>1, <3>2 DEF ProofInv
  <2>4. CASE UNCHANGED formVars
    BY <2>1, <2>4
       DEF formVars, making, ProofInv, FormInv, ProgramRead, NormalMade, EntriesDone,
           CopyReached, Working, BindersApart, IsNormal, Inner, Outer, ClausesWell,
           ClausesApart
  <2> QED BY <2>2, <2>3, <2>4
<1> QED BY <1>1, <1>2, PTL DEF FormSpec

(* What CNFProgram and DNFProgram insert is in normal form.                *)
THEOREM NormalFormAlways == FormSpec => []NormalForm
<1>1. ProofInv => NormalForm
  BY DEF ProofInv, FormInv, EntriesDone, NormalForm
<1> QED BY <1>1, ProofInvariant, PTL

(* Renamed variables are not confused, in an entry, with those of an       *)
(* earlier entry, or between two clauses.                                  *)
THEOREM VariablesApartAlways == FormSpec => []VariablesApart
<1>1. ProofInv => VariablesApart
  BY DEF ProofInv, FormInv, CopyReached, ClausesWell, VariablesApart
<1> QED BY <1>1, ProofInvariant, PTL
=============================================================================
