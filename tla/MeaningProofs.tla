--------------------------- MODULE MeaningProofs ----------------------------
(***************************************************************************)
(* Proofs about what formulas and clauses say, in five parts:              *)
(*   - what a formula says, and the calls that change no truth;            *)
(*   - skolemize, which changes it, but only by choosing functions;        *)
(*   - interpretations, of the symbols of some formulas and of all symbols;*)
(*   - what the working copy stands for, call by call;                     *)
(*   - what the clauses say, and the theorems about meaning (MeaningInv).  *)
(* They rest on the shapes that NormalFormsProofs establishes (ProofInv).  *)
(***************************************************************************)
EXTENDS NormalFormsProofs

(* What the calls that neither rename nor drop a quantifier say.           *)

(* Truth satisfies its definition.                                         *)
LEMMA TruthDef ==
  ASSUME NEW I, NEW free
  PROVE  Truth(I, free) =
           [f \in Records |-> TruthBody(I, free, Truth(I, free), f)]
<1>1. ASSUME NEW f \in Records, NEW g, NEW h, Alike(g, h, f), NEW J, NEW fr
      PROVE  TruthBody(J, fr, g, f) = TruthBody(J, fr, h, f)
  <2>1. \A i \in DOMAIN f.kids : g[f.kids[i]] = h[f.kids[i]]
    BY <1>1, AlikeBranches
  <2>2. f.type \in Logical => g[f.kids[1]] = h[f.kids[1]]
    BY <2>1, Operands DEF Logical, Binary
  <2>3. f.type \in Binary => g[f.kids[2]] = h[f.kids[2]]
    BY <2>1, Operands
  <2> QED BY <2>2, <2>3 DEF TruthBody, Logical, Binary, Quantifiers
<1>2. \A g, f : Body("Truth", <<I, free>>, g, f) = TruthBody(I, free, g, f)
  BY DEF Body
<1>3. \E g : g = [f \in Records |-> TruthBody(I, free, g, f)]
  <2>1. \A f \in Records : \A g, h : Alike(g, h, f) =>
          Body("Truth", <<I, free>>, g, f) = Body("Truth", <<I, free>>, h, f)
    BY <1>1, <1>2
  <2>2. \E g : g = [f \in Records |-> Body("Truth", <<I, free>>, g, f)]
    BY <2>1, RecordFunction
  <2> QED BY <1>2, <2>2
<1> QED BY <1>3, Zenon DEF Truth, TruthBody

Says(I, free, f, scope) == Truth(I, free)[f][scope]

(* What a formula says, by the operator on top.                            *)
LEMMA TruthCases ==
  ASSUME NEW I, NEW free, NEW f \in Records, NEW scope \in Valuations
  PROVE  LET Sub(i) == Says(I, free, f.kids[i], scope)
             Of(d) == Says(I, free, f.kids[1], <<<<f.name, d>>>> \o scope)
         IN /\ f.type = "Negation" => (Says(I, free, f, scope) <=> ~ Sub(1))
            /\ f.type = "And" => (Says(I, free, f, scope) <=> Sub(1) /\ Sub(2))
            /\ f.type = "Or" => (Says(I, free, f, scope) <=> Sub(1) \/ Sub(2))
            /\ f.type = "Conditional" =>
                 (Says(I, free, f, scope) <=> (Sub(1) => Sub(2)))
            /\ f.type = "Biconditional" =>
                 (Says(I, free, f, scope) <=> (Sub(1) <=> Sub(2)))
            /\ f.type = "Universal" =>
                 (Says(I, free, f, scope) <=> \A d \in Domain : Of(d))
            /\ f.type = "Existential" =>
                 (Says(I, free, f, scope) <=> \E d \in Domain : Of(d))
<1> DEFINE truth == Truth(I, free)
           v == Value(I, free)
<1>1. truth[f] = TruthBody(I, free, truth, f)
  BY TruthDef
<1> HIDE DEF truth
<1>2. truth[f][scope] = TruthBody(I, free, truth, f)[scope]
  BY <1>1
<1>3. CASE f.type = "Negation"
  BY <1>2, <1>3 DEF TruthBody, Predicates, Says, truth
<1>4. CASE f.type = "And"
  BY <1>2, <1>4 DEF TruthBody, Predicates, Says, truth
<1>5. CASE f.type = "Or"
  BY <1>2, <1>5 DEF TruthBody, Predicates, Says, truth
<1>6. CASE f.type = "Conditional"
  BY <1>2, <1>6 DEF TruthBody, Predicates, Says, truth
<1>7. CASE f.type = "Biconditional"
  BY <1>2, <1>7 DEF TruthBody, Predicates, Says, truth
<1>8. CASE f.type = "Universal"
  BY <1>2, <1>8 DEF TruthBody, Predicates, Says, truth
<1>9. CASE f.type = "Existential"
  BY <1>2, <1>9 DEF TruthBody, Predicates, Says, truth
<1> QED BY <1>3, <1>4, <1>5, <1>6, <1>7, <1>8, <1>9

Same(I, free, f, g) ==
  \A scope \in Valuations : Says(I, free, f, scope) <=> Says(I, free, g, scope)

(* A variable in scope, and the scopes around it.                          *)
LEMMA ScopeGrows ==
  ASSUME NEW f \in Records, NEW scope \in Valuations, NEW d \in Domain
  PROVE  <<<<f.name, d>>>> \o scope \in Valuations
<1>1. f.name \in AnyName
  BY Kids
<1>2. <<<<f.name, d>>>> \in Seq(AnyName \X Domain)
  BY <1>1
<1> QED BY <1>2 DEF Valuations

(* Formulas whose kids say the same say the same.                          *)
LEMMA SameKids ==
  ASSUME NEW I, NEW free, NEW f \in Records, NEW g \in Records,
         f.type \in Logical, g.type = f.type, g.name = f.name,
         \A i \in DOMAIN f.kids : Same(I, free, f.kids[i], g.kids[i])
  PROVE  Same(I, free, f, g)
<1> SUFFICES ASSUME NEW scope \in Valuations
             PROVE  Says(I, free, f, scope) <=> Says(I, free, g, scope)
  BY DEF Same
<1>1. CASE f.type \in Binary
  <2>1. 1 \in DOMAIN f.kids /\ 2 \in DOMAIN f.kids
    BY <1>1, Operands
  <2>2. /\ Says(I, free, f.kids[1], scope) <=> Says(I, free, g.kids[1], scope)
        /\ Says(I, free, f.kids[2], scope) <=> Says(I, free, g.kids[2], scope)
    BY <2>1 DEF Same
  <2>3. f.type \in {"And", "Or", "Conditional", "Biconditional"}
    BY <1>1 DEF Logical, Binary, Quantifiers
  <2> QED BY <2>2, <2>3, TruthCases
<1>2. CASE f.type = "Negation"
  <2>1. 1 \in DOMAIN f.kids
    BY <1>2, Operands
  <2>2. Says(I, free, f.kids[1], scope) <=> Says(I, free, g.kids[1], scope)
    BY <2>1 DEF Same
  <2> QED BY <1>2, <2>2, TruthCases
<1>3. CASE f.type \in Quantifiers
  <2>1. 1 \in DOMAIN f.kids
    BY <1>3, Operands
  <2>2. \A d \in Domain : Says(I, free, f.kids[1], <<<<f.name, d>>>> \o scope)
                            <=> Says(I, free, g.kids[1], <<<<g.name, d>>>> \o scope)
    BY <2>1, ScopeGrows DEF Same
  <2> QED BY <1>3, <2>2, TruthCases DEF Quantifiers
<1> QED BY <1>1, <1>2, <1>3 DEF Logical, Binary

(* What the constructors of records say.                                   *)
LEMMA SaysNot ==
  ASSUME NEW I, NEW free, NEW a, Not(a) \in Records, NEW scope \in Valuations
  PROVE  Says(I, free, Not(a), scope) <=> ~ Says(I, free, a, scope)
<1>1. Not(a).type = "Negation" /\ Not(a).kids[1] = a
  BY DEF Not, Semantic
<1> QED BY <1>1, TruthCases

(* What a record made of two others says.                                  *)
LEMMA SaysJoin ==
  ASSUME NEW I, NEW free, NEW t, NEW a, NEW b, Join(t, a, b) \in Records,
         NEW scope \in Valuations
  PROVE  LET Of(g) == Says(I, free, g, scope)
         IN /\ t = "And" => (Of(Join(t, a, b)) <=> Of(a) /\ Of(b))
            /\ t = "Or" => (Of(Join(t, a, b)) <=> Of(a) \/ Of(b))
            /\ t = "Conditional" => (Of(Join(t, a, b)) <=> (Of(a) => Of(b)))
<1>1. Join(t, a, b).type = t /\ Join(t, a, b).kids[1] = a /\ Join(t, a, b).kids[2] = b
  BY DEF Join, Semantic
<1> QED BY <1>1, TruthCases

(* An atom, and an equality, stay as they are.                             *)
LEMMA AtomsStay ==
  ASSUME NEW op, \A t \in Records : t.type \notin Branching => op[t] = t,
         NEW f \in Records, f.type \notin Logical
  PROVE  OnBranches(op, f) = f
<1>1. CASE f.type \notin Branching
  BY <1>1 DEF OnBranches
<1>2. CASE f.type \in Branching
  <2>1. \A i \in DOMAIN f.kids : f.kids[i] \in Records /\ f.kids[i].type \in TermTypes
    BY Kids DEF Shaped
  <2>2. \A i \in DOMAIN f.kids : op[f.kids[i]] = f.kids[i]
    <3>1. \A t \in TermTypes : t \notin Branching
      BY DEF TermTypes, Branching, Binary, Quantifiers
    <3> QED BY <2>1, <3>1
  <2>3. f.kids \in Seq(Records) /\ f = Semantic(f.type, f.name, f.kids)
    BY Kids
  <2>4. [i \in DOMAIN f.kids |-> op[f.kids[i]]] = f.kids
    BY <2>2, <2>3
  <2> QED BY <1>2, <2>3, <2>4 DEF OnBranches, Semantic
<1> QED BY <1>1, <1>2

(* removeBiconditionals keeps the truth.                                   *)
LEMMA BiconditionalsSame ==
  ASSUME NEW I, NEW free, NEW f0 \in Records, removeBiconditionals[f0] \in Records
  PROVE  Same(I, free, f0, removeBiconditionals[f0])
<1> DEFINE op == removeBiconditionals
           T == {f \in Records : op[f] \in Records => Same(I, free, f, op[f])}
<1>1. ASSUME NEW f \in Records, \A i \in DOMAIN f.kids : f.kids[i] \in T
      PROVE  f \in T
  <2> SUFFICES ASSUME op[f] \in Records PROVE Same(I, free, f, op[f])
    OBVIOUS
  <2> DEFINE g == OnBranches(op, f)
  <2>1. \A t \in Records : op[t] = BiconditionalsBody(op, t)
    BY BiconditionalsDef
  <2>2. /\ g.type = f.type /\ g.name = f.name /\ DOMAIN g.kids = DOMAIN f.kids
        /\ f.type \in Branching => \A i \in DOMAIN f.kids : g.kids[i] = op[f.kids[i]]
    BY BranchFacts, Kids
  <2> HIDE DEF op
  <2>3. CASE f.type \notin Logical
    <3>1. \A t \in Records : t.type \notin Branching => op[t] = t
      BY <2>1 DEF BiconditionalsBody, OnBranches, Branching, Binary
    <3>2. g = f
      BY <2>3, <3>1, AtomsStay
    <3>3. op[f] = f
      BY <2>1, <2>3, <3>2 DEF BiconditionalsBody, Logical
    <3> QED BY <3>3 DEF Same
  <2>4. f.type \in Logical => f.type \in Branching
    BY NotBranching
  <2>5. ASSUME f.type \in Logical, NEW i \in DOMAIN f.kids, g.kids[i] \in Records
        PROVE  Same(I, free, f.kids[i], g.kids[i])
    BY <1>1, <2>2, <2>4, <2>5
  <2>6. CASE f.type \in Logical /\ f.type # "Biconditional"
    <3>1. op[f] = g
      BY <2>1, <2>2, <2>6 DEF BiconditionalsBody
    <3>2. \A i \in DOMAIN g.kids : g.kids[i] \in Records
      BY <3>1, Kids
    <3>3. \A i \in DOMAIN f.kids : Same(I, free, f.kids[i], g.kids[i])
      BY <2>2, <2>5, <2>6, <3>2
    <3> HIDE DEF g
    <3> QED BY <2>2, <2>6, <3>1, <3>3, SameKids
  <2>7. CASE f.type = "Biconditional"
    <3> DEFINE a == g.kids[1]
               b == g.kids[2]
               l == Join("Conditional", b, a)
               r == Join("Conditional", a, b)
    <3>1. op[f] = Join("And", l, r)
      BY <2>1, <2>2, <2>7 DEF BiconditionalsBody
    <3>2. l \in Records /\ r \in Records
      BY <3>1, JoinParts
    <3>3. a \in Records /\ b \in Records
      BY <3>2, JoinParts
    <3>4. f.type \in Logical /\ DOMAIN f.kids = {1, 2}
      BY <2>7, Operands DEF Logical, Binary
    <3>5. Same(I, free, f.kids[1], a) /\ Same(I, free, f.kids[2], b)
      BY <2>5, <3>3, <3>4
    <3> HIDE DEF a, b, g
    <3> SUFFICES ASSUME NEW scope \in Valuations
                 PROVE  Says(I, free, f, scope) <=> Says(I, free, op[f], scope)
      BY DEF Same
    <3>6. Says(I, free, l, scope) <=>
            (Says(I, free, b, scope) => Says(I, free, a, scope))
      BY <3>2, SaysJoin
    <3>7. Says(I, free, r, scope) <=>
            (Says(I, free, a, scope) => Says(I, free, b, scope))
      BY <3>2, SaysJoin
    <3> HIDE DEF l, r
    <3>8. Says(I, free, op[f], scope) <=>
            Says(I, free, l, scope) /\ Says(I, free, r, scope)
      BY <3>1, SaysJoin
    <3>9. Says(I, free, f, scope) <=>
            (Says(I, free, a, scope) <=> Says(I, free, b, scope))
      BY <2>7, <3>5, TruthCases DEF Same
    <3> QED BY <3>6, <3>7, <3>8, <3>9
  <2> QED BY <2>3, <2>6, <2>7
<1> HIDE DEF T
<1>2. Records \subseteq T
  BY <1>1, RecordInduction
<1> QED BY <1>2 DEF T

(* removeConditionals keeps the truth.                                     *)
LEMMA ConditionalsSame ==
  ASSUME NEW I, NEW free, NEW f0 \in Records, removeConditionals[f0] \in Records
  PROVE  Same(I, free, f0, removeConditionals[f0])
<1> DEFINE op == removeConditionals
           T == {f \in Records : op[f] \in Records => Same(I, free, f, op[f])}
<1>1. ASSUME NEW f \in Records, \A i \in DOMAIN f.kids : f.kids[i] \in T
      PROVE  f \in T
  <2> SUFFICES ASSUME op[f] \in Records PROVE Same(I, free, f, op[f])
    OBVIOUS
  <2> DEFINE g == OnBranches(op, f)
  <2>1. \A t \in Records : op[t] = ConditionalsBody(op, t)
    BY ConditionalsDef
  <2>2. /\ g.type = f.type /\ g.name = f.name /\ DOMAIN g.kids = DOMAIN f.kids
        /\ f.type \in Branching => \A i \in DOMAIN f.kids : g.kids[i] = op[f.kids[i]]
    BY BranchFacts, Kids
  <2> HIDE DEF op
  <2>3. CASE f.type \notin Logical
    <3>1. \A t \in Records : t.type \notin Branching => op[t] = t
      BY <2>1 DEF ConditionalsBody, OnBranches, Branching, Binary
    <3>2. g = f
      BY <2>3, <3>1, AtomsStay
    <3>3. op[f] = f
      BY <2>1, <2>3, <3>2 DEF ConditionalsBody, Logical
    <3> QED BY <3>3 DEF Same
  <2>4. f.type \in Logical => f.type \in Branching
    BY NotBranching
  <2>5. ASSUME f.type \in Logical, NEW i \in DOMAIN f.kids, g.kids[i] \in Records
        PROVE  Same(I, free, f.kids[i], g.kids[i])
    BY <1>1, <2>2, <2>4, <2>5
  <2>6. CASE f.type \in Logical /\ f.type # "Conditional"
    <3>1. op[f] = g
      BY <2>1, <2>2, <2>6 DEF ConditionalsBody
    <3>2. \A i \in DOMAIN g.kids : g.kids[i] \in Records
      BY <3>1, Kids
    <3>3. \A i \in DOMAIN f.kids : Same(I, free, f.kids[i], g.kids[i])
      BY <2>2, <2>5, <2>6, <3>2
    <3> HIDE DEF g
    <3> QED BY <2>2, <2>6, <3>1, <3>3, SameKids
  <2>7. CASE f.type = "Conditional"
    <3> DEFINE a == g.kids[1]
               b == g.kids[2]
               l == Not(a)
    <3>1. op[f] = Join("Or", l, b)
      BY <2>1, <2>2, <2>7 DEF ConditionalsBody
    <3>2. l \in Records /\ b \in Records
      BY <3>1, JoinParts
    <3>3. a \in Records
      BY <3>2, NotIsBind, BindParts
    <3>4. f.type \in Logical /\ DOMAIN f.kids = {1, 2}
      BY <2>7, Operands DEF Logical, Binary
    <3>5. Same(I, free, f.kids[1], a) /\ Same(I, free, f.kids[2], b)
      BY <2>5, <3>2, <3>3, <3>4
    <3> HIDE DEF a, b, g
    <3> SUFFICES ASSUME NEW scope \in Valuations
                 PROVE  Says(I, free, f, scope) <=> Says(I, free, op[f], scope)
      BY DEF Same
    <3>6. Says(I, free, l, scope) <=> ~ Says(I, free, a, scope)
      BY <3>2, SaysNot
    <3> HIDE DEF l
    <3>7. Says(I, free, op[f], scope) <=>
            Says(I, free, l, scope) \/ Says(I, free, b, scope)
      BY <3>1, SaysJoin
    <3>8. Says(I, free, f, scope) <=>
            (Says(I, free, a, scope) => Says(I, free, b, scope))
      BY <2>7, <3>5, TruthCases DEF Same
    <3> QED BY <3>6, <3>7, <3>8
  <2> QED BY <2>3, <2>6, <2>7
<1> HIDE DEF T
<1>2. Records \subseteq T
  BY <1>1, RecordInduction
<1> QED BY <1>2 DEF T

(* removeExtraNots keeps the truth.                                        *)
LEMMA ExtraNotsSame ==
  ASSUME NEW I, NEW free, NEW f0 \in Records
  PROVE  Same(I, free, f0, removeExtraNots[f0])
<1> DEFINE T == {f \in Records : Same(I, free, f, removeExtraNots[f])}
<1>1. ASSUME NEW f \in Records,
             \A y \in Records : Height(y) < Height(f) => y \in T
      PROVE  f \in T
  <2>1. CASE f.type = "Negation" /\ f.kids[1].type = "Negation"
    <3> DEFINE k == f.kids[1]
               g == k.kids[1]
    <3>1. k \in Records /\ g \in Records /\ Height(g) < Height(f)
      BY <2>1, Operands, Kids, HeightAssumption
    <3>2. removeExtraNots[f] = removeExtraNots[g]
      BY <2>1, ExtraNotsDef DEF ExtraNotsBody
    <3>3. Same(I, free, g, removeExtraNots[g])
      BY <1>1, <3>1
    <3>4. ASSUME NEW scope \in Valuations
          PROVE  Says(I, free, f, scope) <=> Says(I, free, g, scope)
      <4>1. Says(I, free, f, scope) <=> ~ Says(I, free, k, scope)
        BY <2>1, TruthCases
      <4>2. Says(I, free, k, scope) <=> ~ Says(I, free, g, scope)
        BY <2>1, <3>1, TruthCases
      <4> QED BY <4>1, <4>2
    <3> QED BY <3>2, <3>3, <3>4 DEF Same
  <2>2. CASE ~ (f.type = "Negation" /\ f.kids[1].type = "Negation")
    <3>1. removeExtraNots[f] = f
      BY <2>2, ExtraNotsDef DEF ExtraNotsBody
    <3> QED BY <3>1 DEF Same
  <2> QED BY <2>1, <2>2
<1> HIDE DEF T
<1>2. Records \subseteq T
  BY <1>1, HeightInduction
<1> QED BY <1>2 DEF T

(* A negation is pushed by the laws of de Morgan, whatever r makes of the  *)
(* kids afterwards.                                                        *)
LEMMA PushedSame ==
  ASSUME NEW I, NEW free, NEW f \in Records, NEW r \in Records,
         Pushed(f).type \in Logical,
         r.type = Pushed(f).type, r.name = Pushed(f).name,
         \A i \in DOMAIN Pushed(f).kids : Same(I, free, Pushed(f).kids[i], r.kids[i])
  PROVE  Same(I, free, f, r)
<1> DEFINE g == removeExtraNots[f]
           k == g.kids[1]
           Of(h, scope) == Says(I, free, h, scope)
<1>1. g \in Records /\ Same(I, free, f, g)
  BY ExtraNotsGone, ExtraNotsSame
<1>2. ASSUME Pushed(f) = g PROVE Same(I, free, f, r)
  <2> HIDE DEF g
  <2>1. Same(I, free, g, r)
    BY <1>1, <1>2, SameKids
  <2> QED BY <1>1, <2>1 DEF Same
<1>3. g.type # "Negation" => Pushed(f) = g
  BY DEF Pushed
<1>4. ASSUME g.type = "Negation"
      PROVE  Pushed(f) = PushNot(g) /\ k \in Records
             /\ \A scope \in Valuations : Of(g, scope) <=> ~ Of(k, scope)
  <2>1. Pushed(f) = PushNot(g)
    BY <1>4 DEF Pushed
  <2> HIDE DEF g
  <2> QED BY <1>1, <1>4, <2>1, Operands, TruthCases
<1>5. ASSUME NEW a, NEW i \in DOMAIN Pushed(f).kids, Pushed(f).kids[i] = Not(a),
             NEW scope \in Valuations
      PROVE  Of(r.kids[i], scope) <=> ~ Of(a, scope)
  <2>1. Not(a) \in Records
    BY <1>5, PushedKids
  <2>2. Of(Not(a), scope) <=> ~ Of(a, scope)
    BY <2>1, SaysNot
  <2> QED BY <1>5, <2>2 DEF Same
<1>6. ASSUME NEW scope \in Valuations PROVE Of(f, scope) <=> Of(g, scope)
  BY <1>1 DEF Same
<1> HIDE DEF g, k
<1>7. CASE g.type = "Negation" /\ k.type \in {"Or", "And"}
  <2> DEFINE a == k.kids[1]
             b == k.kids[2]
             t == IF k.type = "Or" THEN "And" ELSE "Or"
  <2>1. Pushed(f) = Join(t, Not(a), Not(b))
    BY <1>4, <1>7, PushNotCases DEF k
  <2>2. /\ Pushed(f).kids = <<Not(a), Not(b)>> /\ Pushed(f).type = t
    BY <2>1 DEF Join, Semantic
  <2> HIDE DEF a, b
  <2>3. ASSUME NEW scope \in Valuations
        PROVE  /\ Of(r.kids[1], scope) <=> ~ Of(a, scope)
               /\ Of(r.kids[2], scope) <=> ~ Of(b, scope)
    BY <1>5, <2>2
  <2>4. ASSUME NEW scope \in Valuations PROVE Of(g, scope) <=> Of(r, scope)
    <3>1. r.type = "And" => (Of(r, scope) <=> Of(r.kids[1], scope) /\ Of(r.kids[2], scope))
      BY TruthCases
    <3>2. r.type = "Or" => (Of(r, scope) <=> Of(r.kids[1], scope) \/ Of(r.kids[2], scope))
      BY TruthCases
    <3>3. k.type = "And" => (Of(k, scope) <=> Of(a, scope) /\ Of(b, scope))
      BY <1>4, <1>7, TruthCases DEF a, b
    <3>4. k.type = "Or" => (Of(k, scope) <=> Of(a, scope) \/ Of(b, scope))
      BY <1>4, <1>7, TruthCases DEF a, b
    <3> HIDE DEF Of
    <3> QED BY <1>4, <1>7, <2>2, <2>3, <3>1, <3>2, <3>3, <3>4
  <2> QED BY <1>6, <2>4 DEF Same
<1>8. CASE g.type = "Negation" /\ k.type \in Quantifiers
  <2> DEFINE a == k.kids[1]
             t == IF k.type = "Universal" THEN "Existential" ELSE "Universal"
  <2>1. Pushed(f) = Bind(t, k.name, Not(a))
    BY <1>4, <1>8, PushNotCases DEF k, Quantifiers
  <2>2. /\ Pushed(f).kids = <<Not(a)>> /\ Pushed(f).type = t /\ Pushed(f).name = k.name
    BY <2>1 DEF Bind, Semantic
  <2> HIDE DEF a
  <2>3. ASSUME NEW scope \in Valuations
        PROVE  Of(r.kids[1], scope) <=> ~ Of(a, scope)
    BY <1>5, <2>2
  <2>4. ASSUME NEW scope \in Valuations PROVE Of(g, scope) <=> Of(r, scope)
    <3> DEFINE In(d) == <<<<k.name, d>>>> \o scope
    <3>1. \A d \in Domain : In(d) \in Valuations
      BY <1>4, <1>8, ScopeGrows
    <3>2. r.type = "Universal" => (Of(r, scope) <=> \A d \in Domain : Of(r.kids[1], In(d)))
      BY <2>2, TruthCases
    <3>3. r.type = "Existential" => (Of(r, scope) <=> \E d \in Domain : Of(r.kids[1], In(d)))
      BY <2>2, TruthCases
    <3>4. k.type = "Universal" => (Of(k, scope) <=> \A d \in Domain : Of(a, In(d)))
      BY <1>4, <1>8, TruthCases DEF a
    <3>5. k.type = "Existential" => (Of(k, scope) <=> \E d \in Domain : Of(a, In(d)))
      BY <1>4, <1>8, TruthCases DEF a
    <3> HIDE DEF Of, In
    <3> QED BY <1>4, <1>8, <2>2, <2>3, <3>1, <3>2, <3>3, <3>4, <3>5 DEF Quantifiers
  <2> QED BY <1>6, <2>4 DEF Same
<1>9. CASE g.type = "Negation" /\ k.type \notin {"Or", "And"} \cup Quantifiers
  <2>1. Pushed(f) = g
    BY <1>4, <1>9, PushNotCases DEF Quantifiers, k
  <2> QED BY <1>2, <2>1
<1> QED BY <1>2, <1>3, <1>7, <1>8, <1>9

(* What demorgans pushes down is a record of three fields, and an atom     *)
(* only if nothing is pushed.                                              *)
LEMMA PushedShape ==
  ASSUME NEW f \in Records
  PROVE  LET h == Pushed(f)
         IN /\ h = Semantic(h.type, h.name, h.kids)
            /\ h.type \notin Logical => h = removeExtraNots[f]
<1> DEFINE g == removeExtraNots[f]
           k == g.kids[1]
<1>1. g = Semantic(g.type, g.name, g.kids)
  BY ExtraNotsGone, Kids
<1>2. \/ Pushed(f) = g
      \/ g.type = "Negation" /\ Pushed(f) = PushNot(g)
  BY DEF Pushed
<1> HIDE DEF g
<1>3. \/ PushNot(g) = g
      \/ PushNot(g) = Join("And", Not(k.kids[1]), Not(k.kids[2]))
      \/ PushNot(g) = Join("Or", Not(k.kids[1]), Not(k.kids[2]))
      \/ PushNot(g) = Bind("Existential", k.name, Not(k.kids[1]))
      \/ PushNot(g) = Bind("Universal", k.name, Not(k.kids[1]))
  BY PushNotCases
<1>4. CASE Pushed(f) = g
  BY <1>1, <1>4 DEF g
<1>5. CASE Pushed(f) # g
  <2>1. \/ Pushed(f) = Join("And", Not(k.kids[1]), Not(k.kids[2]))
        \/ Pushed(f) = Join("Or", Not(k.kids[1]), Not(k.kids[2]))
        \/ Pushed(f) = Bind("Existential", k.name, Not(k.kids[1]))
        \/ Pushed(f) = Bind("Universal", k.name, Not(k.kids[1]))
    BY <1>2, <1>3, <1>5
  <2> HIDE DEF k
  <2> QED BY <2>1 DEF Join, Bind, Semantic, Logical, Quantifiers
<1> QED BY <1>4, <1>5

(* demorgans keeps the truth.                                              *)
LEMMA DemorgansSame ==
  ASSUME NEW I, NEW free, NEW f0 \in Records, demorgans[f0] \in Records
  PROVE  Same(I, free, f0, demorgans[f0])
<1> DEFINE op == demorgans
           T == {f \in Records : op[f] \in Records => Same(I, free, f, op[f])}
<1>1. ASSUME NEW f \in Records,
             \A y \in Records : Height(y) < Height(f) => y \in T
      PROVE  f \in T
  <2> SUFFICES ASSUME op[f] \in Records PROVE Same(I, free, f, op[f])
    OBVIOUS
  <2> DEFINE h == Pushed(f)
             r == op[f]
  <2>1. \A t \in Records : op[t] = OnBranches(op, Pushed(t))
    BY DemorgansDef DEF DemorgansBody
  <2> HIDE DEF op
  <2>2. /\ r.type = h.type /\ r.name = h.name /\ DOMAIN r.kids = DOMAIN h.kids
        /\ h.type \in Branching => \A i \in DOMAIN h.kids : r.kids[i] = op[h.kids[i]]
    BY <2>1, BranchFacts, PushedShape
  <2>3. CASE h.type \in Logical
    <3>1. \A i \in DOMAIN h.kids : r.kids[i] = op[h.kids[i]] /\ r.kids[i] \in Records
      BY <2>2, <2>3, Kids, NotBranching
    <3>2. \A i \in DOMAIN h.kids : Same(I, free, h.kids[i], r.kids[i])
      BY <1>1, <3>1, PushedKids
    <3> HIDE DEF h, r
    <3> QED BY <2>2, <2>3, <3>2, PushedSame DEF h, r
  <2>4. CASE h.type \notin Logical
    <3>1. ASSUME NEW t \in Records, t.type \notin Branching PROVE op[t] = t
      <4>1. t.type # "Negation"
        BY <3>1 DEF Branching
      <4>2. removeExtraNots[t] = t
        BY <4>1, ExtraNotsDef DEF ExtraNotsBody
      <4>3. Pushed(t) = t
        BY <4>1, <4>2 DEF Pushed
      <4> QED BY <2>1, <3>1, <4>3 DEF OnBranches
    <3>2. h = removeExtraNots[f] /\ h \in Records
      BY <2>4, PushedShape, ExtraNotsGone
    <3>3. r = h
      BY <2>1, <2>4, <3>1, <3>2, AtomsStay
    <3> QED BY <3>2, <3>3, ExtraNotsSame
  <2> QED BY <2>3, <2>4
<1> HIDE DEF T
<1>2. Records \subseteq T
  BY <1>1, HeightInduction
<1> QED BY <1>2 DEF T

(* What distributionOrsOverAnds lifts says the same, whatever r makes of   *)
(* the kids afterwards.                                                    *)
LEMMA LiftedSame ==
  ASSUME NEW I, NEW free, NEW f \in Records, NEW r \in Records, f.type \in Logical,
         LET g == Lift(f, "Or", "And", "Or")
         IN /\ r.type = g.type /\ r.name = g.name
            /\ \A i \in DOMAIN g.kids : Same(I, free, g.kids[i], r.kids[i])
  PROVE  Same(I, free, f, r)
<1> DEFINE g == Lift(f, "Or", "And", "Or")
           x == f.kids[1]
           y == f.kids[2]
           Of(h, scope) == Says(I, free, h, scope)
<1>1. CASE f.type # "Or" \/ (x.type # "And" /\ y.type # "And")
  <2>1. g = f
    BY <1>1, LiftOrCases
  <2> QED BY <2>1, SameKids
<1>2. \A i \in DOMAIN g.kids : g.kids[i] \in Records
  BY LiftedOrKids, NotBranching
<1>3. ASSUME f.type = "Or"
      PROVE  /\ x \in Records /\ y \in Records
             /\ \A scope \in Valuations : Of(f, scope) <=> Of(x, scope) \/ Of(y, scope)
  BY <1>3, Operands, TruthCases DEF Binary
<1>4. ASSUME NEW p \in Records, p.type = "And", NEW scope \in Valuations
      PROVE  Of(p, scope) <=> Of(p.kids[1], scope) /\ Of(p.kids[2], scope)
  BY <1>4, TruthCases
<1>5. ASSUME NEW l, NEW m, g = Join("And", l, m), NEW scope \in Valuations
      PROVE  /\ l \in Records /\ m \in Records
             /\ Of(r, scope) <=> Of(l, scope) /\ Of(m, scope)
  <2>1. g.type = "And" /\ g.kids = <<l, m>>
    BY <1>5 DEF Join, Semantic
  <2> HIDE DEF g
  <2>2. l \in Records /\ m \in Records
    BY <1>2, <2>1
  <2>3. Same(I, free, l, r.kids[1]) /\ Same(I, free, m, r.kids[2]) /\ r.type = "And"
    BY <2>1 DEF g
  <2> QED BY <1>4, <2>2, <2>3 DEF Same
<1> HIDE DEF g, Of
<1>6. CASE f.type = "Or" /\ x.type = "And"
  <2> DEFINE l == Join("Or", x.kids[1], y)
             m == Join("Or", x.kids[2], y)
  <2>1. g = Join("And", l, m)
    BY <1>6, LiftOrCases DEF g
  <2>2. ASSUME NEW scope \in Valuations PROVE Of(f, scope) <=> Of(r, scope)
    <3>1. l \in Records /\ m \in Records /\ (Of(r, scope) <=> Of(l, scope) /\ Of(m, scope))
      BY <1>5, <2>1
    <3>2. /\ Of(l, scope) <=> Of(x.kids[1], scope) \/ Of(y, scope)
          /\ Of(m, scope) <=> Of(x.kids[2], scope) \/ Of(y, scope)
      BY <3>1, SaysJoin DEF Of
    <3> HIDE DEF l, m
    <3> QED BY <1>3, <1>4, <1>6, <3>1, <3>2
  <2> QED BY <2>2 DEF Same, Of
<1>7. CASE f.type = "Or" /\ x.type # "And" /\ y.type = "And"
  <2> DEFINE l == Join("Or", x, y.kids[1])
             m == Join("Or", x, y.kids[2])
  <2>1. g = Join("And", l, m)
    BY <1>7, LiftOrCases DEF g
  <2>2. ASSUME NEW scope \in Valuations PROVE Of(f, scope) <=> Of(r, scope)
    <3>1. l \in Records /\ m \in Records /\ (Of(r, scope) <=> Of(l, scope) /\ Of(m, scope))
      BY <1>5, <2>1
    <3>2. /\ Of(l, scope) <=> Of(x, scope) \/ Of(y.kids[1], scope)
          /\ Of(m, scope) <=> Of(x, scope) \/ Of(y.kids[2], scope)
      BY <3>1, SaysJoin DEF Of
    <3> HIDE DEF l, m
    <3> QED BY <1>3, <1>4, <1>7, <3>1, <3>2
  <2> QED BY <2>2 DEF Same, Of
<1> QED BY <1>1, <1>6, <1>7

(* A pass of distributionOrsOverAnds keeps the truth.                      *)
LEMMA OrsSame ==
  ASSUME NEW I, NEW free, NEW f0 \in Records, distributeOrs[f0] \in Records
  PROVE  Same(I, free, f0, distributeOrs[f0])
<1> DEFINE op == distributeOrs
           T == {f \in Records : op[f] \in Records => Same(I, free, f, op[f])}
<1>1. ASSUME NEW f \in Records,
             \A y \in Records : SizeOf(y) < SizeOf(f) => y \in T
      PROVE  f \in T
  <2> SUFFICES ASSUME op[f] \in Records PROVE Same(I, free, f, op[f])
    OBVIOUS
  <2> DEFINE h == Lift(f, "Or", "And", "Or")
             r == op[f]
  <2>1. \A t \in Records : op[t] = OnBranches(op, Lift(t, "Or", "And", "Or"))
    BY DistributeOrsDef DEF DistributeOrsBody
  <2> HIDE DEF op
  <2>2. CASE f.type \in Logical
    <3>1. h = Semantic(h.type, h.name, h.kids)
      <4>1. h = f \/ \E a, b : h = Join("And", a, b)
        BY LiftOrCases
      <4>2. f = Semantic(f.type, f.name, f.kids)
        BY Kids
      <4> HIDE DEF h
      <4> QED BY <4>1, <4>2 DEF Join, Semantic
    <3>2. h.type \in Branching /\ \A i \in DOMAIN h.kids :
                                    h.kids[i] \in Records /\ SizeOf(h.kids[i]) < SizeOf(f)
      BY <2>2, LiftedOrKids, NotBranching DEF SizeOf
    <3>3. /\ r.type = h.type /\ r.name = h.name /\ DOMAIN r.kids = DOMAIN h.kids
          /\ \A i \in DOMAIN h.kids : r.kids[i] = op[h.kids[i]]
      BY <2>1, <3>1, <3>2, BranchFacts
    <3>4. \A i \in DOMAIN h.kids : Same(I, free, h.kids[i], r.kids[i])
      BY <1>1, <3>2, <3>3, Kids
    <3> HIDE DEF h, r
    <3> QED BY <2>2, <3>3, <3>4, LiftedSame DEF h, r
  <2>3. CASE f.type \notin Logical
    <3>1. \A t \in Records : t.type \notin Logical => op[t] = OnBranches(op, t)
      BY <2>1, LiftOrCases DEF Logical
    <3>2. \A t \in Records : t.type \notin Branching => op[t] = t
      BY <3>1, NotBranching DEF OnBranches
    <3>3. r = f
      BY <2>3, <3>1, <3>2, AtomsStay
    <3> QED BY <3>3 DEF Same
  <2> QED BY <2>2, <2>3
<1> HIDE DEF T
<1>2. Records \subseteq T
  BY <1>1, SizeInduction
<1> QED BY <1>2 DEF T
-----------------------------------------------------------------------------
(***************************************************************************)
(* What a formula says: truth depends on its symbols and free variables,   *)
(* and the calls that keep every quantifier keep it.                       *)
(***************************************************************************)

(* Truth depends on the symbols and the free variables of a formula only.  *)

IsList(pairs) == DOMAIN pairs = 1 .. Len(pairs) /\ Len(pairs) \in Nat

IsFirst(pairs, key, i) ==
  /\ i \in DOMAIN pairs
  /\ pairs[i][1] = key
  /\ \A j \in 1 .. i - 1 : pairs[j][1] # key

(* Where the first pair of key is, its value is found.                     *)
LEMMA FindFirst ==
  ASSUME NEW pairs, IsList(pairs), NEW key, NEW default, NEW i, IsFirst(pairs, key, i)
  PROVE  Find(pairs, key, default) = pairs[i][2]
<1> USE DEF IsList, IsFirst
<1> DEFINE P(k) == /\ pairs[k][1] = key
                   /\ \A j \in 1 .. k - 1 : pairs[j][1] # key
           c == CHOOSE k \in DOMAIN pairs : P(k)
<1>1. Find(pairs, key, default) = pairs[c][2]
  BY DEF Find
<1>2. P(i)
  OBVIOUS
<1> HIDE DEF P
<1>3. c \in DOMAIN pairs /\ P(c)
  BY <1>2
<1> HIDE DEF c
<1>4. c \in Nat /\ i \in Nat /\ 1 <= c /\ 1 <= i
  BY <1>3
<1>5. ~ (c < i) /\ ~ (i < c)
  <2>1. c < i => c \in 1 .. i - 1
    BY <1>4
  <2>2. i < c => i \in 1 .. c - 1
    BY <1>4
  <2> QED BY <1>2, <1>3, <2>1, <2>2 DEF P
<1>6. c = i
  BY <1>4, <1>5
<1> QED BY <1>1, <1>6

(* Such a pair there is.                                                   *)
LEMMA FirstOf ==
  ASSUME NEW pairs, IsList(pairs), NEW key, \E i \in DOMAIN pairs : pairs[i][1] = key
  PROVE  \E i \in DOMAIN pairs : IsFirst(pairs, key, i)
<1> USE DEF IsList, IsFirst
<1> DEFINE T == {i \in DOMAIN pairs : pairs[i][1] = key}
<1>1. T \in SUBSET Nat /\ T # {}
  OBVIOUS
<1>2. PICK i \in T : \A j \in T : i <= j
  <2> HIDE DEF T
  <2> QED BY <1>1, LeastNumber
<1>3. ASSUME NEW j \in 1 .. i - 1 PROVE pairs[j][1] # key
  <2>1. i \in Nat
    BY <1>1
  <2>2. ~ (i <= j) /\ j \in DOMAIN pairs
    BY <2>1
  <2>3. j \notin T
    BY <1>2, <2>2
  <2> QED BY <2>2, <2>3 DEF T
<1> QED BY <1>2, <1>3

(* A pair put before, and one put after, the others.                       *)
LEMMA FindBefore ==
  ASSUME NEW S, NEW pairs \in Seq(S), NEW k, NEW v, <<k, v>> \in S, NEW key, NEW default
  PROVE  Find(<<<<k, v>>>> \o pairs, key, default) =
           IF key = k THEN v ELSE Find(pairs, key, default)
<1> DEFINE all == <<<<k, v>>>> \o pairs
<1>1. /\ all \in Seq(S) /\ IsList(all) /\ Len(all) = Len(pairs) + 1
      /\ Len(pairs) \in Nat /\ IsList(pairs)
  BY DEF IsList
<1>2. all[1] = <<k, v>> /\ \A i \in DOMAIN pairs : all[i + 1] = pairs[i]
  OBVIOUS
<1>3. \A i \in DOMAIN all : i = 1 \/ (i - 1 \in DOMAIN pairs /\ all[i] = pairs[i - 1])
  OBVIOUS
<1> HIDE DEF all
<1>4. CASE key = k
  <2>1. IsFirst(all, key, 1)
    BY <1>1, <1>2, <1>4 DEF IsFirst, IsList
  <2>2. Find(all, key, default) = all[1][2]
    BY <1>1, <2>1, FindFirst
  <2> QED BY <1>2, <1>4, <2>2 DEF all
<1>5. CASE key # k /\ \E i \in DOMAIN pairs : pairs[i][1] = key
  <2>1. PICK i \in DOMAIN pairs : IsFirst(pairs, key, i)
    BY <1>1, <1>5, FirstOf
  <2>2. Find(pairs, key, default) = pairs[i][2]
    BY <1>1, <2>1, FindFirst
  <2>3. i + 1 \in DOMAIN all /\ all[i + 1] = pairs[i] /\ i \in Nat
    BY <1>1, <1>2 DEF IsList
  <2>4. ASSUME NEW j \in 1 .. (i + 1) - 1 PROVE all[j][1] # key
    <3>1. j \in DOMAIN all
      BY <1>1, <2>3 DEF IsList
    <3>2. j = 1 \/ (j - 1 \in 1 .. i - 1 /\ all[j] = pairs[j - 1])
      BY <1>3, <2>3, <3>1
    <3> QED BY <1>2, <1>5, <2>1, <3>2 DEF IsFirst
  <2>5. IsFirst(all, key, i + 1)
    BY <2>1, <2>3, <2>4 DEF IsFirst
  <2>6. Find(all, key, default) = all[i + 1][2]
    BY <1>1, <2>5, FindFirst
  <2> QED BY <1>5, <2>2, <2>3, <2>6 DEF all
<1>6. CASE key # k /\ ~ (\E i \in DOMAIN pairs : pairs[i][1] = key)
  <2>1. ~ \E i \in DOMAIN all : all[i][1] = key
    BY <1>2, <1>3, <1>6
  <2>2. Find(all, key, default) = default /\ Find(pairs, key, default) = default
    BY <1>6, <2>1 DEF Find
  <2> QED BY <1>6, <2>2 DEF all
<1> QED BY <1>4, <1>5, <1>6

(* A variable that has got a value.                                        *)
LEMMA FindBound ==
  ASSUME NEW v \in AnyName, NEW d \in Domain, NEW scope \in Valuations, NEW x, NEW default
  PROVE  Find(<<<<v, d>>>> \o scope, x, default) =
           IF x = v THEN d ELSE Find(scope, x, default)
<1> DEFINE S == AnyName \X Domain
<1>1. scope \in Seq(S) /\ <<v, d>> \in S
  BY DEF Valuations
<1> HIDE DEF S
<1> QED BY <1>1, FindBefore

(* A pair that is appended is found after all others.                      *)
LEMMA FindAfter ==
  ASSUME NEW S, NEW pairs \in Seq(S), NEW k, NEW v, <<k, v>> \in S, NEW key, NEW default
  PROVE  Find(Append(pairs, <<k, v>>), key, default) =
           IF \E i \in DOMAIN pairs : pairs[i][1] = key THEN Find(pairs, key, default)
           ELSE IF key = k THEN v ELSE default
<1> DEFINE all == Append(pairs, <<k, v>>)
<1>1. /\ all \in Seq(S) /\ IsList(all) /\ Len(all) = Len(pairs) + 1
      /\ Len(pairs) \in Nat /\ IsList(pairs)
  BY DEF IsList
<1>2. /\ all[Len(pairs) + 1] = <<k, v>> /\ Len(pairs) + 1 \in DOMAIN all
      /\ \A i \in DOMAIN pairs : all[i] = pairs[i] /\ i \in DOMAIN all
  OBVIOUS
<1>3. \A i \in DOMAIN all : i = Len(pairs) + 1 \/ i \in DOMAIN pairs
  OBVIOUS
<1> HIDE DEF all
<1>4. CASE \E i \in DOMAIN pairs : pairs[i][1] = key
  <2>1. PICK i \in DOMAIN pairs : IsFirst(pairs, key, i)
    BY <1>1, <1>4, FirstOf
  <2>2. Find(pairs, key, default) = pairs[i][2]
    BY <1>1, <2>1, FindFirst
  <2>3. \A j \in 1 .. i - 1 : j \in DOMAIN pairs
    BY <1>1 DEF IsList
  <2>4. IsFirst(all, key, i)
    BY <1>2, <2>1, <2>3 DEF IsFirst
  <2>5. Find(all, key, default) = all[i][2]
    BY <1>1, <2>4, FindFirst
  <2> QED BY <1>2, <1>4, <2>2, <2>5 DEF all
<1>5. CASE key = k /\ ~ \E i \in DOMAIN pairs : pairs[i][1] = key
  <2>1. IsFirst(all, key, Len(pairs) + 1)
    BY <1>1, <1>2, <1>5 DEF IsFirst, IsList
  <2>2. Find(all, key, default) = all[Len(pairs) + 1][2]
    BY <1>1, <2>1, FindFirst
  <2> QED BY <1>2, <1>5, <2>2 DEF all
<1>6. CASE key # k /\ ~ \E i \in DOMAIN pairs : pairs[i][1] = key
  <2>1. ~ \E i \in DOMAIN all : all[i][1] = key
    BY <1>2, <1>3, <1>6
  <2>2. Find(all, key, default) = default
    BY <2>1, Zenon DEF Find
  <2> QED BY <1>6, <2>2 DEF all
<1> QED BY <1>4, <1>5, <1>6

(* Value satisfies its definition.                                         *)
LEMMA ValueDef ==
  ASSUME NEW I, NEW free
  PROVE  Value(I, free) =
           [t \in Records |-> ValueBody(I, free, Value(I, free), t)]
<1>1. ASSUME NEW f \in Records, NEW g, NEW h, Alike(g, h, f), NEW J, NEW fr
      PROVE  ValueBody(J, fr, g, f) = ValueBody(J, fr, h, f)
  <2>1. \A i \in DOMAIN f.kids : g[f.kids[i]] = h[f.kids[i]]
    BY <1>1, AlikeBranches
  <2>2. ASSUME NEW scope \in Valuations
        PROVE  [i \in DOMAIN f.kids |-> g[f.kids[i]][scope]]
                 = [i \in DOMAIN f.kids |-> h[f.kids[i]][scope]]
    BY <2>1
  <2> QED BY <2>2, Zenon DEF ValueBody
<1>2. \A g, f : Body("Value", <<I, free>>, g, f) = ValueBody(I, free, g, f)
  BY DEF Body
<1>3. \E g : g = [f \in Records |-> ValueBody(I, free, g, f)]
  BY <1>1, <1>2, RecordFunction
<1> QED BY <1>3, Zenon DEF Value, ValueBody

(* FreeVariables satisfies its definition.                                 *)
LEMMA FreeDef == FreeVariables = [f \in Records |-> FreeBody(FreeVariables, f)]
<1>1. ASSUME NEW f \in Records, NEW g, NEW h, Alike(g, h, f)
      PROVE  FreeBody(g, f) = FreeBody(h, f)
  <2>1. {g[f.kids[i]] : i \in DOMAIN f.kids} = {h[f.kids[i]] : i \in DOMAIN f.kids}
    BY <1>1, AlikeBranches
  <2> QED BY <2>1 DEF FreeBody
<1>2. \A g, f : Body("FreeVariables", 0, g, f) = FreeBody(g, f)
  BY DEF Body
<1>3. \E g : g = [f \in Records |-> FreeBody(g, f)]
  BY <1>1, <1>2, RecordFunction
<1> QED BY <1>3 DEF FreeVariables, FreeBody

(* What the free variables of a record are.                                *)
LEMMA FreeCases ==
  ASSUME NEW f \in Records
  PROVE  /\ f.type = "Variable" => FreeVariables[f] = {f.name}
         /\ f.type \notin Quantifiers \cup {"Variable"} =>
              FreeVariables[f] = UNION {FreeVariables[f.kids[i]] : i \in DOMAIN f.kids}
         /\ f.type \in Quantifiers =>
              FreeVariables[f] = FreeVariables[f.kids[1]] \ {f.name}
<1> DEFINE below == UNION {FreeVariables[f.kids[i]] : i \in DOMAIN f.kids}
<1>1. FreeVariables[f] = IF f.type = "Variable" THEN {f.name}
                         ELSE below \ (IF f.type \in Quantifiers THEN {f.name} ELSE {})
  <2>1. FreeVariables[f] = FreeBody(FreeVariables, f)
    BY FreeDef
  <2> QED BY <2>1 DEF FreeBody
<1>2. f.type \in Quantifiers => below = FreeVariables[f.kids[1]]
  BY Operands
<1>3. f.type \in Quantifiers => f.type # "Variable"
  BY DEF Quantifiers
<1> HIDE DEF Quantifiers, below
<1>4. CASE f.type = "Variable"
  BY <1>1, <1>3, <1>4
<1>5. CASE f.type \in Quantifiers
  <2>1. FreeVariables[f] = below \ {f.name}
    BY <1>1, <1>3, <1>5
  <2> QED BY <1>2, <1>3, <1>5, <2>1
<1>6. CASE f.type \notin Quantifiers \cup {"Variable"}
  <2>1. FreeVariables[f] = below
    BY <1>1, <1>6
  <2> QED BY <1>6, <2>1 DEF below
<1> QED BY <1>3, <1>4, <1>5, <1>6

(* The symbols of a record are its own and those of its kids.              *)
LEMMA SymbolsCases ==
  ASSUME NEW f \in Records
  PROVE  /\ f.type \in Predicates \cup Functions_ => Symbol(f) \in Symbols(f)
         /\ \A i \in DOMAIN f.kids : Symbols(f.kids[i]) \subseteq Symbols(f)
<1>1. Parts[f] = {f} \cup UNION {Parts[f.kids[i]] : i \in DOMAIN f.kids}
  BY PartsDef
<1> QED BY <1>1 DEF Symbols

(* What a term or an atom stands for.                                      *)
LEMMA VariableValue ==
  ASSUME NEW I, NEW free, NEW t \in Records, NEW scope \in Valuations,
         t.type = "Variable"
  PROVE  Value(I, free)[t][scope] = Find(scope, t.name, free[t.name])
<1> DEFINE value == Value(I, free)
<1>1. value[t] = ValueBody(I, free, value, t)
  BY ValueDef
<1> HIDE DEF value
<1>2. value[t][scope] = ValueBody(I, free, value, t)[scope]
  BY <1>1
<1> QED BY <1>2 DEF ValueBody, value

Arguments(I, free, t, scope) ==
  [i \in DOMAIN t.kids |-> Value(I, free)[t.kids[i]][scope]]

(* The value of a term that is no variable.                                *)
LEMMA FunctionValue ==
  ASSUME NEW I, NEW free, NEW t \in Records, NEW scope \in Valuations,
         t.type # "Variable"
  PROVE  Value(I, free)[t][scope] = I[Symbol(t)][Arguments(I, free, t, scope)]
<1> DEFINE value == Value(I, free)
<1>1. value[t] = ValueBody(I, free, value, t)
  BY ValueDef
<1> HIDE DEF value
<1>2. value[t][scope] = ValueBody(I, free, value, t)[scope]
  BY <1>1
<1> QED BY <1>2 DEF ValueBody, Arguments, value

(* What the other formulas say.                                            *)
LEMMA PredicateSays ==
  ASSUME NEW I, NEW free, NEW f \in Records, NEW scope \in Valuations,
         f.type \in Predicates
  PROVE  Says(I, free, f, scope) <=> Value(I, free)[f][scope] = TRUE
<1> DEFINE truth == Truth(I, free)
           v == Value(I, free)
<1>1. truth[f] = TruthBody(I, free, truth, f)
  BY TruthDef
<1> HIDE DEF truth, v
<1>2. truth[f][scope] = TruthBody(I, free, truth, f)[scope]
  BY <1>1
<1> QED BY <1>2 DEF TruthBody, Predicates, Says, truth, v

(* What an equality says.                                                  *)
LEMMA EqualSays ==
  ASSUME NEW I, NEW free, NEW f \in Records, NEW scope \in Valuations,
         f.type = "Equal"
  PROVE  Says(I, free, f, scope) <=>
           Value(I, free)[f.kids[1]][scope] = Value(I, free)[f.kids[2]][scope]
<1> DEFINE truth == Truth(I, free)
           v == Value(I, free)
<1>1. truth[f] = TruthBody(I, free, truth, f)
  BY TruthDef
<1> HIDE DEF truth, v
<1>2. truth[f][scope] = TruthBody(I, free, truth, f)[scope]
  BY <1>1
<1> QED BY <1>2 DEF TruthBody, Predicates, Says, truth, v

(* A record without a truth of its own is false, unless it is the constant *)
(* true.                                                                   *)
LEMMA OtherSays ==
  ASSUME NEW I, NEW free, NEW f \in Records, NEW scope \in Valuations,
         f.type \notin Logical \cup Predicates \cup {"Equal"}
  PROVE  Says(I, free, f, scope) <=>
           f.type = "LogicalConstant" /\ f.name = <<"true", 0>>
<1> DEFINE truth == Truth(I, free)
           v == Value(I, free)
<1>1. truth[f] = TruthBody(I, free, truth, f)
  BY TruthDef
<1> HIDE DEF truth, v
<1>2. truth[f][scope] = TruthBody(I, free, truth, f)[scope]
  BY <1>1
<1>3. CASE f.type = "LogicalConstant"
  BY <1>2, <1>3 DEF TruthBody, Predicates, Says, truth, v
<1>4. CASE f.type # "LogicalConstant"
  BY <1>2, <1>4 DEF TruthBody, Predicates, Says, truth, v, Logical, Quantifiers
<1> QED BY <1>3, <1>4

(* I and J agree on the symbols of f, two scopes on its free variables.    *)
Agree(I, J, f) == \A y \in Symbols(f) : I[y] = J[y]

Alike_(s, fr, t, gr, f) ==
  \A x \in FreeVariables[f] : Find(s, x, fr[x]) = Find(t, x, gr[x])

(* The kids of a record that binds nothing.                                *)
LEMMA AgreeBelow ==
  ASSUME NEW I, NEW J, NEW s, NEW fr, NEW t, NEW gr, NEW f \in Records,
         Agree(I, J, f), NEW i \in DOMAIN f.kids
  PROVE  /\ Agree(I, J, f.kids[i])
         /\ f.type \notin Quantifiers /\ Alike_(s, fr, t, gr, f) =>
              Alike_(s, fr, t, gr, f.kids[i])
<1>1. Agree(I, J, f.kids[i])
  BY SymbolsCases DEF Agree
<1>2. ASSUME f.type \notin Quantifiers, Alike_(s, fr, t, gr, f)
      PROVE  Alike_(s, fr, t, gr, f.kids[i])
  <2>1. f.type # "Variable"
    BY Kids DEF Shaped, TermTypes
  <2>2. FreeVariables[f.kids[i]] \subseteq FreeVariables[f]
    BY <1>2, <2>1, FreeCases
  <2> QED BY <1>2, <2>2 DEF Alike_
<1> QED BY <1>1, <1>2

(* What a symbol stands for depends on what its arguments do.              *)
LEMMA ArgumentsDecide ==
  ASSUME NEW I, NEW J, NEW fr, NEW gr, NEW s \in Valuations, NEW t \in Valuations,
         NEW f \in Records, f.type \in Predicates \cup Functions_, Agree(I, J, f),
         \A i \in DOMAIN f.kids :
           Value(I, fr)[f.kids[i]][s] = Value(J, gr)[f.kids[i]][t]
  PROVE  Value(I, fr)[f][s] = Value(J, gr)[f][t]
<1> DEFINE a == Arguments(I, fr, f, s)
           b == Arguments(J, gr, f, t)
<1>1. a = b
  BY DEF Arguments
<1>2. f.type # "Variable"
  BY DEF Predicates, Functions_
<1>3. Value(I, fr)[f][s] = I[Symbol(f)][a] /\ Value(J, gr)[f][t] = J[Symbol(f)][b]
  BY <1>2, FunctionValue
<1>4. I[Symbol(f)] = J[Symbol(f)]
  BY SymbolsCases DEF Agree
<1> HIDE DEF a, b
<1> QED BY <1>1, <1>3, <1>4

(* What a term stands for depends on its symbols and variables only.       *)
LEMMA TermDepends ==
  ASSUME NEW I, NEW J, NEW fr, NEW gr, NEW s \in Valuations, NEW t \in Valuations,
         NEW f0 \in Records, f0.type \in TermTypes, Agree(I, J, f0),
         Alike_(s, fr, t, gr, f0)
  PROVE  Value(I, fr)[f0][s] = Value(J, gr)[f0][t]
<1> DEFINE T == {f \in Records :
                   f.type \in TermTypes /\ Agree(I, J, f) /\ Alike_(s, fr, t, gr, f)
                     => Value(I, fr)[f][s] = Value(J, gr)[f][t]}
<1>1. ASSUME NEW f \in Records, \A i \in DOMAIN f.kids : f.kids[i] \in T
      PROVE  f \in T
  <2> SUFFICES ASSUME f.type \in TermTypes, Agree(I, J, f), Alike_(s, fr, t, gr, f)
               PROVE  Value(I, fr)[f][s] = Value(J, gr)[f][t]
    OBVIOUS
  <2>1. CASE f.type = "Variable"
    <3>1. Find(s, f.name, fr[f.name]) = Find(t, f.name, gr[f.name])
      BY <2>1, FreeCases DEF Alike_
    <3>2. Value(I, fr)[f][s] = Find(s, f.name, fr[f.name])
      BY <2>1, VariableValue
    <3>3. Value(J, gr)[f][t] = Find(t, f.name, gr[f.name])
      BY <2>1, VariableValue
    <3> QED BY <3>1, <3>2, <3>3
  <2>2. CASE f.type # "Variable"
    <3>1. f.type \in Functions_ /\ f.type \notin Quantifiers /\ f.type \notin Logical
      BY <2>2 DEF Functions_, TermTypes, Quantifiers, Logical
    <3>2. ASSUME NEW i \in DOMAIN f.kids
          PROVE  Value(I, fr)[f.kids[i]][s] = Value(J, gr)[f.kids[i]][t]
      <4>1. f.kids[i].type \in TermTypes
        BY <3>1, Kids DEF Shaped
      <4>2. Agree(I, J, f.kids[i]) /\ Alike_(s, fr, t, gr, f.kids[i])
        BY <3>1, AgreeBelow
      <4> QED BY <1>1, <4>1, <4>2
    <3> QED BY <3>1, <3>2, ArgumentsDecide
  <2> QED BY <2>1, <2>2
<1> HIDE DEF T
<1>2. Records \subseteq T
  BY <1>1, RecordInduction
<1> QED BY <1>2 DEF T

(* So does what an atom says.                                              *)
LEMMA AtomDepends ==
  ASSUME NEW I, NEW J, NEW fr, NEW gr, NEW s \in Valuations, NEW t \in Valuations,
         NEW f \in Records, f.type \notin Logical, Agree(I, J, f),
         \A i \in DOMAIN f.kids :
           Value(I, fr)[f.kids[i]][s] = Value(J, gr)[f.kids[i]][t]
  PROVE  Says(I, fr, f, s) <=> Says(J, gr, f, t)
<1>1. CASE f.type \in Predicates
  <2>1. Value(I, fr)[f][s] = Value(J, gr)[f][t]
    BY <1>1, ArgumentsDecide
  <2>2. Says(I, fr, f, s) <=> Value(I, fr)[f][s] = TRUE
    BY <1>1, PredicateSays
  <2>3. Says(J, gr, f, t) <=> Value(J, gr)[f][t] = TRUE
    BY <1>1, PredicateSays
  <2> QED BY <2>1, <2>2, <2>3
<1>2. CASE f.type = "Equal"
  <2>1. 1 \in DOMAIN f.kids /\ 2 \in DOMAIN f.kids
    BY <1>2, Operands DEF Binary
  <2>2. /\ Value(I, fr)[f.kids[1]][s] = Value(J, gr)[f.kids[1]][t]
        /\ Value(I, fr)[f.kids[2]][s] = Value(J, gr)[f.kids[2]][t]
    BY <2>1
  <2>3. Says(I, fr, f, s) <=>
          Value(I, fr)[f.kids[1]][s] = Value(I, fr)[f.kids[2]][s]
    BY <1>2, EqualSays
  <2>4. Says(J, gr, f, t) <=>
          Value(J, gr)[f.kids[1]][t] = Value(J, gr)[f.kids[2]][t]
    BY <1>2, EqualSays
  <2> QED BY <2>2, <2>3, <2>4
<1>3. CASE f.type \notin Predicates \cup {"Equal"}
  <2>1. f.type \notin Logical \cup Predicates \cup {"Equal"}
    BY <1>3
  <2>2. Says(I, fr, f, s) <=> f.type = "LogicalConstant" /\ f.name = <<"true", 0>>
    BY <2>1, OtherSays
  <2>3. Says(J, gr, f, t) <=> f.type = "LogicalConstant" /\ f.name = <<"true", 0>>
    BY <2>1, OtherSays
  <2> QED BY <2>2, <2>3
<1> QED BY <1>1, <1>2, <1>3

(* And so does what any formula says.                                      *)
LEMMA TruthDepends ==
  ASSUME NEW I, NEW J, NEW fr, NEW gr, NEW s0 \in Valuations, NEW t0 \in Valuations,
         NEW f0 \in Records, Agree(I, J, f0), Alike_(s0, fr, t0, gr, f0)
  PROVE  Says(I, fr, f0, s0) <=> Says(J, gr, f0, t0)
<1> DEFINE T == {f \in Records : Agree(I, J, f) =>
                   \A s, t \in Valuations : Alike_(s, fr, t, gr, f) =>
                     (Says(I, fr, f, s) <=> Says(J, gr, f, t))}
<1>1. ASSUME NEW f \in Records, \A i \in DOMAIN f.kids : f.kids[i] \in T
      PROVE  f \in T
  <2> SUFFICES ASSUME Agree(I, J, f), NEW s \in Valuations, NEW t \in Valuations,
                      Alike_(s, fr, t, gr, f)
               PROVE  Says(I, fr, f, s) <=> Says(J, gr, f, t)
    OBVIOUS
  <2>1. ASSUME NEW i \in DOMAIN f.kids, NEW s1 \in Valuations, NEW t1 \in Valuations,
               Alike_(s1, fr, t1, gr, f.kids[i])
        PROVE  Says(I, fr, f.kids[i], s1) <=> Says(J, gr, f.kids[i], t1)
    BY <1>1, <2>1, AgreeBelow
  <2>2. \A i \in DOMAIN f.kids : f.kids[i] \in Records
    BY Kids
  <2> HIDE DEF T
  <2>3. CASE f.type \in Quantifiers
    <3>1. 1 \in DOMAIN f.kids /\ f.name \in AnyName
      BY <2>3, Operands, Kids
    <3>2. ASSUME NEW d \in Domain
          PROVE  /\ <<<<f.name, d>>>> \o s \in Valuations
                 /\ <<<<f.name, d>>>> \o t \in Valuations
                 /\ Alike_(<<<<f.name, d>>>> \o s, fr, <<<<f.name, d>>>> \o t, gr, f.kids[1])
      <4>1. <<f.name, d>> \in AnyName \X Domain
        BY <3>1
      <4>2. ASSUME NEW x \in FreeVariables[f.kids[1]]
            PROVE  Find(<<<<f.name, d>>>> \o s, x, fr[x])
                     = Find(<<<<f.name, d>>>> \o t, x, gr[x])
        <5>1. /\ Find(<<<<f.name, d>>>> \o s, x, fr[x]) =
                   IF x = f.name THEN d ELSE Find(s, x, fr[x])
              /\ Find(<<<<f.name, d>>>> \o t, x, gr[x]) =
                   IF x = f.name THEN d ELSE Find(t, x, gr[x])
          BY <3>1, FindBound
        <5>2. x # f.name => x \in FreeVariables[f]
          BY <2>3, FreeCases
        <5> QED BY <5>1, <5>2 DEF Alike_
      <4> QED BY <4>2, ScopeGrows DEF Alike_
    <3>3. \A d \in Domain :
            Says(I, fr, f.kids[1], <<<<f.name, d>>>> \o s)
              <=> Says(J, gr, f.kids[1], <<<<f.name, d>>>> \o t)
      BY <2>1, <3>1, <3>2
    <3> QED BY <2>3, <3>3, TruthCases DEF Quantifiers
  <2>4. ASSUME f.type \notin Quantifiers, NEW i \in DOMAIN f.kids
        PROVE  Says(I, fr, f.kids[i], s) <=> Says(J, gr, f.kids[i], t)
    BY <2>1, <2>4, AgreeBelow
  <2>5. CASE f.type = "Negation"
    <3>1. 1 \in DOMAIN f.kids /\ f.type \notin Quantifiers
      BY <2>5, Operands DEF Quantifiers
    <3> QED BY <2>4, <2>5, <3>1, TruthCases
  <2>6. CASE f.type \in {"And", "Or", "Conditional", "Biconditional"}
    <3>1. 1 \in DOMAIN f.kids /\ 2 \in DOMAIN f.kids /\ f.type \notin Quantifiers
      BY <2>6, Operands DEF Quantifiers, Binary
    <3>2. /\ Says(I, fr, f.kids[1], s) <=> Says(J, gr, f.kids[1], t)
          /\ Says(I, fr, f.kids[2], s) <=> Says(J, gr, f.kids[2], t)
      BY <2>4, <3>1
    <3> QED BY <2>6, <3>2, TruthCases
  <2>7. CASE f.type \notin Logical
    <3>1. ASSUME NEW i \in DOMAIN f.kids
          PROVE  Value(I, fr)[f.kids[i]][s] = Value(J, gr)[f.kids[i]][t]
      <4>1. f.kids[i].type \in TermTypes /\ f.kids[i] \in Records
        BY <2>7, Kids DEF Shaped
      <4>2. f.type \notin Quantifiers
        BY <2>7 DEF Logical
      <4>3. Agree(I, J, f.kids[i]) /\ Alike_(s, fr, t, gr, f.kids[i])
        BY <4>2, AgreeBelow
      <4> QED BY <4>1, <4>3, TermDepends
    <3> QED BY <2>7, <3>1, AtomDepends
  <2> QED BY <2>3, <2>5, <2>6, <2>7 DEF Logical
<1> HIDE DEF T
<1>2. Records \subseteq T
  BY <1>1, RecordInduction
<1> QED BY <1>2 DEF T

-----------------------------------------------------------------------------
(* Truth with a value for every variable there could be.                   *)

Envs == [AnyName -> Domain]

Sat(I, e, f) == Says(I, e, f, <<>>)
Val(I, e, t) == Value(I, e)[t][<<>>]
Bound(e, x, d) == [y \in AnyName |-> IF y = x THEN d ELSE e[y]]

SameOn(V, e, d) == \A x \in V : e[x] = d[x]

(* The empty scope binds nothing.                                          *)
LEMMA NoScope == <<>> \in Valuations /\ \A x, d : Find(<<>>, x, d) = d
<1>1. <<>> \in Valuations
  BY DEF Valuations
<1>2. ASSUME NEW x, NEW d PROVE Find(<<>>, x, d) = d
  BY DEF Find
<1> QED BY <1>1, <1>2

(* An environment in which one variable is bound anew.                     *)
LEMMA BoundIs ==
  ASSUME NEW e \in Envs, NEW x \in AnyName, NEW d \in Domain
  PROVE  /\ Bound(e, x, d) \in Envs
         /\ Bound(e, x, d)[x] = d
         /\ \A y \in AnyName : y # x => Bound(e, x, d)[y] = e[y]
BY DEF Bound, Envs

(* Free variables are names, of the record itself.                         *)
LEMMA FreeAreNames ==
  ASSUME NEW f0 \in Records
  PROVE  FreeVariables[f0] \subseteq Names(f0) /\ Names(f0) \subseteq AnyName
<1> DEFINE T == {f \in Records : FreeVariables[f] \subseteq Names(f)}
<1>1. ASSUME NEW f \in Records, \A i \in DOMAIN f.kids : f.kids[i] \in T
      PROVE  f \in T
  <2>1. Parts[f] = {f} \cup UNION {Parts[f.kids[i]] : i \in DOMAIN f.kids}
    BY PartsDef
  <2>2. f.name \in Names(f) /\ \A i \in DOMAIN f.kids : Names(f.kids[i]) \subseteq Names(f)
    BY <2>1 DEF Names
  <2>3. \A i \in DOMAIN f.kids : FreeVariables[f.kids[i]] \subseteq Names(f)
    BY <1>1, <2>2
  <2>4. f.type \in Quantifiers => 1 \in DOMAIN f.kids
    BY Operands
  <2>5. FreeVariables[f] \subseteq Names(f)
    <3>1. CASE f.type = "Variable"
      BY <2>2, <3>1, FreeCases
    <3>2. CASE f.type \in Quantifiers
      BY <2>3, <2>4, <3>2, FreeCases
    <3>3. CASE f.type \notin Quantifiers \cup {"Variable"}
      BY <2>3, <3>3, FreeCases
    <3> QED BY <3>1, <3>2, <3>3
  <2> QED BY <2>5
<1> HIDE DEF T
<1>2. Records \subseteq T
  BY <1>1, RecordInduction
<1>3. FreeVariables[f0] \subseteq Names(f0)
  BY <1>2 DEF T
<1>4. Names(f0) \subseteq AnyName
  BY PartsAreRecords, Kids DEF Names
<1> QED BY <1>3, <1>4

(* The free variables of the kids.                                         *)
LEMMA FreeBelow ==
  ASSUME NEW f \in Records, NEW i \in DOMAIN f.kids
  PROVE  /\ f.type \notin Quantifiers => FreeVariables[f.kids[i]] \subseteq FreeVariables[f]
         /\ f.type \in Quantifiers =>
              FreeVariables[f.kids[i]] \subseteq FreeVariables[f] \cup {f.name}
<1>1. f.type # "Variable"
  BY Kids DEF Shaped, TermTypes
<1>2. f.type \in Quantifiers => i = 1
  BY Operands
<1> QED BY <1>1, <1>2, FreeCases

(* Truth depends on the symbols and the free variables.                    *)
LEMMA SatDepends ==
  ASSUME NEW I, NEW J, NEW e, NEW d, NEW f \in Records,
         Agree(I, J, f), SameOn(FreeVariables[f], e, d)
  PROVE  Sat(I, e, f) <=> Sat(J, d, f)
<1>1. Alike_(<<>>, e, <<>>, d, f)
  BY NoScope DEF Alike_, SameOn
<1> QED BY <1>1, NoScope, TruthDepends DEF Sat

(* The value of a term depends on its symbols and free variables only.     *)
LEMMA ValDepends ==
  ASSUME NEW I, NEW J, NEW e, NEW d, NEW t \in Records, t.type \in TermTypes,
         Agree(I, J, t), SameOn(FreeVariables[t], e, d)
  PROVE  Val(I, e, t) = Val(J, d, t)
<1>1. Alike_(<<>>, e, <<>>, d, t)
  BY NoScope DEF Alike_, SameOn
<1> QED BY <1>1, NoScope, TermDepends DEF Val

(* An interpretation agrees with itself on everything.                     *)
LEMMA AgreeItself == \A I, f : Agree(I, I, f)
BY DEF Agree

(* What a formula says, by the operator on top.                            *)
LEMMA SatCases ==
  ASSUME NEW I, NEW e, NEW f \in Records
  PROVE  /\ f.type = "Negation" => (Sat(I, e, f) <=> ~ Sat(I, e, f.kids[1]))
         /\ f.type = "And" =>
              (Sat(I, e, f) <=> Sat(I, e, f.kids[1]) /\ Sat(I, e, f.kids[2]))
         /\ f.type = "Or" =>
              (Sat(I, e, f) <=> Sat(I, e, f.kids[1]) \/ Sat(I, e, f.kids[2]))
         /\ f.type = "Conditional" =>
              (Sat(I, e, f) <=> (Sat(I, e, f.kids[1]) => Sat(I, e, f.kids[2])))
         /\ f.type = "Biconditional" =>
              (Sat(I, e, f) <=> (Sat(I, e, f.kids[1]) <=> Sat(I, e, f.kids[2])))
BY NoScope, TruthCases DEF Sat

(* Truth in a scope of one binding is truth in the environment with it.    *)
LEMMA SayBound ==
  ASSUME NEW I, NEW e \in Envs, NEW f \in Records, NEW x \in AnyName, NEW d \in Domain
  PROVE  Says(I, e, f, <<<<x, d>>>> \o <<>>) <=> Sat(I, Bound(e, x, d), f)
<1>1. <<<<x, d>>>> \o <<>> \in Valuations
  BY DEF Valuations
<1> DEFINE none == <<>>
<1>0. none \in Valuations
  BY NoScope
<1>2. ASSUME NEW y \in FreeVariables[f]
      PROVE  Find(<<<<x, d>>>> \o <<>>, y, e[y]) = Find(<<>>, y, Bound(e, x, d)[y])
  <2>1. y \in AnyName
    BY FreeAreNames
  <2>2. Find(<<<<x, d>>>> \o none, y, e[y]) = IF y = x THEN d ELSE Find(none, y, e[y])
    <3> HIDE DEF none
    <3> QED BY <1>0, FindBound
  <2>3. Find(<<>>, y, e[y]) = e[y] /\ Find(<<>>, y, Bound(e, x, d)[y]) = Bound(e, x, d)[y]
    BY NoScope
  <2>4. Bound(e, x, d)[y] = IF y = x THEN d ELSE e[y]
    BY <2>1 DEF Bound
  <2> QED BY <2>2, <2>3, <2>4
<1>3. Alike_(<<<<x, d>>>> \o <<>>, e, <<>>, Bound(e, x, d), f)
  BY <1>2 DEF Alike_
<1> QED BY <1>1, <1>3, NoScope, AgreeItself, TruthDepends DEF Sat

(* What a universal quantifier says of environments.                       *)
LEMMA SatAll ==
  ASSUME NEW I, NEW e \in Envs, NEW f \in Records, f.type = "Universal"
  PROVE  Sat(I, e, f) <=> \A d \in Domain : Sat(I, Bound(e, f.name, d), f.kids[1])
<1>1. f.name \in AnyName /\ f.kids[1] \in Records
  BY Kids, Operands DEF Quantifiers
<1>2. \A d \in Domain : Says(I, e, f.kids[1], <<<<f.name, d>>>> \o <<>>)
                          <=> Sat(I, Bound(e, f.name, d), f.kids[1])
  BY <1>1, SayBound
<1>3. Says(I, e, f, <<>>) <=>
        \A d \in Domain : Says(I, e, f.kids[1], <<<<f.name, d>>>> \o <<>>)
  BY NoScope, TruthCases
<1> QED BY <1>2, <1>3 DEF Sat

(* What an existential quantifier says of environments.                    *)
LEMMA SatSome ==
  ASSUME NEW I, NEW e \in Envs, NEW f \in Records, f.type = "Existential"
  PROVE  Sat(I, e, f) <=> \E d \in Domain : Sat(I, Bound(e, f.name, d), f.kids[1])
<1>1. f.name \in AnyName /\ f.kids[1] \in Records
  BY Kids, Operands DEF Quantifiers
<1>2. \A d \in Domain : Says(I, e, f.kids[1], <<<<f.name, d>>>> \o <<>>)
                          <=> Sat(I, Bound(e, f.name, d), f.kids[1])
  BY <1>1, SayBound
<1>3. Says(I, e, f, <<>>) <=>
        \E d \in Domain : Says(I, e, f.kids[1], <<<<f.name, d>>>> \o <<>>)
  BY NoScope, TruthCases
<1> QED BY <1>2, <1>3 DEF Sat

(* The value of a variable.                                                *)
LEMMA ValVariable ==
  ASSUME NEW I, NEW e, NEW t \in Records, t.type = "Variable"
  PROVE  Val(I, e, t) = e[t.name]
BY NoScope, VariableValue DEF Val

-----------------------------------------------------------------------------
(* True, whatever the variables are.                                       *)

AllSat(I, f) == \A e \in Envs : Sat(I, e, f)

(* Values for some variables, and values for all.                          *)
LEMMA EnvFrom ==
  ASSUME NEW V \in SUBSET AnyName, NEW free \in [V -> Domain]
  PROVE  \E e \in Envs : SameOn(V, free, e)
<1>1. PICK d : d \in Domain
  BY DomainAssumption
<1> DEFINE e == [x \in AnyName |-> IF x \in V THEN free[x] ELSE d]
<1>2. e \in Envs /\ SameOn(V, free, e)
  BY <1>1 DEF Envs, SameOn
<1> QED BY <1>2

(* An environment, restricted to the free variables.                       *)
LEMMA EnvOn ==
  ASSUME NEW V \in SUBSET AnyName, NEW e \in Envs
  PROVE  \E free \in [V -> Domain] : SameOn(V, free, e)
<1> DEFINE free == [x \in V |-> e[x]]
<1>1. free \in [V -> Domain] /\ SameOn(V, free, e)
  BY DEF Envs, SameOn
<1> QED BY <1>1

(* True, which TLC evaluates, is truth in every environment.               *)
LEMMA TrueIs ==
  ASSUME NEW I, NEW f \in Records
  PROVE  True(f, I) <=> AllSat(I, f)
<1> DEFINE V == FreeVariables[f]
<1>1. V \in SUBSET AnyName
  BY FreeAreNames
<1>2. \A a, b : SameOn(V, a, b) => (Sat(I, a, f) <=> Sat(I, b, f))
  BY AgreeItself, SatDepends
<1>3. True(f, I) <=> \A free \in [V -> Domain] : Sat(I, free, f)
  BY DEF True, Holds, Sat, Says
<1> HIDE DEF V
<1>4. ASSUME AllSat(I, f), NEW free \in [V -> Domain] PROVE Sat(I, free, f)
  <2>1. PICK e \in Envs : SameOn(V, free, e)
    BY <1>1, EnvFrom
  <2> QED BY <1>2, <1>4, <2>1 DEF AllSat
<1>5. ASSUME \A free \in [V -> Domain] : Sat(I, free, f), NEW e \in Envs
      PROVE  Sat(I, e, f)
  <2>1. PICK free \in [V -> Domain] : SameOn(V, free, e)
    BY <1>1, EnvOn
  <2> QED BY <1>2, <1>5, <2>1
<1> QED BY <1>3, <1>4, <1>5 DEF AllSat
-----------------------------------------------------------------------------
(* The first calls add no variable and no name.                            *)

(* The names that f has of its own: one that it binds, or one that means   *)
(* something.                                                              *)
Nameless == Binary \cup {"Negation", "Variable"}

Own(f) == IF f.type \in Quantifiers THEN {<<"binds", f.name>>}
          ELSE IF f.type \in Nameless THEN {} ELSE {<<"means", f.name>>}

Uses(f) == UNION {Own(p) : p \in Parts[f]}

Tame(f, g) ==
  FreeVariables[g] \subseteq FreeVariables[f] /\ Uses(g) \subseteq Uses(f)

(* How a name is used in a record, by the records below.                   *)
LEMMA UsesCases ==
  ASSUME NEW f \in Records
  PROVE  Uses(f) = Own(f) \cup UNION {Uses(f.kids[i]) : i \in DOMAIN f.kids}
<1>1. Parts[f] = {f} \cup UNION {Parts[f.kids[i]] : i \in DOMAIN f.kids}
  BY PartsDef
<1> QED BY <1>1 DEF Uses

(* The free variables and the uses of a record made of two others.         *)
LEMMA TameJoin ==
  ASSUME NEW t \in Binary, NEW a, NEW b, Join(t, a, b) \in Records
  PROVE  /\ FreeVariables[Join(t, a, b)] = FreeVariables[a] \cup FreeVariables[b]
         /\ Uses(Join(t, a, b)) = Uses(a) \cup Uses(b)
<1> DEFINE j == Join(t, a, b)
<1>1. j.kids = <<a, b>> /\ j.type = t
  BY DEF Join, Semantic
<1>2. t \notin Quantifiers /\ t \in Nameless /\ t # "Variable"
  BY DEF Binary, Quantifiers, Nameless
<1> HIDE DEF j
<1>3. DOMAIN j.kids = {1, 2} /\ j.kids[1] = a /\ j.kids[2] = b
  BY <1>1
<1>4. j \in Records
  BY DEF j
<1>5. FreeVariables[j] = UNION {FreeVariables[j.kids[i]] : i \in DOMAIN j.kids}
  BY <1>1, <1>2, <1>4, FreeCases
<1>6. Uses(j) = UNION {Uses(j.kids[i]) : i \in DOMAIN j.kids}
  BY <1>1, <1>2, <1>4, UsesCases DEF Own
<1> HIDE DEF Uses
<1>7. FreeVariables[j] = FreeVariables[a] \cup FreeVariables[b]
  BY <1>3, <1>5
<1>8. Uses(j) = Uses(a) \cup Uses(b)
  BY <1>3, <1>6
<1> QED BY <1>7, <1>8 DEF j

(* The free variables and the uses of a negation.                          *)
LEMMA TameNot ==
  ASSUME NEW a, Not(a) \in Records
  PROVE  FreeVariables[Not(a)] = FreeVariables[a] /\ Uses(Not(a)) = Uses(a)
<1> DEFINE j == Not(a)
<1>1. j.kids = <<a>> /\ j.type = "Negation"
  BY DEF Not, Semantic
<1> HIDE DEF j
<1>3. DOMAIN j.kids = {1} /\ j.kids[1] = a
  BY <1>1
<1>4. j \in Records
  BY DEF j
<1>5. FreeVariables[j] = UNION {FreeVariables[j.kids[i]] : i \in DOMAIN j.kids}
  BY <1>1, <1>4, FreeCases DEF Quantifiers
<1>6. Uses(j) = UNION {Uses(j.kids[i]) : i \in DOMAIN j.kids}
  BY <1>1, <1>4, UsesCases DEF Own, Nameless, Quantifiers
<1> HIDE DEF Uses
<1> QED BY <1>3, <1>5, <1>6 DEF j

(* The free variables and the uses of a quantified record.                 *)
LEMMA TameBind ==
  ASSUME NEW t \in Quantifiers, NEW x, NEW a, Bind(t, x, a) \in Records
  PROVE  /\ FreeVariables[Bind(t, x, a)] = FreeVariables[a] \ {x}
         /\ Uses(Bind(t, x, a)) = {<<"binds", x>>} \cup Uses(a)
<1> DEFINE j == Bind(t, x, a)
<1>1. j.kids = <<a>> /\ j.type = t /\ j.name = x
  BY DEF Bind, Semantic
<1> HIDE DEF j
<1>3. DOMAIN j.kids = {1} /\ j.kids[1] = a
  BY <1>1
<1>4. j \in Records
  BY DEF j
<1>5. FreeVariables[j] = FreeVariables[a] \ {x}
  BY <1>1, <1>3, <1>4, FreeCases
<1>6. Uses(j) = {<<"binds", x>>} \cup UNION {Uses(j.kids[i]) : i \in DOMAIN j.kids}
  BY <1>1, <1>4, UsesCases DEF Own
<1> HIDE DEF Uses
<1>7. Uses(j) = {<<"binds", x>>} \cup Uses(a)
  BY <1>3, <1>6
<1> QED BY <1>5, <1>7 DEF j

(* Tame kids make a tame record.                                           *)
LEMMA TameKids ==
  ASSUME NEW f \in Records, NEW g \in Records, g.type = f.type, g.name = f.name,
         DOMAIN g.kids = DOMAIN f.kids,
         \A i \in DOMAIN f.kids : Tame(f.kids[i], g.kids[i])
  PROVE  Tame(f, g)
<1>1. Uses(g) \subseteq Uses(f)
  <2>1. Own(g) = Own(f)
    BY DEF Own
  <2>2. Uses(g) = Own(g) \cup UNION {Uses(g.kids[i]) : i \in DOMAIN g.kids}
    BY UsesCases
  <2>3. Uses(f) = Own(f) \cup UNION {Uses(f.kids[i]) : i \in DOMAIN f.kids}
    BY UsesCases
  <2>4. \A i \in DOMAIN f.kids : Uses(g.kids[i]) \subseteq Uses(f.kids[i])
    BY DEF Tame
  <2> HIDE DEF Uses
  <2> QED BY <2>1, <2>2, <2>3, <2>4
<1>2. \A i \in DOMAIN f.kids : FreeVariables[g.kids[i]] \subseteq FreeVariables[f.kids[i]]
  BY DEF Tame
<1>3. FreeVariables[g] \subseteq FreeVariables[f]
  <2>1. CASE f.type = "Variable"
    BY <2>1, FreeCases
  <2>2. CASE f.type \in Quantifiers
    <3>1. 1 \in DOMAIN f.kids
      BY <2>2, Operands
    <3> QED BY <1>2, <2>2, <3>1, FreeCases
  <2>3. CASE f.type \notin Quantifiers \cup {"Variable"}
    <3>1. FreeVariables[g] = UNION {FreeVariables[g.kids[i]] : i \in DOMAIN g.kids}
      BY <2>3, FreeCases
    <3>2. FreeVariables[f] = UNION {FreeVariables[f.kids[i]] : i \in DOMAIN f.kids}
      BY <2>3, FreeCases
    <3> QED BY <1>2, <3>1, <3>2
  <2> QED BY <2>1, <2>2, <2>3
<1> QED BY <1>1, <1>3 DEF Tame

(* The new operators of removeBiconditionals and removeConditionals.       *)
LEMMA BiconditionalsTame ==
  ASSUME NEW f0 \in Records, removeBiconditionals[f0] \in Records
  PROVE  Tame(f0, removeBiconditionals[f0])
<1> DEFINE op == removeBiconditionals
           T == {f \in Records : op[f] \in Records => Tame(f, op[f])}
<1>1. ASSUME NEW f \in Records, \A i \in DOMAIN f.kids : f.kids[i] \in T
      PROVE  f \in T
  <2> SUFFICES ASSUME op[f] \in Records PROVE Tame(f, op[f])
    OBVIOUS
  <2> DEFINE g == OnBranches(op, f)
  <2>1. \A t \in Records : op[t] = BiconditionalsBody(op, t)
    BY BiconditionalsDef
  <2>2. /\ g.type = f.type /\ g.name = f.name /\ DOMAIN g.kids = DOMAIN f.kids
        /\ f.type \in Branching => \A i \in DOMAIN f.kids : g.kids[i] = op[f.kids[i]]
    BY BranchFacts, Kids
  <2> HIDE DEF op
  <2>3. CASE f.type \notin Logical
    <3>1. \A t \in Records : t.type \notin Branching => op[t] = t
      BY <2>1 DEF BiconditionalsBody, OnBranches, Branching, Binary
    <3>2. g = f
      BY <2>3, <3>1, AtomsStay
    <3>3. op[f] = f
      BY <2>1, <2>3, <3>2 DEF BiconditionalsBody, Logical
    <3> QED BY <3>3 DEF Tame
  <2>4. f.type \in Logical => f.type \in Branching
    BY NotBranching
  <2>5. ASSUME f.type \in Logical, NEW i \in DOMAIN f.kids, g.kids[i] \in Records
        PROVE  Tame(f.kids[i], g.kids[i])
    BY <1>1, <2>2, <2>4, <2>5
  <2>6. CASE f.type \in Logical /\ f.type # "Biconditional"
    <3>1. op[f] = g
      BY <2>1, <2>2, <2>6 DEF BiconditionalsBody
    <3>2. \A i \in DOMAIN g.kids : g.kids[i] \in Records
      BY <3>1, Kids
    <3>3. \A i \in DOMAIN f.kids : Tame(f.kids[i], g.kids[i])
      BY <2>2, <2>5, <2>6, <3>2
    <3> HIDE DEF g
    <3> QED BY <2>2, <2>6, <3>1, <3>3, TameKids
  <2>7. CASE f.type = "Biconditional"
    <3> DEFINE a == g.kids[1]
               b == g.kids[2]
               l == Join("Conditional", b, a)
               r == Join("Conditional", a, b)
    <3>1. op[f] = Join("And", l, r)
      BY <2>1, <2>2, <2>7 DEF BiconditionalsBody
    <3>2. l \in Records /\ r \in Records
      BY <3>1, JoinParts
    <3>3. a \in Records /\ b \in Records
      BY <3>2, JoinParts
    <3>4. f.type \in Logical /\ DOMAIN f.kids = {1, 2}
      BY <2>7, Operands DEF Logical, Binary
    <3>5. Tame(f.kids[1], a) /\ Tame(f.kids[2], b)
      BY <2>5, <3>3, <3>4
    <3>6. f.kids[1] \in Records /\ f.kids[2] \in Records
      BY <3>4, Kids
    <3> HIDE DEF a, b, g
    <3>7. /\ FreeVariables[l] = FreeVariables[b] \cup FreeVariables[a]
          /\ Uses(l) = Uses(b) \cup Uses(a)
      BY <3>2, TameJoin DEF Binary
    <3>8. /\ FreeVariables[r] = FreeVariables[a] \cup FreeVariables[b]
          /\ Uses(r) = Uses(a) \cup Uses(b)
      BY <3>2, TameJoin DEF Binary
    <3> HIDE DEF l, r
    <3>9. /\ FreeVariables[op[f]] = FreeVariables[l] \cup FreeVariables[r]
          /\ Uses(op[f]) = Uses(l) \cup Uses(r)
      BY <3>1, TameJoin DEF Binary
    <3>10. /\ FreeVariables[f.kids[1]] \cup FreeVariables[f.kids[2]] \subseteq FreeVariables[f]
           /\ Uses(f.kids[1]) \cup Uses(f.kids[2]) \subseteq Uses(f)
      BY <2>7, <3>4, FreeBelow, UsesCases DEF Quantifiers
    <3> QED BY <3>5, <3>7, <3>8, <3>9, <3>10 DEF Tame
  <2> QED BY <2>3, <2>6, <2>7
<1> HIDE DEF T
<1>2. Records \subseteq T
  BY <1>1, RecordInduction
<1> QED BY <1>2 DEF T

(* removeConditionals adds no free variable and no use of a name.          *)
LEMMA ConditionalsTame ==
  ASSUME NEW f0 \in Records, removeConditionals[f0] \in Records
  PROVE  Tame(f0, removeConditionals[f0])
<1> DEFINE op == removeConditionals
           T == {f \in Records : op[f] \in Records => Tame(f, op[f])}
<1>1. ASSUME NEW f \in Records, \A i \in DOMAIN f.kids : f.kids[i] \in T
      PROVE  f \in T
  <2> SUFFICES ASSUME op[f] \in Records PROVE Tame(f, op[f])
    OBVIOUS
  <2> DEFINE g == OnBranches(op, f)
  <2>1. \A t \in Records : op[t] = ConditionalsBody(op, t)
    BY ConditionalsDef
  <2>2. /\ g.type = f.type /\ g.name = f.name /\ DOMAIN g.kids = DOMAIN f.kids
        /\ f.type \in Branching => \A i \in DOMAIN f.kids : g.kids[i] = op[f.kids[i]]
    BY BranchFacts, Kids
  <2> HIDE DEF op
  <2>3. CASE f.type \notin Logical
    <3>1. \A t \in Records : t.type \notin Branching => op[t] = t
      BY <2>1 DEF ConditionalsBody, OnBranches, Branching, Binary
    <3>2. g = f
      BY <2>3, <3>1, AtomsStay
    <3>3. op[f] = f
      BY <2>1, <2>3, <3>2 DEF ConditionalsBody, Logical
    <3> QED BY <3>3 DEF Tame
  <2>4. f.type \in Logical => f.type \in Branching
    BY NotBranching
  <2>5. ASSUME f.type \in Logical, NEW i \in DOMAIN f.kids, g.kids[i] \in Records
        PROVE  Tame(f.kids[i], g.kids[i])
    BY <1>1, <2>2, <2>4, <2>5
  <2>6. CASE f.type \in Logical /\ f.type # "Conditional"
    <3>1. op[f] = g
      BY <2>1, <2>2, <2>6 DEF ConditionalsBody
    <3>2. \A i \in DOMAIN g.kids : g.kids[i] \in Records
      BY <3>1, Kids
    <3>3. \A i \in DOMAIN f.kids : Tame(f.kids[i], g.kids[i])
      BY <2>2, <2>5, <2>6, <3>2
    <3> HIDE DEF g
    <3> QED BY <2>2, <2>6, <3>1, <3>3, TameKids
  <2>7. CASE f.type = "Conditional"
    <3> DEFINE a == g.kids[1]
               b == g.kids[2]
               l == Not(a)
    <3>1. op[f] = Join("Or", l, b)
      BY <2>1, <2>2, <2>7 DEF ConditionalsBody
    <3>2. l \in Records /\ b \in Records
      BY <3>1, JoinParts
    <3>3. a \in Records
      BY <3>2, NotIsBind, BindParts
    <3>4. f.type \in Logical /\ DOMAIN f.kids = {1, 2}
      BY <2>7, Operands DEF Logical, Binary
    <3>5. Tame(f.kids[1], a) /\ Tame(f.kids[2], b)
      BY <2>5, <3>2, <3>3, <3>4
    <3>6. f.kids[1] \in Records /\ f.kids[2] \in Records
      BY <3>4, Kids
    <3> HIDE DEF a, b, g
    <3>7. FreeVariables[l] = FreeVariables[a] /\ Uses(l) = Uses(a)
      BY <3>2, TameNot
    <3> HIDE DEF l
    <3>8. /\ FreeVariables[op[f]] = FreeVariables[l] \cup FreeVariables[b]
          /\ Uses(op[f]) = Uses(l) \cup Uses(b)
      BY <3>1, TameJoin DEF Binary
    <3>9. /\ FreeVariables[f.kids[1]] \cup FreeVariables[f.kids[2]] \subseteq FreeVariables[f]
          /\ Uses(f.kids[1]) \cup Uses(f.kids[2]) \subseteq Uses(f)
      BY <2>7, <3>4, FreeBelow, UsesCases DEF Quantifiers
    <3> QED BY <3>5, <3>7, <3>8, <3>9 DEF Tame
  <2> QED BY <2>3, <2>6, <2>7
<1> HIDE DEF T
<1>2. Records \subseteq T
  BY <1>1, RecordInduction
<1> QED BY <1>2 DEF T

(* removeExtraNots adds no free variable and no use of a name.             *)
LEMMA ExtraNotsTame ==
  ASSUME NEW f0 \in Records
  PROVE  Tame(f0, removeExtraNots[f0])
<1> DEFINE T == {f \in Records : Tame(f, removeExtraNots[f])}
<1>1. ASSUME NEW f \in Records,
             \A y \in Records : Height(y) < Height(f) => y \in T
      PROVE  f \in T
  <2>1. CASE f.type = "Negation" /\ f.kids[1].type = "Negation"
    <3> DEFINE k == f.kids[1]
               g == k.kids[1]
    <3>1. /\ k \in Records /\ g \in Records /\ Height(g) < Height(f)
          /\ 1 \in DOMAIN f.kids /\ 1 \in DOMAIN k.kids
      BY <2>1, Operands, Kids, HeightAssumption
    <3>2. removeExtraNots[f] = removeExtraNots[g]
      BY <2>1, ExtraNotsDef DEF ExtraNotsBody
    <3>3. Tame(g, removeExtraNots[g])
      BY <1>1, <3>1
    <3>4. Tame(f, k) /\ Tame(k, g)
      BY <2>1, <3>1, FreeBelow, UsesCases DEF Tame, Quantifiers
    <3> QED BY <3>2, <3>3, <3>4 DEF Tame
  <2>2. CASE ~ (f.type = "Negation" /\ f.kids[1].type = "Negation")
    <3>1. removeExtraNots[f] = f
      BY <2>2, ExtraNotsDef DEF ExtraNotsBody
    <3> QED BY <3>1 DEF Tame
  <2> QED BY <2>1, <2>2
<1> HIDE DEF T
<1>2. Records \subseteq T
  BY <1>1, HeightInduction
<1> QED BY <1>2 DEF T

(* A negation that is pushed, whatever r makes of the kids afterwards.     *)
LEMMA PushedTame ==
  ASSUME NEW f \in Records, NEW r \in Records,
         r.type = Pushed(f).type, r.name = Pushed(f).name,
         DOMAIN r.kids = DOMAIN Pushed(f).kids,
         \A i \in DOMAIN r.kids : Tame(Pushed(f).kids[i], r.kids[i])
  PROVE  Tame(f, r)
<1> DEFINE g == removeExtraNots[f]
           k == g.kids[1]
<1>1. g \in Records /\ Tame(f, g)
  BY ExtraNotsGone, ExtraNotsTame
<1>2. ASSUME Pushed(f) = g PROVE Tame(f, r)
  <2> HIDE DEF g
  <2>1. Tame(g, r)
    BY <1>1, <1>2, TameKids
  <2> QED BY <1>1, <2>1 DEF Tame
<1>3. g.type # "Negation" => Pushed(f) = g
  BY DEF Pushed
<1>4. ASSUME g.type = "Negation"
      PROVE  Pushed(f) = PushNot(g) /\ k \in Records /\ Tame(f, k)
  <2>1. Pushed(f) = PushNot(g)
    BY <1>4 DEF Pushed
  <2> HIDE DEF g
  <2>2. k \in Records /\ 1 \in DOMAIN g.kids
    BY <1>1, <1>4, Operands
  <2>3. Tame(g, k)
    BY <1>1, <1>4, <2>2, FreeBelow, UsesCases DEF Tame, Quantifiers
  <2> QED BY <1>1, <2>1, <2>2, <2>3 DEF Tame
<1>5. ASSUME NEW a, NEW i \in DOMAIN r.kids, Pushed(f).kids[i] = Not(a)
      PROVE  Tame(a, r.kids[i])
  <2>1. Not(a) \in Records
    BY <1>5, PushedKids
  <2> QED BY <1>5, <2>1, TameNot DEF Tame
<1> HIDE DEF g, k
<1>7. CASE g.type = "Negation" /\ k.type \in {"Or", "And"}
  <2> DEFINE a == k.kids[1]
             b == k.kids[2]
             t == IF k.type = "Or" THEN "And" ELSE "Or"
  <2>1. Pushed(f) = Join(t, Not(a), Not(b))
    BY <1>4, <1>7, PushNotCases DEF k
  <2>2. /\ Pushed(f).kids = <<Not(a), Not(b)>> /\ Pushed(f).type = t
        /\ DOMAIN r.kids = {1, 2}
    BY <2>1 DEF Join, Semantic
  <2>3. Tame(k, r)
    <3>1. DOMAIN k.kids = {1, 2}
      BY <1>4, <1>7, Operands DEF Binary
    <3>2. /\ FreeVariables[a] \cup FreeVariables[b] \subseteq FreeVariables[k]
          /\ Uses(a) \cup Uses(b) \subseteq Uses(k)
      BY <1>4, <1>7, <3>1, FreeBelow, UsesCases DEF Quantifiers
    <3> HIDE DEF a, b
    <3>3. Tame(a, r.kids[1]) /\ Tame(b, r.kids[2])
      BY <1>5, <2>2
    <3>4. r.type \in {"And", "Or"}
      BY <2>2
    <3>5. FreeVariables[r] = UNION {FreeVariables[r.kids[i]] : i \in DOMAIN r.kids}
      BY <3>4, FreeCases DEF Quantifiers
    <3>6. Uses(r) = UNION {Uses(r.kids[i]) : i \in DOMAIN r.kids}
      BY <3>4, UsesCases DEF Own, Nameless, Binary, Quantifiers
    <3> HIDE DEF Uses
    <3> QED BY <2>2, <3>2, <3>3, <3>5, <3>6 DEF Tame
  <2> QED BY <1>4, <1>7, <2>3 DEF Tame
<1>8. CASE g.type = "Negation" /\ k.type \in Quantifiers
  <2> DEFINE a == k.kids[1]
             t == IF k.type = "Universal" THEN "Existential" ELSE "Universal"
  <2>1. Pushed(f) = Bind(t, k.name, Not(a))
    BY <1>4, <1>8, PushNotCases DEF k, Quantifiers
  <2>2. /\ Pushed(f).kids = <<Not(a)>> /\ Pushed(f).type = t /\ Pushed(f).name = k.name
        /\ DOMAIN r.kids = {1}
    BY <2>1 DEF Bind, Semantic
  <2>3. Tame(k, r)
    <3>1. DOMAIN k.kids = {1}
      BY <1>4, <1>8, Operands
    <3>2. FreeVariables[k] = FreeVariables[a] \ {k.name}
      BY <1>4, <1>8, FreeCases
    <3>3. Uses(k) = {<<"binds", k.name>>} \cup Uses(a)
      <4>1. Uses(k) = {<<"binds", k.name>>} \cup UNION {Uses(k.kids[i]) : i \in DOMAIN k.kids}
        BY <1>4, <1>8, UsesCases DEF Own
      <4> HIDE DEF Uses
      <4> QED BY <3>1, <4>1
    <3> HIDE DEF a
    <3>4. Tame(a, r.kids[1])
      BY <1>5, <2>2
    <3>5. r.type \in Quantifiers
      BY <2>2 DEF Quantifiers
    <3>6. FreeVariables[r] = FreeVariables[r.kids[1]] \ {k.name}
      BY <2>2, <3>5, FreeCases
    <3>7. Uses(r) = {<<"binds", k.name>>} \cup Uses(r.kids[1])
      <4>1. Uses(r) = {<<"binds", r.name>>} \cup UNION {Uses(r.kids[i]) : i \in DOMAIN r.kids}
        BY <3>5, UsesCases DEF Own
      <4> HIDE DEF Uses
      <4> QED BY <2>2, <4>1
    <3> HIDE DEF Uses
    <3> QED BY <3>2, <3>3, <3>4, <3>6, <3>7 DEF Tame
  <2> QED BY <1>4, <1>8, <2>3 DEF Tame
<1>9. CASE g.type = "Negation" /\ k.type \notin {"Or", "And"} \cup Quantifiers
  <2>1. Pushed(f) = g
    BY <1>4, <1>9, PushNotCases DEF Quantifiers, k
  <2> QED BY <1>2, <2>1
<1> QED BY <1>2, <1>3, <1>7, <1>8, <1>9

(* demorgans adds no free variable and no use of a name.                   *)
LEMMA DemorgansTame ==
  ASSUME NEW f0 \in Records, demorgans[f0] \in Records
  PROVE  Tame(f0, demorgans[f0])
<1> DEFINE op == demorgans
           T == {f \in Records : op[f] \in Records => Tame(f, op[f])}
<1>1. ASSUME NEW f \in Records,
             \A y \in Records : Height(y) < Height(f) => y \in T
      PROVE  f \in T
  <2> SUFFICES ASSUME op[f] \in Records PROVE Tame(f, op[f])
    OBVIOUS
  <2> DEFINE h == Pushed(f)
             r == op[f]
  <2>1. \A t \in Records : op[t] = OnBranches(op, Pushed(t))
    BY DemorgansDef DEF DemorgansBody
  <2> HIDE DEF op
  <2>2. /\ r.type = h.type /\ r.name = h.name /\ DOMAIN r.kids = DOMAIN h.kids
        /\ h.type \in Branching => \A i \in DOMAIN h.kids : r.kids[i] = op[h.kids[i]]
    BY <2>1, BranchFacts, PushedShape
  <2>3. CASE h.type \in Logical
    <3>1. \A i \in DOMAIN h.kids : r.kids[i] = op[h.kids[i]] /\ r.kids[i] \in Records
      BY <2>2, <2>3, Kids, NotBranching
    <3>2. \A i \in DOMAIN r.kids : Tame(h.kids[i], r.kids[i])
      BY <1>1, <2>2, <3>1, PushedKids
    <3> HIDE DEF h, r
    <3> QED BY <2>2, <3>2, PushedTame DEF h, r
  <2>4. CASE h.type \notin Logical
    <3>1. ASSUME NEW t \in Records, t.type \notin Branching PROVE op[t] = t
      <4>1. t.type # "Negation"
        BY <3>1 DEF Branching
      <4>2. removeExtraNots[t] = t
        BY <4>1, ExtraNotsDef DEF ExtraNotsBody
      <4>3. Pushed(t) = t
        BY <4>1, <4>2 DEF Pushed
      <4> QED BY <2>1, <3>1, <4>3 DEF OnBranches
    <3>2. h = removeExtraNots[f] /\ h \in Records
      BY <2>4, PushedShape, ExtraNotsGone
    <3>3. r = h
      BY <2>1, <2>4, <3>1, <3>2, AtomsStay
    <3> QED BY <3>2, <3>3, ExtraNotsTame
  <2> QED BY <2>3, <2>4
<1> HIDE DEF T
<1>2. Records \subseteq T
  BY <1>1, HeightInduction
<1> QED BY <1>2 DEF T

-----------------------------------------------------------------------------
(* The new names of renameVariables mean what the old ones meant.          *)

(* f with the values e means what g means with the values d.               *)
Matches(I, e, f, d, g) ==
  IF f.type \in TermTypes THEN Val(I, e, f) = Val(I, d, g)
  ELSE Sat(I, e, f) <=> Sat(I, d, g)

(* Terms with the same symbol and arguments of the same values have one    *)
(* value.                                                                  *)
LEMMA SameArguments ==
  ASSUME NEW I, NEW e, NEW d, NEW f \in Records, NEW g \in Records,
         g.type = f.type, g.name = f.name, f.type # "Variable",
         DOMAIN g.kids = DOMAIN f.kids,
         \A i \in DOMAIN f.kids : Val(I, e, f.kids[i]) = Val(I, d, g.kids[i])
  PROVE  Val(I, e, f) = Val(I, d, g)
<1> DEFINE a == Arguments(I, e, f, <<>>)
           b == Arguments(I, d, g, <<>>)
<1>1. a = b
  BY DEF Arguments, Val
<1>2. Value(I, e)[f][<<>>] = I[Symbol(f)][a] /\ Value(I, d)[g][<<>>] = I[Symbol(g)][b]
  BY NoScope, FunctionValue
<1>3. Symbol(f) = Symbol(g)
  <2>1. Len(f.kids) = Len(g.kids)
    <3>1. DOMAIN f.kids = 1 .. Len(f.kids) /\ DOMAIN g.kids = 1 .. Len(g.kids)
          /\ Len(f.kids) \in Nat /\ Len(g.kids) \in Nat
      BY Kids
    <3> QED BY <3>1
  <2> QED BY <2>1 DEF Symbol
<1> HIDE DEF a, b
<1> QED BY <1>1, <1>2, <1>3 DEF Val

(* Two records that differ in their kids only, if at all.                  *)
LEMMA KidsDecide ==
  ASSUME NEW I, NEW e, NEW d, NEW f \in Records, NEW g \in Records,
         g.type = f.type, f.type \notin Quantifiers \cup {"Variable"},
         f.type \notin Nameless => g.name = f.name,
         DOMAIN g.kids = DOMAIN f.kids,
         \A i \in DOMAIN f.kids : Matches(I, e, f.kids[i], d, g.kids[i])
  PROVE  Matches(I, e, f, d, g)
<1>1. CASE f.type \in Logical
  <2>1. f.type \notin TermTypes
    BY <1>1 DEF Logical, TermTypes, Quantifiers
  <2>2. \A i \in DOMAIN f.kids : f.kids[i].type \notin TermTypes
    BY <1>1, Kids DEF Shaped
  <2>3. \A i \in DOMAIN f.kids : Sat(I, e, f.kids[i]) <=> Sat(I, d, g.kids[i])
    BY <2>2 DEF Matches
  <2>4. CASE f.type = "Negation"
    <3>1. 1 \in DOMAIN f.kids
      BY <2>4, Operands
    <3>2. Sat(I, e, f) <=> ~ Sat(I, e, f.kids[1])
      BY <2>4, SatCases
    <3>3. Sat(I, d, g) <=> ~ Sat(I, d, g.kids[1])
      BY <2>4, SatCases
    <3> QED BY <2>1, <2>3, <3>1, <3>2, <3>3 DEF Matches
  <2>5. CASE f.type \in {"And", "Or", "Conditional", "Biconditional"}
    <3>1. 1 \in DOMAIN f.kids /\ 2 \in DOMAIN f.kids
      BY <2>5, Operands DEF Binary
    <3>2. /\ Sat(I, e, f.kids[1]) <=> Sat(I, d, g.kids[1])
          /\ Sat(I, e, f.kids[2]) <=> Sat(I, d, g.kids[2])
      BY <2>3, <3>1
    <3>3. Sat(I, e, f) <=> Sat(I, d, g)
      BY <2>5, <3>2, SatCases
    <3> QED BY <2>1, <3>3 DEF Matches
  <2> QED BY <1>1, <2>4, <2>5 DEF Logical
<1>2. CASE f.type \notin Logical
  <2>1. \A i \in DOMAIN f.kids : Val(I, e, f.kids[i]) = Val(I, d, g.kids[i])
    <3>1. \A i \in DOMAIN f.kids : f.kids[i].type \in TermTypes
      BY <1>2, Kids DEF Shaped
    <3> QED BY <3>1 DEF Matches
  <2>2. CASE f.type \in TermTypes
    <3>1. f.type \notin Nameless
      BY <2>2 DEF TermTypes, Nameless, Binary
    <3>2. Val(I, e, f) = Val(I, d, g)
      BY <2>1, <3>1, SameArguments
    <3> QED BY <2>2, <3>2 DEF Matches
  <2>3. CASE f.type \in Predicates
    <3>1. f.type \notin Nameless /\ f.type \notin TermTypes
      BY <2>3 DEF Predicates, TermTypes, Nameless, Binary
    <3>2. Val(I, e, f) = Val(I, d, g)
      BY <2>1, <2>3, <3>1, SameArguments
    <3>3. Sat(I, e, f) <=> Val(I, e, f) = TRUE
      BY <2>3, NoScope, PredicateSays DEF Sat, Val
    <3>4. Sat(I, d, g) <=> Val(I, d, g) = TRUE
      BY <2>3, NoScope, PredicateSays DEF Sat, Val
    <3> QED BY <3>1, <3>2, <3>3, <3>4 DEF Matches
  <2>4. CASE f.type = "Equal"
    <3>1. 1 \in DOMAIN f.kids /\ 2 \in DOMAIN f.kids /\ f.type \notin TermTypes
      BY <2>4, Operands DEF Binary, TermTypes
    <3>2. Sat(I, e, f) <=> Val(I, e, f.kids[1]) = Val(I, e, f.kids[2])
      BY <2>4, NoScope, EqualSays DEF Sat, Val
    <3>3. Sat(I, d, g) <=> Val(I, d, g.kids[1]) = Val(I, d, g.kids[2])
      BY <2>4, NoScope, EqualSays DEF Sat, Val
    <3>4. /\ Val(I, e, f.kids[1]) = Val(I, d, g.kids[1])
          /\ Val(I, e, f.kids[2]) = Val(I, d, g.kids[2])
      BY <2>1, <3>1
    <3> QED BY <3>1, <3>2, <3>3, <3>4 DEF Matches
  <2>5. CASE f.type \notin TermTypes \cup Predicates \cup {"Equal"}
    <3>0. f.type \notin Logical \cup Predicates \cup {"Equal"}
      BY <1>2, <2>5
    <3>1. Sat(I, e, f) <=> f.type = "LogicalConstant" /\ f.name = <<"true", 0>>
      BY <3>0, NoScope, OtherSays DEF Sat
    <3>2. Sat(I, d, g) <=> g.type = "LogicalConstant" /\ g.name = <<"true", 0>>
      BY <3>0, NoScope, OtherSays DEF Sat
    <3>3. f.type = "LogicalConstant" => g.name = f.name
      BY DEF Nameless, Binary
    <3> QED BY <2>5, <3>1, <3>2, <3>3 DEF Matches
  <2> QED BY <2>2, <2>3, <2>4, <2>5
<1> QED BY <1>1, <1>2

(* e gives to every variable in V what d gives to its new name.            *)
Carried(e, d, V, rs) == \A x \in V : e[x] = d[Find(rs, x, x)]

RenamedSays(I, f, rs, g) ==
  /\ FreeVariables[g] \subseteq {Find(rs, x, x) : x \in FreeVariables[f]}
  /\ \A e, d \in Envs : Carried(e, d, FreeVariables[f], rs) => Matches(I, e, f, d, g)

(* A quantifier over a variable with a fresh name.                         *)
LEMMA RenamedBinder ==
  ASSUME NEW I, NEW f \in Records, NEW g \in Records, f.type \in Quantifiers,
         g.type = f.type, NEW rs \in Seq(AnyName \X AnyName), g.name \in AnyName,
         RenamedSays(I, f.kids[1], <<<<f.name, g.name>>>> \o rs, g.kids[1]),
         \A x \in FreeVariables[f] : Find(rs, x, x) # g.name /\ Find(rs, x, x) \in AnyName
  PROVE  RenamedSays(I, f, rs, g)
<1> DEFINE b == f.kids[1]
           all == <<<<f.name, g.name>>>> \o rs
<1>1. /\ b \in Records /\ g.kids[1] \in Records /\ f.name \in AnyName
      /\ FreeVariables[f] = FreeVariables[b] \ {f.name}
      /\ FreeVariables[g] = FreeVariables[g.kids[1]] \ {g.name}
      /\ b.type \notin TermTypes /\ f.type \notin TermTypes
  BY Operands, Kids, FreeCases DEF Quantifiers, TermTypes
<1>2. \A x : Find(all, x, x) = IF x = f.name THEN g.name ELSE Find(rs, x, x)
  <2>1. <<f.name, g.name>> \in AnyName \X AnyName
    BY <1>1
  <2> QED BY <2>1, FindBefore
<1>3. RenamedSays(I, b, all, g.kids[1])
  OBVIOUS
<1> HIDE DEF b, all
<1>4. FreeVariables[g] \subseteq {Find(rs, x, x) : x \in FreeVariables[f]}
  <2> SUFFICES ASSUME NEW y \in FreeVariables[g]
               PROVE  \E x \in FreeVariables[f] : y = Find(rs, x, x)
    OBVIOUS
  <2>1. PICK x \in FreeVariables[b] : y = Find(all, x, x)
    BY <1>1, <1>3 DEF RenamedSays
  <2>2. y # g.name
    BY <1>1
  <2>3. x # f.name /\ y = Find(rs, x, x)
    BY <1>2, <2>1, <2>2
  <2> QED BY <1>1, <2>3
<1>5. ASSUME NEW e \in Envs, NEW d \in Envs, Carried(e, d, FreeVariables[f], rs)
      PROVE  Sat(I, e, f) <=> Sat(I, d, g)
  <2>1. ASSUME NEW v \in Domain
        PROVE  Sat(I, Bound(e, f.name, v), b) <=> Sat(I, Bound(d, g.name, v), g.kids[1])
    <3> DEFINE e1 == Bound(e, f.name, v)
               d1 == Bound(d, g.name, v)
    <3>1. /\ e1 \in Envs /\ d1 \in Envs /\ e1[f.name] = v /\ d1[g.name] = v
          /\ \A y \in AnyName : y # f.name => e1[y] = e[y]
          /\ \A y \in AnyName : y # g.name => d1[y] = d[y]
      BY <1>1, BoundIs
    <3> HIDE DEF e1, d1
    <3>2. ASSUME NEW x \in FreeVariables[b] PROVE e1[x] = d1[Find(all, x, x)]
      <4>1. CASE x = f.name
        BY <1>2, <3>1, <4>1
      <4>2. CASE x # f.name
        <5>1. x \in FreeVariables[f] /\ x \in AnyName
          BY <1>1, <4>2, FreeAreNames
        <5>2. e[x] = d[Find(rs, x, x)]
          BY <1>5, <5>1 DEF Carried
        <5> QED BY <1>2, <3>1, <4>2, <5>1, <5>2
      <4> QED BY <4>1, <4>2
    <3>3. Matches(I, e1, b, d1, g.kids[1])
      BY <1>3, <3>1, <3>2 DEF RenamedSays, Carried
    <3> QED BY <1>1, <3>3 DEF Matches, e1, d1
  <2>2. CASE f.type = "Universal"
    <3>1. Sat(I, e, f) <=> \A v \in Domain : Sat(I, Bound(e, f.name, v), b)
      BY <2>2, SatAll DEF b
    <3>2. Sat(I, d, g) <=> \A v \in Domain : Sat(I, Bound(d, g.name, v), g.kids[1])
      BY <2>2, SatAll
    <3> QED BY <2>1, <3>1, <3>2
  <2>3. CASE f.type = "Existential"
    <3>1. Sat(I, e, f) <=> \E v \in Domain : Sat(I, Bound(e, f.name, v), b)
      BY <2>3, SatSome DEF b
    <3>2. Sat(I, d, g) <=> \E v \in Domain : Sat(I, Bound(d, g.name, v), g.kids[1])
      BY <2>3, SatSome
    <3> QED BY <2>1, <3>1, <3>2
  <2> QED BY <2>2, <2>3 DEF Quantifiers
<1> QED BY <1>1, <1>4, <1>5 DEF RenamedSays, Matches

(* A variable, and a record that binds none.                               *)
LEMMA RenamedVariable ==
  ASSUME NEW I, NEW f \in Records, NEW g \in Records, f.type = "Variable",
         g.type = f.type, NEW rs, g.name = Find(rs, f.name, f.name)
  PROVE  RenamedSays(I, f, rs, g)
<1>1. FreeVariables[f] = {f.name} /\ FreeVariables[g] = {g.name} /\ f.type \in TermTypes
  BY FreeCases DEF TermTypes
<1>2. ASSUME NEW e \in Envs, NEW d \in Envs, Carried(e, d, FreeVariables[f], rs)
      PROVE  Matches(I, e, f, d, g)
  <2>1. Val(I, e, f) = e[f.name] /\ Val(I, d, g) = d[g.name]
    BY ValVariable
  <2>2. e[f.name] = d[g.name]
    BY <1>1, <1>2 DEF Carried
  <2> QED BY <1>1, <2>1, <2>2 DEF Matches
<1> QED BY <1>1, <1>2 DEF RenamedSays

(* A record that is no quantifier and no variable says what its renamed    *)
(* kids say.                                                               *)
LEMMA RenamedOther ==
  ASSUME NEW I, NEW f \in Records, NEW g \in Records, g.type = f.type,
         f.type \notin Quantifiers \cup {"Variable"},
         f.type \notin Nameless => g.name = f.name, NEW rs,
         DOMAIN g.kids = DOMAIN f.kids,
         \A i \in DOMAIN f.kids : RenamedSays(I, f.kids[i], rs, g.kids[i])
  PROVE  RenamedSays(I, f, rs, g)
<1>1. /\ FreeVariables[f] = UNION {FreeVariables[f.kids[i]] : i \in DOMAIN f.kids}
      /\ FreeVariables[g] = UNION {FreeVariables[g.kids[i]] : i \in DOMAIN g.kids}
  BY FreeCases
<1>2. \A i \in DOMAIN f.kids :
        FreeVariables[g.kids[i]] \subseteq {Find(rs, x, x) : x \in FreeVariables[f.kids[i]]}
  BY DEF RenamedSays
<1>3. FreeVariables[g] \subseteq {Find(rs, x, x) : x \in FreeVariables[f]}
  BY <1>1, <1>2
<1>4. ASSUME NEW e \in Envs, NEW d \in Envs, Carried(e, d, FreeVariables[f], rs)
      PROVE  Matches(I, e, f, d, g)
  <2>1. ASSUME NEW i \in DOMAIN f.kids PROVE Matches(I, e, f.kids[i], d, g.kids[i])
    <3>1. Carried(e, d, FreeVariables[f.kids[i]], rs)
      BY <1>1, <1>4 DEF Carried
    <3> QED BY <3>1 DEF RenamedSays
  <2> QED BY <2>1, KidsDecide
<1> QED BY <1>3, <1>4 DEF RenamedSays

(* No binder has the name of something else; no name that means something  *)
(* is renamed.                                                             *)
Distinct(f) == \A x : <<"binds", x>> \in Uses(f) => <<"means", x>> \notin Uses(f)

Quiet(f, rs) == \A i \in DOMAIN rs : <<"means", rs[i][1]>> \notin Uses(f)

(* The stack of renamings that a quantifier adds to.                       *)
LEMMA StackGrows ==
  ASSUME NEW c \in Nat, NEW rs \in Stacks(c), NEW x \in AnyName, NEW new \in AnyName,
         new[2] = c + 1
  PROVE  LET rs1 == <<<<x, new>>>> \o rs
         IN /\ rs1 \in Stacks(c + 1)
            /\ \A i \in DOMAIN rs1 : rs1[i][1] = x \/ \E j \in DOMAIN rs : rs1[i] = rs[j]
<1> DEFINE rs1 == <<<<x, new>>>> \o rs
<1>1. rs \in Seq(AnyName \X AnyName) /\ \A i \in DOMAIN rs : rs[i][2][2] \in 0 .. c
  BY DEF Stacks
<1>2. <<x, new>> \in AnyName \X AnyName
  OBVIOUS
<1>3. rs1 \in Seq(AnyName \X AnyName)
  BY <1>1, <1>2
<1>4. \A i \in DOMAIN rs1 : rs1[i] = <<x, new>> \/ \E j \in DOMAIN rs : rs1[i] = rs[j]
  <2>1. DOMAIN rs1 = 1 .. (1 + Len(rs))
    BY <1>1
  <2>2. rs1[1] = <<x, new>>
    BY <1>1
  <2>3. \A i \in 2 .. (1 + Len(rs)) : rs1[i] = rs[i - 1] /\ i - 1 \in DOMAIN rs
    BY <1>1
  <2> HIDE DEF rs1
  <2>4. \A i \in DOMAIN rs1 : i = 1 \/ i \in 2 .. (1 + Len(rs))
    BY <1>1, <2>1
  <2> QED BY <2>2, <2>3, <2>4
<1> HIDE DEF rs1
<1>5. ASSUME NEW i \in DOMAIN rs1
      PROVE  rs1[i][2][2] \in 0 .. c + 1 /\ (rs1[i][1] = x \/ \E j \in DOMAIN rs : rs1[i] = rs[j])
  <2>1. CASE rs1[i] = <<x, new>>
    BY <2>1
  <2>2. CASE \E j \in DOMAIN rs : rs1[i] = rs[j]
    BY <1>1, <2>2
  <2> QED BY <1>4, <2>1, <2>2
<1>6. rs1 \in Stacks(c + 1)
  BY <1>3, <1>5 DEF Stacks
<1> QED BY <1>5, <1>6 DEF rs1

(* What is found in a stack is a name that is not new.                     *)
LEMMA FindNumbered ==
  ASSUME NEW c \in Nat, NEW rs \in Stacks(c), NEW x \in AnyName, x[2] \in 0 .. c
  PROVE  Find(rs, x, x) \in AnyName /\ Find(rs, x, x)[2] \in 0 .. c
<1>1. rs \in Seq(AnyName \X AnyName) /\ \A i \in DOMAIN rs : rs[i][2][2] \in 0 .. c
  BY DEF Stacks
<1>2. DOMAIN rs = 1 .. Len(rs) /\ Len(rs) \in Nat
  BY <1>1
<1>3. Find(rs, x, x) = x \/ \E i \in DOMAIN rs : Find(rs, x, x) = rs[i][2]
  BY <1>2, FindFacts
<1>4. \A i \in DOMAIN rs : rs[i][2] \in AnyName
  BY <1>1
<1> QED BY <1>1, <1>3, <1>4

(* A name that no renaming is about is kept.                               *)
LEMMA QuietFind ==
  ASSUME NEW f \in Records, NEW c, NEW rs \in Stacks(c), Quiet(f, rs),
         f.type \notin Nameless, f.type \notin Quantifiers
  PROVE  Find(rs, f.name, f.name) = f.name
<1>1. rs \in Seq(AnyName \X AnyName)
  BY DEF Stacks
<1>2. DOMAIN rs = 1 .. Len(rs) /\ Len(rs) \in Nat
  BY <1>1
<1>3. <<"means", f.name>> \in Uses(f)
  BY UsesCases DEF Own
<1>4. ~ \E i \in DOMAIN rs : rs[i][1] = f.name
  BY <1>3 DEF Quiet
<1> QED BY <1>2, <1>4, FindFacts

(* The counters that renameWith has when it goes to the kids.              *)
LEMMA RenameCounters ==
  ASSUME NEW n \in Nat, NEW f \in Records, Parts[f] \subseteq AtomsNegated(n),
         NEW c1 \in Nat, n <= c1, NEW rs1 \in Stacks(c1),
         NEW e, e.kids = f.kids, NEW d, Threads(d, renameWith, e, c1, rs1)
  PROVE  \A i \in 0 .. Len(f.kids) : d[i] \in Nat /\ c1 <= d[i]
<1> DEFINE D == {x \in Nat : c1 <= x}
<1>1. \A x \in D : rs1 \in Stacks(x) /\ n <= x
  BY DEF Stacks
<1>2. ASSUME NEW i \in 1 .. Len(e.kids), NEW x \in D
      PROVE  renameWith[e.kids[i]][x][rs1].data \in D
  <2>0. i \in DOMAIN f.kids /\ e.kids[i] = f.kids[i]
    BY Kids
  <2>1. f.kids[i] \in Records /\ Parts[f.kids[i]] \subseteq AtomsNegated(n)
    BY <2>0, PartsWithin, Kids
  <2>2. RenamedWell(f.kids[i], x, renameWith[f.kids[i]][x][rs1])
    BY <1>1, <2>1, VariablesRenamed
  <2> QED BY <2>0, <2>2 DEF RenamedWell
<1>3. c1 \in D /\ Len(e.kids) \in Nat
  BY Kids
<1> HIDE DEF D
<1>4. \A i \in 0 .. Len(e.kids) : d[i] \in D
  BY <1>2, <1>3, ThreadWithin
<1> QED BY <1>4 DEF D

(* What renameWith makes of a record means what the record means.          *)
LEMMA RenamingSays ==
  ASSUME NEW I, NEW n \in Nat, NEW f0 \in Records,
         Parts[f0] \subseteq AtomsNegated(n), Distinct(f0)
  PROVE  \A c \in Nat : n <= c => \A rs \in Stacks(c) :
           LET g == renameWith[f0][c][rs].f
           IN Quiet(f0, rs) /\ g \in Records => RenamedSays(I, f0, rs, g)
<1> DEFINE Says_(f, c, rs) ==
             Quiet(f, rs) /\ renameWith[f][c][rs].f \in Records
               => RenamedSays(I, f, rs, renameWith[f][c][rs].f)
           T == {f \in Records : Parts[f] \subseteq AtomsNegated(n) /\ Distinct(f) =>
                   \A c \in Nat : n <= c => \A rs \in Stacks(c) : Says_(f, c, rs)}
<1>1. ASSUME NEW f \in Records, \A i \in DOMAIN f.kids : f.kids[i] \in T
      PROVE  f \in T
  <2> SUFFICES ASSUME Parts[f] \subseteq AtomsNegated(n), Distinct(f),
                      NEW c \in Nat, n <= c, NEW rs \in Stacks(c),
                      Quiet(f, rs), renameWith[f][c][rs].f \in Records
               PROVE  RenamedSays(I, f, rs, renameWith[f][c][rs].f)
    OBVIOUS
  <2> DEFINE r == renameWith[f][c][rs]
             g == r.f
  <2>1. /\ \A i \in DOMAIN f.kids : Uses(f.kids[i]) \subseteq Uses(f)
        /\ f.type \in Quantifiers => <<"binds", f.name>> \in Uses(f)
    BY UsesCases DEF Own
  <2>2. ASSUME NEW i \in DOMAIN f.kids, NEW x \in Nat, n <= x, NEW s \in Stacks(x),
               Quiet(f.kids[i], s), renameWith[f.kids[i]][x][s].f \in Records
        PROVE  RenamedSays(I, f.kids[i], s, renameWith[f.kids[i]][x][s].f)
    <3>1. f.kids[i] \in Records /\ Parts[f.kids[i]] \subseteq AtomsNegated(n)
      BY PartsWithin, Kids
    <3>2. Distinct(f.kids[i])
      BY <2>1 DEF Distinct
    <3> QED BY <1>1, <2>2, <3>1, <3>2
  <2>3. renameWith[f] = RenameBody(renameWith, f)
    BY RenameWithDef
  <2>4. rs \in Seq(AnyName \X AnyName)
    BY DEF Stacks
  <2>5. f.name[2] \in 0 .. n /\ f.name \in AnyName
    <3>1. f \in AtomsNegated(n)
      BY PartsWithin
    <3> QED BY <3>1, Kids DEF AtomsNegated, NoConditional, Named
  <2> HIDE DEF T
  <2>6. CASE f.type \in Quantifiers
    <3> DEFINE new == uniqueName(IF f.type = "Universal" THEN "uvar" ELSE "xvar", c)
               rs1 == <<<<f.name, new>>>> \o rs
               e == [f EXCEPT !.name = new]
    <3>1. r = Traverse(renameWith, e, c + 1, rs1)
      BY <2>3, <2>4, <2>6 DEF RenameBody
    <3>2. new[2] = c + 1 /\ new \in AnyName
      <4>1. (IF f.type = "Universal" THEN "uvar" ELSE "xvar") \in UniquePrefixes
        BY DEF UniquePrefixes
      <4>2. new[2] = c + 1
        BY DEF uniqueName
      <4> HIDE DEF new
      <4> QED BY <4>1, <4>2, UniqueIsName DEF new
    <3>3. /\ e = Semantic(e.type, e.name, e.kids)
          /\ e.type = f.type /\ e.name = new /\ e.kids = f.kids
      BY OtherName
    <3> HIDE DEF new, r, e
    <3>4. /\ rs1 \in Stacks(c + 1)
          /\ \A i \in DOMAIN rs1 : rs1[i][1] = f.name \/ \E j \in DOMAIN rs : rs1[i] = rs[j]
      BY <2>5, <3>2, StackGrows
    <3>5. 1 \in DOMAIN f.kids /\ DOMAIN f.kids = {1} /\ Len(f.kids) = 1
      BY <2>6, Operands, Kids DEF Shaped
    <3> HIDE DEF rs1
    <3>6. PICK d : Travels(r, d, renameWith, e, c + 1, rs1)
      <4>1. Len(e.kids) \in Nat
        BY <3>3, <3>5
      <4> QED BY <3>1, <3>3, <4>1, TraverseTravels
    <3>7. /\ g.type = f.type /\ g.name = new /\ DOMAIN g.kids = {1}
          /\ g.kids[1] = renameWith[f.kids[1]][c + 1][rs1].f
      <4>1. /\ g.type = f.type /\ g.name = new /\ DOMAIN g.kids = 1 .. 1
            /\ \A i \in 1 .. 1 : g.kids[i] = renameWith[f.kids[i]][d[i - 1]][rs1].f
            /\ d[0] = c + 1
        BY <3>3, <3>5, <3>6, Zenon DEF Travels, Threads
      <4>2. 1 - 1 = 0 /\ 1 \in 1 .. 1 /\ 1 .. 1 = {1}
        OBVIOUS
      <4> HIDE DEF g
      <4>3. g.kids[1] = renameWith[f.kids[1]][d[1 - 1]][rs1].f
        BY <4>1, <4>2, Zenon
      <4> QED BY <4>1, <4>2, <4>3, Zenon
    <3>8. g \in Records
      BY DEF r
    <3> HIDE DEF g
    <3>9. g.kids[1] \in Records
      BY <3>7, <3>8, Kids
    <3>10. Quiet(f.kids[1], rs1)
      <4> SUFFICES ASSUME NEW i \in DOMAIN rs1 PROVE <<"means", rs1[i][1]>> \notin Uses(f.kids[1])
        BY DEF Quiet
      <4>1. CASE rs1[i][1] = f.name
        BY <2>1, <2>6, <3>5, <4>1 DEF Distinct
      <4>2. CASE \E j \in DOMAIN rs : rs1[i] = rs[j]
        BY <2>1, <3>5, <4>2 DEF Quiet
      <4> QED BY <3>4, <4>1, <4>2
    <3>11. RenamedSays(I, f.kids[1], rs1, g.kids[1])
      <4>1. c + 1 \in Nat /\ n <= c + 1
        OBVIOUS
      <4> QED BY <2>2, <3>4, <3>5, <3>7, <3>9, <3>10, <4>1
    <3>12. ASSUME NEW x \in FreeVariables[f]
           PROVE  Find(rs, x, x) # g.name /\ Find(rs, x, x) \in AnyName
      <4>1. x \in AnyName /\ x[2] \in 0 .. n
        <5>1. PICK p \in Parts[f] : x = p.name
          BY FreeAreNames DEF Names
        <5>2. p \in AtomsNegated(n)
          BY <5>1
        <5> QED BY <5>1, <5>2, Kids DEF AtomsNegated, NoConditional, Named
      <4>2. Find(rs, x, x) \in AnyName /\ Find(rs, x, x)[2] \in 0 .. c
        BY <4>1, FindNumbered
      <4> QED BY <3>2, <3>7, <4>2
    <3>13. RenamedSays(I, f.kids[1], <<<<f.name, g.name>>>> \o rs, g.kids[1])
      BY <3>7, <3>11 DEF rs1
    <3>14. g.name \in AnyName
      BY <3>2, <3>7
    <3>15. RenamedSays(I, f, rs, g)
      BY <2>4, <2>6, <3>7, <3>8, <3>12, <3>13, <3>14, RenamedBinder
    <3> QED BY <3>15 DEF g, r
  <2>7. CASE f.type \notin Quantifiers
    <3> DEFINE name == Find(rs, f.name, f.name)
               e == [f EXCEPT !.name = name]
    <3>1. r = Traverse(renameWith, e, c, rs)
      BY <2>3, <2>4, <2>7 DEF RenameBody
    <3>2. /\ e = Semantic(e.type, e.name, e.kids)
          /\ e.type = f.type /\ e.name = name /\ e.kids = f.kids
      BY OtherName
    <3>3. f.type \notin Nameless => name = f.name
      BY <2>7, QuietFind
    <3> HIDE DEF name, r, e
    <3>4. Len(f.kids) \in Nat /\ DOMAIN f.kids = 1 .. Len(f.kids)
      BY Kids
    <3>5. PICK d : Travels(r, d, renameWith, e, c, rs)
      BY <3>1, <3>2, <3>4, TraverseTravels
    <3>6. /\ g.type = f.type /\ g.name = name /\ DOMAIN g.kids = DOMAIN f.kids
          /\ \A i \in DOMAIN f.kids : g.kids[i] = renameWith[f.kids[i]][d[i - 1]][rs].f
      BY <3>2, <3>4, <3>5 DEF Travels
    <3>7. g \in Records
      BY DEF r
    <3> HIDE DEF g
    <3>8. \A i \in 0 .. Len(f.kids) : d[i] \in Nat /\ c <= d[i]
      BY <3>2, <3>5, RenameCounters DEF Travels
    <3>9. ASSUME NEW i \in DOMAIN f.kids PROVE RenamedSays(I, f.kids[i], rs, g.kids[i])
      <4>1. i - 1 \in 0 .. Len(f.kids)
        BY <3>4
      <4>2. d[i - 1] \in Nat /\ c <= d[i - 1]
        BY <3>8, <4>1
      <4>3. rs \in Stacks(d[i - 1]) /\ n <= d[i - 1]
        BY <4>2 DEF Stacks
      <4>4. Quiet(f.kids[i], rs)
        BY <2>1 DEF Quiet
      <4>5. g.kids[i] \in Records
        BY <3>6, <3>7, Kids
      <4> QED BY <2>2, <3>6, <4>2, <4>3, <4>4, <4>5
    <3>10. ASSUME f.type = "Variable" PROVE RenamedSays(I, f, rs, g)
      <4>1. g.name = Find(rs, f.name, f.name) /\ g.type = f.type
        BY <3>6 DEF name
      <4> QED BY <3>7, <3>10, <4>1, RenamedVariable
    <3>11. ASSUME f.type # "Variable" PROVE RenamedSays(I, f, rs, g)
      <4>1. f.type \notin Nameless => g.name = f.name
        BY <3>3, <3>6
      <4>2. /\ g.type = f.type /\ DOMAIN g.kids = DOMAIN f.kids
            /\ f.type \notin Quantifiers \cup {"Variable"}
        BY <2>7, <3>6, <3>11
      <4> QED BY <3>7, <3>9, <4>1, <4>2, RenamedOther
    <3> QED BY <3>10, <3>11 DEF g, r
  <2> QED BY <2>6, <2>7
<1> HIDE DEF T, Says_
<1>2. Records \subseteq T
  BY <1>1, RecordInduction
<1> QED BY <1>2 DEF T, Says_

(* A term says nothing.                                                    *)
LEMMA TermsAreFalse ==
  ASSUME NEW I, NEW e, NEW f \in Records, f.type \in TermTypes
  PROVE  ~ Sat(I, e, f)
<1>1. f.type \notin Logical \cup Predicates \cup {"Equal"} /\ f.type # "LogicalConstant"
  BY DEF TermTypes, Logical, Quantifiers, Predicates
<1> QED BY <1>1, NoScope, OtherSays DEF Sat

(* renameVariables keeps the truth of a sentence.                          *)
THEOREM RenameVariablesSays ==
  ASSUME NEW n \in Nat, NEW f \in Records, Parts[f] \subseteq AtomsNegated(n),
         Distinct(f), FreeVariables[f] = {},
         renameVariables(f, n).f \in Records
  PROVE  /\ FreeVariables[renameVariables(f, n).f] = {}
         /\ \A I, e, d : Sat(I, e, f) <=> Sat(I, d, renameVariables(f, n).f)
<1> DEFINE g == renameVariables(f, n).f
           none == <<>>
<1>1. none \in Stacks(n) /\ Quiet(f, none)
  BY DEF Stacks, Quiet
<1>2. g = renameWith[f][n][none].f
  BY DEF renameVariables
<1>3. g \in Records
  OBVIOUS
<1> HIDE DEF none, g
<1>4. ASSUME NEW I PROVE RenamedSays(I, f, none, g)
  BY <1>1, <1>2, <1>3, RenamingSays
<1>5. FreeVariables[g] = {}
  BY <1>4 DEF RenamedSays
<1>6. PICK v \in Envs : TRUE
  <2>1. PICK a : a \in Domain
    BY DomainAssumption
  <2>2. [x \in AnyName |-> a] \in Envs
    BY <2>1 DEF Envs
  <2> QED BY <2>2
<1>7. g.type = f.type
  BY <1>1, <1>2, VariablesRenamed DEF RenamedWell
<1>8. ASSUME NEW I, NEW e, NEW d PROVE Sat(I, e, f) <=> Sat(I, d, g)
  <2>1. Sat(I, e, f) <=> Sat(I, v, f)
    BY AgreeItself, SatDepends DEF SameOn
  <2>2. Sat(I, d, g) <=> Sat(I, v, g)
    BY <1>3, <1>5, AgreeItself, SatDepends DEF SameOn
  <2>3. Sat(I, v, f) <=> Sat(I, v, g)
    <3>1. Matches(I, v, f, v, g)
      BY <1>4, <1>6 DEF RenamedSays, Carried
    <3>2. CASE f.type \in TermTypes
      BY <1>3, <1>7, <3>2, TermsAreFalse
    <3>3. CASE f.type \notin TermTypes
      BY <3>1, <3>3 DEF Matches
    <3> QED BY <3>2, <3>3
  <2> QED BY <2>1, <2>2, <2>3
<1> QED BY <1>5, <1>8 DEF g

-----------------------------------------------------------------------------
(* Without its universal quantifiers a formula says the same of all values *)
(* of its variables.                                                       *)

Spreads(I, f, g) ==
  \A e \in Envs : Sat(I, e, f) <=>
    \A d \in Envs : SameOn(FreeVariables[f], e, d) => Sat(I, d, g)

(* The names that quantifiers bind in a record, by the records below.      *)
LEMMA BinderCases ==
  ASSUME NEW f \in Records
  PROVE  BinderNames(f) = (IF f.type \in Quantifiers THEN {f.name} ELSE {})
                            \cup UNION {BinderNames(f.kids[i]) : i \in DOMAIN f.kids}
<1>1. Parts[f] = {f} \cup UNION {Parts[f.kids[i]] : i \in DOMAIN f.kids}
  BY PartsDef
<1> QED BY <1>1 DEF BinderNames, Binders

(* A record without a quantifier to drop.                                  *)
LEMMA SpreadsItself ==
  ASSUME NEW I, NEW f \in Records, NEW g \in Records,
         FreeVariables[g] = FreeVariables[f],
         \A e \in Envs : Sat(I, e, f) <=> Sat(I, e, g)
  PROVE  Spreads(I, f, g)
<1> SUFFICES ASSUME NEW e \in Envs
             PROVE  Sat(I, e, f) <=>
                      \A d \in Envs : SameOn(FreeVariables[f], e, d) => Sat(I, d, g)
  BY DEF Spreads
<1>1. \A d \in Envs : SameOn(FreeVariables[f], e, d) => (Sat(I, e, g) <=> Sat(I, d, g))
  BY AgreeItself, SatDepends
<1>2. SameOn(FreeVariables[f], e, e)
  BY DEF SameOn
<1> QED BY <1>1, <1>2

(* Quantifiers of both operands may be dropped: their variables are apart. *)
LEMMA SpreadsJoin ==
  ASSUME NEW I, NEW f \in Records, NEW g \in Records, f.type \in {"And", "Or"},
         g.type = f.type, NEW V1, NEW V2, V1 \cap V2 = {},
         (V1 \cup V2) \cap FreeVariables[f] = {},
         FreeVariables[g.kids[1]] \subseteq FreeVariables[f.kids[1]] \cup V1,
         FreeVariables[g.kids[2]] \subseteq FreeVariables[f.kids[2]] \cup V2,
         Spreads(I, f.kids[1], g.kids[1]), Spreads(I, f.kids[2], g.kids[2])
  PROVE  Spreads(I, f, g)
<1> DEFINE f1 == f.kids[1]
           f2 == f.kids[2]
           g1 == g.kids[1]
           g2 == g.kids[2]
<1>1. /\ 1 \in DOMAIN f.kids /\ 2 \in DOMAIN f.kids /\ f.type \notin Quantifiers
      /\ f1 \in Records /\ f2 \in Records /\ g1 \in Records /\ g2 \in Records
  BY Operands DEF Binary, Quantifiers
<1>2. /\ FreeVariables[f1] \subseteq FreeVariables[f]
      /\ FreeVariables[f2] \subseteq FreeVariables[f]
  BY <1>1, FreeBelow
<1>3. ASSUME NEW e PROVE /\ f.type = "And" => (Sat(I, e, f) <=> Sat(I, e, f1) /\ Sat(I, e, f2))
                         /\ f.type = "Or" => (Sat(I, e, f) <=> Sat(I, e, f1) \/ Sat(I, e, f2))
                         /\ f.type = "And" => (Sat(I, e, g) <=> Sat(I, e, g1) /\ Sat(I, e, g2))
                         /\ f.type = "Or" => (Sat(I, e, g) <=> Sat(I, e, g1) \/ Sat(I, e, g2))
  BY SatCases
<1>4. /\ Spreads(I, f1, g1) /\ Spreads(I, f2, g2)
      /\ FreeVariables[g1] \subseteq FreeVariables[f1] \cup V1
      /\ FreeVariables[g2] \subseteq FreeVariables[f2] \cup V2
  OBVIOUS
<1> HIDE DEF f1, f2, g1, g2
<1> SUFFICES ASSUME NEW e \in Envs
             PROVE  Sat(I, e, f) <=>
                      \A d \in Envs : SameOn(FreeVariables[f], e, d) => Sat(I, d, g)
  BY DEF Spreads
<1>5. /\ Sat(I, e, f1) <=> \A d \in Envs : SameOn(FreeVariables[f1], e, d) => Sat(I, d, g1)
      /\ Sat(I, e, f2) <=> \A d \in Envs : SameOn(FreeVariables[f2], e, d) => Sat(I, d, g2)
  BY <1>4 DEF Spreads
<1>6. ASSUME Sat(I, e, f), NEW d \in Envs, SameOn(FreeVariables[f], e, d)
      PROVE  Sat(I, d, g)
  <2>1. SameOn(FreeVariables[f1], e, d) /\ SameOn(FreeVariables[f2], e, d)
    BY <1>2, <1>6 DEF SameOn
  <2> QED BY <1>3, <1>5, <1>6, <2>1
<1>7. ASSUME \A d \in Envs : SameOn(FreeVariables[f], e, d) => Sat(I, d, g),
             NEW d1 \in Envs, SameOn(FreeVariables[f1], e, d1),
             NEW d2 \in Envs, SameOn(FreeVariables[f2], e, d2)
      PROVE  /\ f.type = "And" => Sat(I, d1, g1) /\ Sat(I, d2, g2)
             /\ f.type = "Or" => Sat(I, d1, g1) \/ Sat(I, d2, g2)
  <2> DEFINE d == [x \in AnyName |-> IF x \in V1 THEN d1[x]
                                     ELSE IF x \in V2 THEN d2[x] ELSE e[x]]
  <2>1. d \in Envs
    BY DEF Envs
  <2>2. ASSUME NEW x \in AnyName
        PROVE  /\ x \in V1 => d[x] = d1[x]
               /\ x \in V2 => d[x] = d2[x]
               /\ x \notin V1 \cup V2 => d[x] = e[x]
    OBVIOUS
  <2> HIDE DEF d
  <2>3. /\ FreeVariables[f] \subseteq AnyName /\ FreeVariables[g1] \subseteq AnyName
        /\ FreeVariables[g2] \subseteq AnyName
    BY <1>1, FreeAreNames
  <2>4. SameOn(FreeVariables[f], e, d)
    BY <2>2, <2>3 DEF SameOn
  <2>5. SameOn(FreeVariables[g1], d, d1)
    <3> SUFFICES ASSUME NEW x \in FreeVariables[g1] PROVE d[x] = d1[x]
      BY DEF SameOn
    <3>1. CASE x \in V1
      BY <2>2, <2>3, <3>1
    <3>2. CASE x \in FreeVariables[f1]
      <4>1. x \notin V1 \cup V2 /\ d1[x] = e[x]
        BY <1>2, <1>7, <3>2 DEF SameOn
      <4> QED BY <2>2, <2>3, <4>1
    <3> QED BY <1>4, <3>1, <3>2
  <2>6. SameOn(FreeVariables[g2], d, d2)
    <3> SUFFICES ASSUME NEW x \in FreeVariables[g2] PROVE d[x] = d2[x]
      BY DEF SameOn
    <3>1. CASE x \in V2
      BY <2>2, <2>3, <3>1
    <3>2. CASE x \in FreeVariables[f2]
      <4>1. x \notin V1 \cup V2 /\ d2[x] = e[x]
        BY <1>2, <1>7, <3>2 DEF SameOn
      <4> QED BY <2>2, <2>3, <4>1
    <3> QED BY <1>4, <3>1, <3>2
  <2>7. /\ Sat(I, d, g1) <=> Sat(I, d1, g1)
        /\ Sat(I, d, g2) <=> Sat(I, d2, g2)
    BY <1>1, <2>5, <2>6, AgreeItself, SatDepends
  <2>8. Sat(I, d, g)
    BY <1>7, <2>1, <2>4
  <2> QED BY <1>3, <2>7, <2>8
<1>8. ASSUME \A d \in Envs : SameOn(FreeVariables[f], e, d) => Sat(I, d, g)
      PROVE  Sat(I, e, f)
  <2>1. SameOn(FreeVariables[f1], e, e) /\ SameOn(FreeVariables[f2], e, e)
    BY DEF SameOn
  <2>2. CASE f.type = "And"
    <3>1. Sat(I, e, f1) /\ Sat(I, e, f2)
      BY <1>5, <1>7, <1>8, <2>1, <2>2
    <3> QED BY <1>3, <2>2, <3>1
  <2>3. CASE f.type = "Or"
    <3> SUFFICES ASSUME ~ Sat(I, e, f1), ~ Sat(I, e, f2) PROVE FALSE
      BY <1>3, <2>3
    <3>1. PICK d1 \in Envs : SameOn(FreeVariables[f1], e, d1) /\ ~ Sat(I, d1, g1)
      BY <1>5
    <3>2. PICK d2 \in Envs : SameOn(FreeVariables[f2], e, d2) /\ ~ Sat(I, d2, g2)
      BY <1>5
    <3> QED BY <1>7, <1>8, <2>3, <3>1, <3>2
  <2> QED BY <2>2, <2>3
<1> QED BY <1>6, <1>8

(* A universal quantifier may be dropped.                                  *)
LEMMA SpreadsUniversal ==
  ASSUME NEW I, NEW f \in Records, NEW g \in Records, f.type = "Universal",
         Spreads(I, f.kids[1], g)
  PROVE  Spreads(I, f, g)
<1> DEFINE b == f.kids[1]
           x == f.name
<1>1. /\ b \in Records /\ x \in AnyName /\ FreeVariables[b] \subseteq AnyName
      /\ FreeVariables[f] = FreeVariables[b] \ {x}
  BY Operands, Kids, FreeCases, FreeAreNames DEF Quantifiers
<1>2. \A e \in Envs : Sat(I, e, f) <=> \A v \in Domain : Sat(I, Bound(e, x, v), b)
  BY SatAll
<1>3. Spreads(I, b, g)
  OBVIOUS
<1> HIDE DEF b, x
<1> SUFFICES ASSUME NEW e \in Envs
             PROVE  Sat(I, e, f) <=>
                      \A d \in Envs : SameOn(FreeVariables[f], e, d) => Sat(I, d, g)
  BY DEF Spreads
<1>4. ASSUME NEW v \in Domain
      PROVE  /\ Bound(e, x, v) \in Envs /\ Bound(e, x, v)[x] = v
             /\ \A y \in AnyName : y # x => Bound(e, x, v)[y] = e[y]
  BY <1>1, BoundIs
<1>5. ASSUME Sat(I, e, f), NEW d \in Envs, SameOn(FreeVariables[f], e, d)
      PROVE  Sat(I, d, g)
  <2>1. d[x] \in Domain
    BY <1>1 DEF Envs
  <2>2. SameOn(FreeVariables[b], Bound(e, x, d[x]), d)
    BY <1>1, <1>4, <1>5, <2>1 DEF SameOn
  <2>3. Sat(I, Bound(e, x, d[x]), b)
    BY <1>2, <1>5, <2>1
  <2> QED BY <1>3, <1>4, <2>1, <2>2, <2>3 DEF Spreads
<1>6. ASSUME \A d \in Envs : SameOn(FreeVariables[f], e, d) => Sat(I, d, g),
             NEW v \in Domain
      PROVE  Sat(I, Bound(e, x, v), b)
  <2> SUFFICES ASSUME NEW d \in Envs, SameOn(FreeVariables[b], Bound(e, x, v), d)
               PROVE  Sat(I, d, g)
    BY <1>3, <1>4 DEF Spreads
  <2>1. SameOn(FreeVariables[f], e, d)
    BY <1>1, <1>4 DEF SameOn
  <2> QED BY <1>6, <2>1
<1> QED BY <1>2, <1>5, <1>6

(* What removeUniversals makes of a formula without existential            *)
(* quantifiers, all of whose variables are told apart.                     *)
LEMMA UniversalsSpread ==
  ASSUME NEW I, NEW n \in Nat, NEW f0 \in Records, Parts[f0] \subseteq NoExistential(n),
         BindOnce[f0], BinderNames(f0) \cap FreeVariables[f0] = {},
         removeUniversals[f0] \in Records
  PROVE  /\ FreeVariables[removeUniversals[f0]] \subseteq FreeVariables[f0] \cup BinderNames(f0)
         /\ Spreads(I, f0, removeUniversals[f0])
<1> DEFINE op == removeUniversals
           Good(f) ==
             /\ FreeVariables[op[f]] \subseteq FreeVariables[f] \cup BinderNames(f)
             /\ Spreads(I, f, op[f])
           T == {f \in Records :
                   Parts[f] \subseteq NoExistential(n) /\ BindOnce[f]
                   /\ BinderNames(f) \cap FreeVariables[f] = {} /\ op[f] \in Records
                     => Good(f)}
<1>1. ASSUME NEW f \in Records, \A i \in DOMAIN f.kids : f.kids[i] \in T
      PROVE  f \in T
  <2> SUFFICES ASSUME Parts[f] \subseteq NoExistential(n), BindOnce[f],
                      BinderNames(f) \cap FreeVariables[f] = {}, op[f] \in Records
               PROVE  Good(f)
    OBVIOUS
  <2> DEFINE g == OnBranches(op, f)
  <2>1. op[f] = IF g.type = "Universal" THEN g.kids[1] ELSE g
    BY UniversalsDef DEF UniversalsBody
  <2>2. /\ g.type = f.type /\ g.name = f.name /\ DOMAIN g.kids = DOMAIN f.kids
        /\ f.type \notin Branching => g = f
        /\ f.type \in Branching => \A i \in DOMAIN f.kids : g.kids[i] = op[f.kids[i]]
    BY BranchFacts, Kids
  <2>3. /\ f \in NoExistential(n)
        /\ \A i \in DOMAIN f.kids : Parts[f.kids[i]] \subseteq NoExistential(n)
    BY PartsWithin
  <2>4. \A t \in Records : t.type \notin Branching => op[t] = t
    BY UniversalsDef DEF UniversalsBody, OnBranches, Branching, Quantifiers
  <2>5. \A t \in Records : t.type \notin Logical => op[t] = t
    <3>1. ASSUME NEW t \in Records, t.type \notin Logical PROVE op[t] = t
      <4> HIDE DEF g, op
      <4>1. OnBranches(op, t) = t
        BY <2>4, <3>1, AtomsStay
      <4>2. t.type # "Universal"
        BY <3>1 DEF Logical, Quantifiers
      <4> QED BY <4>1, <4>2, UniversalsDef DEF UniversalsBody, op
    <3> QED BY <3>1
  <2>6. /\ \A i \in DOMAIN f.kids : BindOnce[f.kids[i]]
        /\ f.type \in Quantifiers => f.name \notin BinderNames(f.kids[1])
        /\ \A i, j \in DOMAIN f.kids :
             i # j => BinderNames(f.kids[i]) \cap BinderNames(f.kids[j]) = {}
    BY BindOnceDef DEF BindOnceBody
  <2> HIDE DEF g, op
  <2>7. ASSUME NEW i \in DOMAIN f.kids, op[f.kids[i]] \in Records,
               BinderNames(f.kids[i]) \cap FreeVariables[f.kids[i]] = {}
        PROVE  Good(f.kids[i])
    BY <1>1, <2>3, <2>6, <2>7
  <2>8. BinderNames(f) = (IF f.type \in Quantifiers THEN {f.name} ELSE {})
                            \cup UNION {BinderNames(f.kids[i]) : i \in DOMAIN f.kids}
    BY BinderCases
  <2> HIDE DEF T, Good
  <2>9. CASE f.type \notin Logical
    <3>1. op[f] = f
      BY <2>5, <2>9
    <3>2. Spreads(I, f, f)
      BY SpreadsItself
    <3> QED BY <3>1, <3>2 DEF Good
  <2>10. CASE f.type = "Negation"
    <3>1. /\ f.kids[1] \in Records /\ 1 \in DOMAIN f.kids
          /\ f.type \in Branching /\ f.type # "Universal" /\ f.type \notin Quantifiers
      BY <2>10, Operands DEF Branching, Quantifiers
    <3>2. f.kids[1].type \notin Pushable
      BY <2>3, <2>10 DEF NoExistential, AtomsNegated
    <3>3. f.kids[1].type \notin {"Conditional", "Biconditional"}
      <4>1. f.kids[1] \in NoExistential(n)
        BY <2>3, <3>1, PartsAreRecords
      <4> QED BY <4>1 DEF NoExistential, AtomsNegated, NoConditional
    <3>4. f.kids[1].type \notin Logical
      BY <3>2, <3>3 DEF Logical, Pushable
    <3>5. op[f] = g /\ g \in Records /\ g.kids[1] = f.kids[1]
      BY <2>1, <2>2, <2>5, <3>1, <3>4
    <3>6. FreeVariables[g] = FreeVariables[f]
      <4>1. DOMAIN f.kids = {1} /\ DOMAIN g.kids = {1}
        BY <2>2, <2>10, Operands
      <4>2. FreeVariables[f] = UNION {FreeVariables[f.kids[i]] : i \in DOMAIN f.kids}
        BY <2>10, FreeCases DEF Quantifiers
      <4>3. FreeVariables[g] = UNION {FreeVariables[g.kids[i]] : i \in DOMAIN g.kids}
        BY <2>2, <2>10, <3>5, FreeCases DEF Quantifiers
      <4> QED BY <3>5, <4>1, <4>2, <4>3
    <3>7. \A e \in Envs : Sat(I, e, f) <=> Sat(I, e, g)
      BY <2>2, <2>10, <3>5, SatCases
    <3>8. Spreads(I, f, g)
      BY <3>5, <3>6, <3>7, SpreadsItself
    <3> QED BY <3>5, <3>6, <3>8 DEF Good
  <2>11. CASE f.type = "Universal"
    <3>1. /\ f.type \in Branching /\ f.type \in Quantifiers /\ 1 \in DOMAIN f.kids
          /\ f.kids[1] \in Records /\ DOMAIN f.kids = {1}
      BY <2>11, Operands DEF Branching, Quantifiers
    <3>2. op[f] = op[f.kids[1]]
      BY <2>1, <2>2, <2>11, <3>1
    <3>3. FreeVariables[f] = FreeVariables[f.kids[1]] \ {f.name}
      BY <3>1, FreeCases
    <3>4. BinderNames(f) = {f.name} \cup BinderNames(f.kids[1])
      BY <2>8, <3>1
    <3>5. BinderNames(f.kids[1]) \cap FreeVariables[f.kids[1]] = {}
      BY <2>6, <3>1, <3>3, <3>4
    <3>6. Good(f.kids[1])
      BY <2>7, <3>1, <3>2, <3>5
    <3>7. Spreads(I, f, op[f])
      BY <2>11, <3>2, <3>6, SpreadsUniversal DEF Good
    <3> QED BY <3>2, <3>3, <3>4, <3>6, <3>7 DEF Good
  <2>12. CASE f.type \in {"And", "Or"}
    <3>1. /\ f.type \in Branching /\ f.type # "Universal" /\ f.type \notin Quantifiers
          /\ DOMAIN f.kids = {1, 2} /\ f.type # "Variable"
      BY <2>12, Operands DEF Branching, Binary, Quantifiers
    <3>2. op[f] = g /\ g \in Records
      BY <2>1, <2>2, <3>1
    <3>3. FreeVariables[f] = FreeVariables[f.kids[1]] \cup FreeVariables[f.kids[2]]
      <4>1. FreeVariables[f] = UNION {FreeVariables[f.kids[i]] : i \in DOMAIN f.kids}
        BY <3>1, FreeCases
      <4> QED BY <3>1, <4>1
    <3>4. FreeVariables[g] = FreeVariables[g.kids[1]] \cup FreeVariables[g.kids[2]]
      <4>1. FreeVariables[g] = UNION {FreeVariables[g.kids[i]] : i \in DOMAIN g.kids}
        BY <2>2, <3>1, <3>2, FreeCases
      <4> QED BY <2>2, <3>1, <4>1
    <3>5. BinderNames(f) = BinderNames(f.kids[1]) \cup BinderNames(f.kids[2])
      BY <2>8, <3>1
    <3>6. ASSUME NEW i \in {1, 2} PROVE Good(f.kids[i]) /\ g.kids[i] = op[f.kids[i]]
      <4>1. g.kids[i] = op[f.kids[i]] /\ g.kids[i] \in Records
        BY <2>2, <3>1, <3>2, Kids
      <4>2. BinderNames(f.kids[i]) \cap FreeVariables[f.kids[i]] = {}
        BY <3>3, <3>5
      <4> QED BY <2>7, <3>1, <4>1, <4>2
    <3>7. /\ Spreads(I, f.kids[1], g.kids[1]) /\ Spreads(I, f.kids[2], g.kids[2])
          /\ FreeVariables[g.kids[1]] \subseteq FreeVariables[f.kids[1]] \cup BinderNames(f.kids[1])
          /\ FreeVariables[g.kids[2]] \subseteq FreeVariables[f.kids[2]] \cup BinderNames(f.kids[2])
      BY <3>6 DEF Good
    <3>8. BinderNames(f.kids[1]) \cap BinderNames(f.kids[2]) = {}
      BY <2>6, <3>1
    <3>9. (BinderNames(f.kids[1]) \cup BinderNames(f.kids[2])) \cap FreeVariables[f] = {}
      BY <3>5
    <3> HIDE DEF BinderNames
    <3>10. Spreads(I, f, g)
      BY <2>2, <2>12, <3>2, <3>7, <3>8, <3>9, SpreadsJoin
    <3> QED BY <3>2, <3>3, <3>4, <3>5, <3>7, <3>10 DEF Good
  <2>13. f.type \notin {"Existential", "Conditional", "Biconditional"}
    BY <2>3 DEF NoExistential, AtomsNegated, NoConditional
  <2> QED BY <2>9, <2>10, <2>11, <2>12, <2>13 DEF Logical, Quantifiers
<1> HIDE DEF T, Good
<1>2. Records \subseteq T
  BY <1>1, RecordInduction
<1> QED BY <1>2 DEF T, Good, op

(* So the one is true when the other is.                                   *)
LEMMA UniversalsAllSat ==
  ASSUME NEW I, NEW n \in Nat, NEW f \in Records, Parts[f] \subseteq NoExistential(n),
         BindOnce[f], FreeVariables[f] = {}, removeUniversals[f] \in Records
  PROVE  AllSat(I, f) <=> AllSat(I, removeUniversals[f])
<1>1. Spreads(I, f, removeUniversals[f])
  BY UniversalsSpread
<1>2. \A e : SameOn(FreeVariables[f], e, e)
  BY DEF SameOn
<1> QED BY <1>1, <1>2 DEF AllSat, Spreads
-----------------------------------------------------------------------------
(***************************************************************************)
(* What skolemize returns: it implies what it was given, and functions can *)
(* be chosen such that it is implied.                                      *)
(***************************************************************************)

(* What skolemizeIn does with a record, case by case.                      *)
SkolemCases(f, x, s) ==
  LET r == skolemizeIn[f][x][s]
  IN /\ f.type = "Universal" => r = Traverse(skolemizeIn, f, x, Append(s, f.name))
     /\ f.type = "Variable" => r = [f |-> Find(x.fns, f.name, f), data |-> x]
     /\ f.type \notin {"Universal", "Existential", "Variable"} =>
          r = Traverse(skolemizeIn, f, x, s)

(* skolemizeIn does what the cases say.                                    *)
LEMMA SkolemizeCases ==
  ASSUME NEW f \in Records, NEW x \in SkolemData, NEW s \in Seq(AnyName)
  PROVE  SkolemCases(f, x, s)
<1>1. skolemizeIn[f] = SkolemizeBody(skolemizeIn, f)
  BY SkolemizeDef
<1>2. CASE f.type = "Universal"
  <2>1. skolemizeIn[f][x][s] = Traverse(skolemizeIn, f, x, Append(s, f.name))
    BY <1>1, <1>2 DEF SkolemizeBody
  <2> QED BY <1>2, <2>1 DEF SkolemCases
<1>3. CASE f.type = "Existential"
  BY <1>3 DEF SkolemCases
<1>4. CASE f.type = "Variable"
  <2>1. skolemizeIn[f][x][s] = [f |-> Find(x.fns, f.name, f), data |-> x]
    BY <1>1, <1>4 DEF SkolemizeBody
  <2> QED BY <1>4, <2>1 DEF SkolemCases
<1>5. CASE f.type \notin {"Universal", "Existential", "Variable"}
  <2>1. skolemizeIn[f][x][s] = Traverse(skolemizeIn, f, x, s)
    BY <1>1, <1>5 DEF SkolemizeBody
  <2> QED BY <1>5, <2>1 DEF SkolemCases
<1> QED BY <1>2, <1>3, <1>4, <1>5

(* The record r.f with one kid q.f, and with two.                          *)
Above(f, r, q) ==
  /\ r.f.type = f.type /\ r.f.name = f.name /\ DOMAIN r.f.kids = {1}
  /\ r.f.kids[1] = q.f /\ r.data = q.data

Beside(f, r, p, q) ==
  /\ r.f.type = f.type /\ r.f.name = f.name /\ DOMAIN r.f.kids = {1, 2}
  /\ r.f.kids[1] = p.f /\ r.f.kids[2] = q.f /\ r.data = q.data

(* The one kid of a record, and the two of a connective.                   *)
LEMMA TraverseOne ==
  ASSUME NEW op, NEW f \in Records, f.type \in Quantifiers \cup {"Negation"},
         NEW data, NEW env
  PROVE  Above(f, Traverse(op, f, data, env), op[f.kids[1]][data][env])
<1> DEFINE r == Traverse(op, f, data, env)
           q == op[f.kids[1]][data][env]
<1>1. /\ Len(f.kids) = 1 /\ f = Semantic(f.type, f.name, f.kids)
  BY Kids DEF Shaped
<1>2. PICK d : Travels(r, d, op, f, data, env)
  BY <1>1, TraverseTravels
<1> HIDE DEF r
<1>3. /\ r.data = d[1] /\ d[0] = data /\ DOMAIN r.f.kids = 1 .. 1
      /\ r.f.type = f.type /\ r.f.name = f.name
      /\ \A i \in 1 .. 1 : d[i] = op[f.kids[i]][d[i - 1]][env].data
      /\ \A i \in 1 .. 1 : r.f.kids[i] = op[f.kids[i]][d[i - 1]][env].f
  BY <1>1, <1>2 DEF Travels, Threads
<1>4. d[1] = op[f.kids[1]][d[0]][env].data /\ r.f.kids[1] = op[f.kids[1]][d[0]][env].f
  BY <1>3
<1>5. d[1] = q.data /\ r.f.kids[1] = q.f
  BY <1>3, <1>4
<1> HIDE DEF q
<1>6. Above(f, r, q)
  BY <1>3, <1>5 DEF Above
<1> QED BY <1>6 DEF r, q

(* The two indices of the operands.                                        *)
LEMMA OneTwo == 1 \in 1 .. 2 /\ 2 \in 1 .. 2 /\ 1 - 1 = 0 /\ 2 - 1 = 1
OBVIOUS

(* Traverse visits the first operand and then, with what it left, the      *)
(* second.                                                                 *)
LEMMA TraverseTwo ==
  ASSUME NEW op, NEW f \in Records, f.type \in Binary, NEW data, NEW env
  PROVE  Beside(f, Traverse(op, f, data, env), op[f.kids[1]][data][env],
                op[f.kids[2]][op[f.kids[1]][data][env].data][env])
<1> DEFINE r == Traverse(op, f, data, env)
           q1 == op[f.kids[1]][data][env]
           q2 == op[f.kids[2]][q1.data][env]
<1>1. /\ Len(f.kids) = 2 /\ f = Semantic(f.type, f.name, f.kids)
      /\ Len(f.kids) \in Nat
  BY Kids DEF Shaped
<1>2. PICK d : Travels(r, d, op, f, data, env)
  BY <1>1, TraverseTravels, Zenon
<1> HIDE DEF r
<1>3. /\ r.data = d[2] /\ d[0] = data /\ DOMAIN r.f.kids = 1 .. 2
      /\ r.f.type = f.type /\ r.f.name = f.name
      /\ \A i \in 1 .. 2 : d[i] = op[f.kids[i]][d[i - 1]][env].data
      /\ \A i \in 1 .. 2 : r.f.kids[i] = op[f.kids[i]][d[i - 1]][env].f
  BY <1>1, <1>2 DEF Travels, Threads
<1>4. /\ d[1] = op[f.kids[1]][d[0]][env].data /\ r.f.kids[1] = op[f.kids[1]][d[0]][env].f
      /\ d[2] = op[f.kids[2]][d[1]][env].data /\ r.f.kids[2] = op[f.kids[2]][d[1]][env].f
  <2>1. /\ d[1] = op[f.kids[1]][d[1 - 1]][env].data
        /\ r.f.kids[1] = op[f.kids[1]][d[1 - 1]][env].f
        /\ d[2] = op[f.kids[2]][d[2 - 1]][env].data
        /\ r.f.kids[2] = op[f.kids[2]][d[2 - 1]][env].f
    BY <1>3, OneTwo, Zenon
  <2> QED BY <2>1, OneTwo, Zenon
<1>5. d[1] = q1.data /\ r.f.kids[1] = q1.f
  BY <1>3, <1>4, Zenon
<1>6. d[2] = q2.data /\ r.f.kids[2] = q2.f
  BY <1>4, <1>5
<1>7. 1 .. 2 = {1, 2}
  OBVIOUS
<1> HIDE DEF q1, q2
<1>8. Beside(f, r, q1, q2)
  BY <1>3, <1>5, <1>6, <1>7 DEF Beside
<1> QED BY <1>8 DEF r, q1, q2

Keys(fns) == {fns[i][1] : i \in DOMAIN fns}
Elements(s) == {s[i] : i \in DOMAIN s}
For(fns, v) == Find(fns, v, Leaf("Variable", v))

(* What is no operator of logic leaves the data as they are.               *)
LEMMA AtomsNameNothing ==
  ASSUME NEW f0 \in Records, f0.type \notin Logical
  PROVE  \A x \in SkolemData : \A s \in Seq(AnyName) : skolemizeIn[f0][x][s].data = x
<1> DEFINE T == {f \in Records : f.type \notin Logical =>
                   \A x \in SkolemData : \A s \in Seq(AnyName) :
                     skolemizeIn[f][x][s].data = x}
<1>1. ASSUME NEW f \in Records, \A i \in DOMAIN f.kids : f.kids[i] \in T
      PROVE  f \in T
  <2> SUFFICES ASSUME f.type \notin Logical, NEW x \in SkolemData, NEW s \in Seq(AnyName)
               PROVE  skolemizeIn[f][x][s].data = x
    OBVIOUS
  <2>1. SkolemCases(f, x, s)
    BY SkolemizeCases
  <2>2. \A i \in DOMAIN f.kids : f.kids[i].type \notin Logical
    <3>1. \A i \in DOMAIN f.kids : f.kids[i].type \in TermTypes
      BY Kids DEF Shaped
    <3> QED BY <3>1 DEF TermTypes, Logical, Quantifiers
  <2>3. \A i \in DOMAIN f.kids : skolemizeIn[f.kids[i]][x][s].data = x
    BY <1>1, <2>2
  <2>4. CASE f.type = "Variable"
    BY <2>1, <2>4 DEF SkolemCases
  <2>5. CASE f.type # "Variable"
    <3> DEFINE r == Traverse(skolemizeIn, f, x, s)
               D == {x}
    <3>1. skolemizeIn[f][x][s] = r
      BY <2>1, <2>5 DEF SkolemCases, Logical, Quantifiers
    <3>2. /\ Len(f.kids) \in Nat /\ f = Semantic(f.type, f.name, f.kids)
          /\ DOMAIN f.kids = 1 .. Len(f.kids)
      BY Kids
    <3>3. PICK d : Travels(r, d, skolemizeIn, f, x, s)
      BY <3>2, TraverseTravels
    <3> HIDE DEF r, T
    <3>4. x \in D /\ \A i \in 1 .. Len(f.kids) : \A y \in D : skolemizeIn[f.kids[i]][y][s].data \in D
      BY <2>3, <3>2
    <3> HIDE DEF D
    <3>5. \A i \in 0 .. Len(f.kids) : d[i] \in D
      BY <3>2, <3>3, <3>4, ThreadWithin DEF Travels
    <3>6. r.data \in D
      BY <3>2, <3>3, <3>5 DEF Travels
    <3> QED BY <3>1, <3>6 DEF D
  <2> QED BY <2>4, <2>5
<1> HIDE DEF T
<1>2. Records \subseteq T
  BY <1>1, RecordInduction
<1> QED BY <1>2 DEF T

(* Its kids are skolemized one by one.                                     *)
LEMMA AtomKids ==
  ASSUME NEW f \in Records, f.type \notin Logical, f.type # "Variable",
         NEW x \in SkolemData, NEW s \in Seq(AnyName)
  PROVE  LET r == skolemizeIn[f][x][s]
         IN /\ r.f.type = f.type /\ r.f.name = f.name
            /\ DOMAIN r.f.kids = DOMAIN f.kids
            /\ \A i \in DOMAIN f.kids : r.f.kids[i] = skolemizeIn[f.kids[i]][x][s].f
<1> DEFINE r == Traverse(skolemizeIn, f, x, s)
           D == {x}
<1>1. SkolemCases(f, x, s)
  BY SkolemizeCases
<1>2. skolemizeIn[f][x][s] = r
  BY <1>1 DEF SkolemCases, Logical, Quantifiers
<1>3. \A i \in DOMAIN f.kids : f.kids[i] \in Records /\ f.kids[i].type \notin Logical
  <2>1. \A i \in DOMAIN f.kids : f.kids[i] \in Records /\ f.kids[i].type \in TermTypes
    BY Kids DEF Shaped
  <2> QED BY <2>1 DEF TermTypes, Logical, Quantifiers
<1>4. \A i \in DOMAIN f.kids : skolemizeIn[f.kids[i]][x][s].data = x
  BY <1>3, AtomsNameNothing
<1>5. /\ Len(f.kids) \in Nat /\ f = Semantic(f.type, f.name, f.kids)
      /\ DOMAIN f.kids = 1 .. Len(f.kids)
  BY Kids
<1>6. PICK d : Travels(r, d, skolemizeIn, f, x, s)
  BY <1>5, TraverseTravels
<1> HIDE DEF r
<1>7. x \in D /\ \A i \in 1 .. Len(f.kids) : \A y \in D : skolemizeIn[f.kids[i]][y][s].data \in D
  BY <1>4, <1>5
<1> HIDE DEF D
<1>8. \A i \in 0 .. Len(f.kids) : d[i] \in D
  BY <1>5, <1>6, <1>7, ThreadWithin DEF Travels
<1>9. ASSUME NEW i \in DOMAIN f.kids PROVE r.f.kids[i] = skolemizeIn[f.kids[i]][x][s].f
  <2>1. i - 1 \in 0 .. Len(f.kids) /\ i \in 1 .. Len(f.kids)
    BY <1>5
  <2>2. d[i - 1] = x
    BY <1>8, <2>1 DEF D
  <2> QED BY <1>6, <2>1, <2>2 DEF Travels
<1> QED BY <1>2, <1>5, <1>6, <1>9 DEF Travels

Translates(J, e, d, f, fns) ==
  \A y \in FreeVariables[f] : e[y] = Val(J, d, For(fns, y))

(* What stands for a variable is a term.                                   *)
LEMMA ForIsTerm ==
  ASSUME NEW x \in Skolems, NEW y \in AnyName
  PROVE  For(x.fns, y) \in Records /\ For(x.fns, y).type \in TermTypes
<1>1. DOMAIN x.fns = 1 .. Len(x.fns) /\ Len(x.fns) \in Nat
  <2>1. x.fns \in Seq(AnyName \X Records)
    BY DEF Skolems, SkolemData
  <2> QED BY <2>1
<1>2. For(x.fns, y) = Leaf("Variable", y) \/ \E i \in DOMAIN x.fns : For(x.fns, y) = x.fns[i][2]
  BY <1>1, FindFacts DEF For
<1>3. "Variable" \in TermTypes
  BY DEF TermTypes
<1>4. Leaf("Variable", y) \in Records /\ Leaf("Variable", y).type \in TermTypes
  BY <1>3, LeafRecord
<1>5. \A i \in DOMAIN x.fns : x.fns[i][2] \in Records /\ x.fns[i][2].type \in TermTypes
  BY DEF Skolems
<1> QED BY <1>2, <1>4, <1>5

(* A variable is a record made of its name.                                *)
LEMMA VariableIsLeaf ==
  ASSUME NEW f \in Records, f.type = "Variable"
  PROVE  f = Leaf("Variable", f.name)
<1>1. f.kids = <<>>
  BY Kids DEF Shaped, TermTypes
<1>2. f = Semantic(f.type, f.name, f.kids)
  BY Kids
<1> QED BY <1>1, <1>2 DEF Leaf

AtomSays(J, f, x, g) ==
  /\ g.type \notin Logical
  /\ \A z \in FreeVariables[g] :
       \E y \in FreeVariables[f] : z \in FreeVariables[For(x.fns, y)]
  /\ \A e, d \in Envs : Translates(J, e, d, f, x.fns) => Matches(J, e, f, d, g)

(* An atom or a term means what it did when the terms are put in.          *)
LEMMA AtomsSkolemized ==
  ASSUME NEW J, NEW f0 \in Records, f0.type \notin Logical, NEW x \in Skolems,
         NEW s \in Seq(AnyName), skolemizeIn[f0][x][s].f \in Records
  PROVE  AtomSays(J, f0, x, skolemizeIn[f0][x][s].f)
<1> DEFINE G(f) == skolemizeIn[f][x][s].f
           T == {f \in Records : f.type \notin Logical /\ G(f) \in Records =>
                   AtomSays(J, f, x, G(f))}
<1>0. x \in SkolemData
  BY DEF Skolems
<1>1. ASSUME NEW f \in Records, \A i \in DOMAIN f.kids : f.kids[i] \in T
      PROVE  f \in T
  <2> SUFFICES ASSUME f.type \notin Logical, G(f) \in Records
               PROVE  AtomSays(J, f, x, G(f))
    OBVIOUS
  <2>1. CASE f.type = "Variable"
    <3>1. SkolemCases(f, x, s)
      BY <1>0, SkolemizeCases
    <3>2. G(f) = For(x.fns, f.name)
      BY <2>1, <3>1, VariableIsLeaf DEF SkolemCases, For
    <3> HIDE DEF G
    <3>3. FreeVariables[f] = {f.name} /\ f.name \in AnyName /\ f.type \in TermTypes
      BY <2>1, FreeCases, Kids DEF TermTypes
    <3>4. G(f).type \in TermTypes
      BY <3>2, <3>3, ForIsTerm
    <3>5. G(f).type \notin Logical
      BY <3>4 DEF TermTypes, Logical, Quantifiers
    <3>6. ASSUME NEW e \in Envs, NEW d \in Envs, Translates(J, e, d, f, x.fns)
          PROVE  Matches(J, e, f, d, G(f))
      <4>1. Val(J, e, f) = e[f.name]
        BY <2>1, ValVariable
      <4>2. e[f.name] = Val(J, d, G(f))
        BY <3>2, <3>3, <3>6 DEF Translates
      <4> QED BY <3>3, <4>1, <4>2 DEF Matches
    <3>7. \A z \in FreeVariables[G(f)] :
            \E y \in FreeVariables[f] : z \in FreeVariables[For(x.fns, y)]
      BY <3>2, <3>3
    <3> QED BY <3>5, <3>6, <3>7 DEF AtomSays
  <2>2. CASE f.type # "Variable"
    <3> DEFINE g == G(f)
    <3>1. /\ g.type = f.type /\ g.name = f.name
          /\ DOMAIN g.kids = DOMAIN f.kids
          /\ \A i \in DOMAIN f.kids : g.kids[i] = G(f.kids[i])
      BY <1>0, <2>2, AtomKids
    <3>2. g \in Records
      OBVIOUS
    <3> HIDE DEF g
    <3>3. \A i \in DOMAIN f.kids : f.kids[i] \in Records /\ f.kids[i].type \notin Logical
      <4>1. \A i \in DOMAIN f.kids : f.kids[i] \in Records /\ f.kids[i].type \in TermTypes
        BY Kids DEF Shaped
      <4> QED BY <4>1 DEF TermTypes, Logical, Quantifiers
    <3>4. \A i \in DOMAIN f.kids : g.kids[i] \in Records
      BY <3>1, <3>2, Kids
    <3>5. \A i \in DOMAIN f.kids : AtomSays(J, f.kids[i], x, g.kids[i])
      BY <1>1, <3>1, <3>3, <3>4
    <3> HIDE DEF T, G
    <3>6. f.type \notin Quantifiers /\ g.type \notin Quantifiers
      BY <3>1 DEF Logical
    <3>7. /\ FreeVariables[f] = UNION {FreeVariables[f.kids[i]] : i \in DOMAIN f.kids}
          /\ FreeVariables[g] = UNION {FreeVariables[g.kids[i]] : i \in DOMAIN f.kids}
      BY <2>2, <3>1, <3>2, <3>6, FreeCases
    <3>8. ASSUME NEW z \in FreeVariables[g]
          PROVE  \E y \in FreeVariables[f] : z \in FreeVariables[For(x.fns, y)]
      <4>1. PICK i \in DOMAIN f.kids : z \in FreeVariables[g.kids[i]]
        BY <3>7
      <4>2. PICK y \in FreeVariables[f.kids[i]] : z \in FreeVariables[For(x.fns, y)]
        BY <3>5, <4>1 DEF AtomSays
      <4> QED BY <3>7, <4>2
    <3>9. ASSUME NEW e \in Envs, NEW d \in Envs, Translates(J, e, d, f, x.fns)
          PROVE  Matches(J, e, f, d, g)
      <4>1. \A i \in DOMAIN f.kids : Translates(J, e, d, f.kids[i], x.fns)
        BY <3>7, <3>9 DEF Translates
      <4>2. \A i \in DOMAIN f.kids : Matches(J, e, f.kids[i], d, g.kids[i])
        BY <3>5, <4>1 DEF AtomSays
      <4> QED BY <2>2, <3>1, <3>2, <3>6, <4>2, KidsDecide
    <3>10. AtomSays(J, f, x, g)
      BY <3>1, <3>8, <3>9 DEF AtomSays
    <3> QED BY <3>10 DEF g
  <2> QED BY <2>1, <2>2
<1> HIDE DEF T
<1>2. Records \subseteq T
  BY <1>1, RecordInduction
<1> QED BY <1>2 DEF T

(* What skolemizeIn is called with, n being the greatest number in f.      *)
Ready(n, f, x, s) ==
  /\ f \in Records /\ Parts[f] \subseteq AtomsNegated(n)
  /\ x \in Skolems /\ n <= x.counter /\ s \in Scopes(x.counter)

(* The term for an existential variable, and the data that know of it.     *)
Witness(x, s) == SkolemTerm(uniqueName("skolem", x.counter), s)
Given(x, s, f) ==
  [counter |-> x.counter + 1, fns |-> Append(x.fns, <<f.name, Witness(x, s)>>)]

(* What the calls of skolemizeIn may rely on.                              *)
LEMMA ReadyFacts ==
  ASSUME NEW n \in Nat, NEW f, NEW x, NEW s, Ready(n, f, x, s)
  PROVE  /\ x \in SkolemData /\ s \in Seq(AnyName) /\ x.counter \in Nat
         /\ x.fns \in Seq(AnyName \X Records)
         /\ f.type \notin {"Conditional", "Biconditional"}
         /\ f.name \in AnyName /\ f.name[2] \in 0 .. n
         /\ \A i \in DOMAIN f.kids :
              f.kids[i] \in Records /\ Parts[f.kids[i]] \subseteq AtomsNegated(n)
<1>1. f \in Records /\ f \in AtomsNegated(n)
  BY PartsWithin DEF Ready
<1>2. \A i \in DOMAIN f.kids :
        f.kids[i] \in Records /\ Parts[f.kids[i]] \subseteq AtomsNegated(n)
  BY <1>1, PartsWithin, Kids DEF Ready
<1>3. f.name \in AnyName
  BY <1>1, Kids
<1> QED BY <1>1, <1>2, <1>3 DEF Ready, Skolems, SkolemData, Scopes, AtomsNegated, NoConditional, Named

(* The call for the kid of a universal quantifier may rely on it too.      *)
LEMMA ReadyUniversal ==
  ASSUME NEW n \in Nat, NEW f, NEW x, NEW s, Ready(n, f, x, s), f.type = "Universal"
  PROVE  Ready(n, f.kids[1], x, Append(s, f.name))
<1>1. s \in Seq(AnyName) /\ x.counter \in Nat /\ f.name \in AnyName /\ f.name[2] \in 0 .. n
  BY ReadyFacts
<1>2. Append(s, f.name) \in Scopes(x.counter)
  <2>1. Append(s, f.name) \in Seq(AnyName)
    BY <1>1
  <2>2. \A i \in DOMAIN Append(s, f.name) :
          Append(s, f.name)[i] = f.name \/ \E j \in DOMAIN s : Append(s, f.name)[i] = s[j]
    BY <1>1
  <2>3. f.name[2] \in 0 .. x.counter
    BY <1>1 DEF Ready
  <2> QED BY <2>1, <2>2, <2>3 DEF Scopes, Ready
<1>3. 1 \in DOMAIN f.kids
  BY Operands DEF Ready, Quantifiers
<1> QED BY <1>2, <1>3, ReadyFacts DEF Ready

(* The term that replaces a variable is a term, with the next number.      *)
LEMMA WitnessIsTerm ==
  ASSUME NEW n \in Nat, NEW f, NEW x, NEW s, Ready(n, f, x, s)
  PROVE  /\ Witness(x, s) \in Records /\ Witness(x, s).type \in TermTypes
         /\ Parts[Witness(x, s)] \subseteq Named(x.counter + 1)
<1> DEFINE name == uniqueName("skolem", x.counter)
<1>1. x.counter \in Nat
  BY ReadyFacts
<1>2. name \in AnyName /\ name[2] = x.counter + 1 /\ name[2] \in 0 .. x.counter + 1
  <2>1. "skolem" \in UniquePrefixes
    BY DEF UniquePrefixes
  <2> QED BY <1>1, <2>1, UniqueIsName DEF uniqueName
<1>3. s \in Scopes(x.counter + 1) /\ x.counter + 1 \in Nat
  BY <1>1 DEF Scopes, Ready
<1>4. Witness(x, s) = SkolemTerm(name, s)
  BY DEF Witness
<1> HIDE DEF name
<1> QED BY <1>2, <1>3, <1>4, SkolemTermRecord

(* The call for the kid of an existential quantifier may rely on it too.   *)
LEMMA ReadyExistential ==
  ASSUME NEW n \in Nat, NEW f, NEW x, NEW s, Ready(n, f, x, s), f.type = "Existential"
  PROVE  Ready(n, f.kids[1], Given(x, s, f), s)
<1> DEFINE t == Witness(x, s)
           y == Given(x, s, f)
<1>1. /\ x.counter \in Nat /\ f.name \in AnyName
      /\ x.fns \in Seq(AnyName \X Records) /\ x \in Skolems
  BY ReadyFacts DEF Ready
<1>2. t \in Records /\ t.type \in TermTypes /\ Parts[t] \subseteq Named(x.counter + 1)
  BY WitnessIsTerm
<1> HIDE DEF t
<1>3. y.counter = x.counter + 1 /\ y.fns = Append(x.fns, <<f.name, t>>) /\ y \in SkolemData
  <2>1. <<f.name, t>> \in AnyName \X Records
    BY <1>1, <1>2
  <2>2. Append(x.fns, <<f.name, t>>) \in Seq(AnyName \X Records)
    BY <1>1, <2>1
  <2> QED BY <1>1, <2>2 DEF SkolemData, Given, t
<1>4. \A i \in DOMAIN y.fns :
        y.fns[i] = <<f.name, t>> \/ \E j \in DOMAIN x.fns : y.fns[i] = x.fns[j]
  BY <1>1, <1>3
<1> HIDE DEF y
<1>5. ASSUME NEW i \in DOMAIN y.fns
      PROVE  /\ y.fns[i][2] \in Records /\ y.fns[i][2].type \in TermTypes
             /\ Parts[y.fns[i][2]] \subseteq Named(y.counter)
  <2>1. CASE y.fns[i] = <<f.name, t>>
    BY <1>2, <1>3, <2>1
  <2>2. CASE \E j \in DOMAIN x.fns : y.fns[i] = x.fns[j]
    <3>1. PICK j \in DOMAIN x.fns : y.fns[i] = x.fns[j]
      BY <2>2
    <3>2. /\ x.fns[j][2] \in Records /\ x.fns[j][2].type \in TermTypes
          /\ Parts[x.fns[j][2]] \subseteq Named(x.counter)
      BY <1>1 DEF Skolems
    <3>3. Named(x.counter) \subseteq Named(x.counter + 1)
      BY <1>1, ExistentialGrows
    <3> QED BY <1>3, <3>1, <3>2, <3>3
  <2> QED BY <1>4, <2>1, <2>2
<1>6. y \in Skolems
  BY <1>3, <1>5 DEF Skolems
<1>7. n <= y.counter /\ s \in Scopes(y.counter)
  BY <1>1, <1>3 DEF Ready, Scopes
<1>8. 1 \in DOMAIN f.kids
  BY Operands DEF Ready, Quantifiers
<1>9. f.kids[1] \in Records /\ Parts[f.kids[1]] \subseteq AtomsNegated(n)
  BY <1>8, ReadyFacts
<1>10. Ready(n, f.kids[1], y, s)
  BY <1>6, <1>7, <1>9 DEF Ready
<1> QED BY <1>10 DEF y

(* A call of skolemizeIn counts up, and leaves data for the next one.      *)
LEMMA ReadyAfter ==
  ASSUME NEW n \in Nat, NEW f, NEW x, NEW s, Ready(n, f, x, s), NEW g \in Records,
         Parts[g] \subseteq AtomsNegated(n)
  PROVE  LET r == skolemizeIn[f][x][s]
         IN Ready(n, g, r.data, s) /\ x.counter <= r.data.counter
<1> DEFINE r == skolemizeIn[f][x][s]
<1>1. SkolemizedWell(f, x, r)
  BY ExistentialsGone DEF Ready
<1> HIDE DEF r
<1>2. r.data \in Skolems /\ x.counter <= r.data.counter /\ r.data.counter \in Nat
  BY <1>1 DEF SkolemizedWell, Skolems, SkolemData
<1>3. x.counter \in Nat /\ n <= x.counter /\ s \in Scopes(x.counter)
  BY ReadyFacts DEF Ready
<1>4. n <= r.data.counter /\ s \in Scopes(r.data.counter)
  BY <1>2, <1>3 DEF Scopes
<1> QED BY <1>2, <1>4 DEF Ready, r

(* skolemizeIn keeps a universal quantifier.                               *)
LEMMA UniversalStep ==
  ASSUME NEW n \in Nat, NEW f, NEW x, NEW s, Ready(n, f, x, s), f.type = "Universal"
  PROVE  Above(f, skolemizeIn[f][x][s], skolemizeIn[f.kids[1]][x][Append(s, f.name)])
<1>1. SkolemCases(f, x, s)
  BY ReadyFacts, SkolemizeCases DEF Ready
<1>2. skolemizeIn[f][x][s] = Traverse(skolemizeIn, f, x, Append(s, f.name))
  BY <1>1 DEF SkolemCases
<1>3. f \in Records /\ f.type \in Quantifiers
  BY DEF Ready, Quantifiers
<1> QED BY <1>2, <1>3, TraverseOne

(* skolemizeIn drops an existential quantifier.                            *)
LEMMA ExistentialStep ==
  ASSUME NEW n \in Nat, NEW f, NEW x, NEW s, Ready(n, f, x, s), f.type = "Existential"
  PROVE  skolemizeIn[f][x][s] = skolemizeIn[f.kids[1]][Given(x, s, f)][s]
<1>1. skolemizeIn[f] = SkolemizeBody(skolemizeIn, f)
  BY SkolemizeDef DEF Ready
<1>2. x \in SkolemData /\ s \in Seq(AnyName)
  BY ReadyFacts
<1> QED BY <1>1, <1>2 DEF SkolemizeBody, Given, Witness

(* skolemizeIn keeps a negation, under which there is an atom.             *)
LEMMA NegationStep ==
  ASSUME NEW n \in Nat, NEW f, NEW x, NEW s, Ready(n, f, x, s), f.type = "Negation"
  PROVE  /\ f.kids[1].type \notin Logical
         /\ Above(f, skolemizeIn[f][x][s], skolemizeIn[f.kids[1]][x][s])
         /\ skolemizeIn[f.kids[1]][x][s].data = x
<1>1. SkolemCases(f, x, s) /\ x \in SkolemData /\ s \in Seq(AnyName)
  BY ReadyFacts, SkolemizeCases DEF Ready
<1>2. skolemizeIn[f][x][s] = Traverse(skolemizeIn, f, x, s)
  BY <1>1 DEF SkolemCases
<1>3. 1 \in DOMAIN f.kids /\ f \in Records
  BY Operands DEF Ready
<1>4. f.kids[1].type \notin Logical
  <2>1. f.kids[1] \in Records /\ Parts[f.kids[1]] \subseteq AtomsNegated(n)
    BY <1>3, ReadyFacts
  <2>2. f.kids[1] \in AtomsNegated(n) /\ f \in AtomsNegated(n)
    BY <1>3, <2>1, PartsWithin DEF Ready
  <2> QED BY <2>2 DEF AtomsNegated, NoConditional, Pushable, Logical
<1>5. skolemizeIn[f.kids[1]][x][s].data = x
  <2>1. f.kids[1] \in Records
    BY <1>3, Kids
  <2> QED BY <1>1, <1>4, <2>1, AtomsNameNothing
<1> QED BY <1>2, <1>3, <1>4, <1>5, TraverseOne

(* skolemizeIn hands the data from the first operand to the second.        *)
LEMMA JoinStep ==
  ASSUME NEW n \in Nat, NEW f, NEW x, NEW s, Ready(n, f, x, s), f.type \in {"And", "Or"}
  PROVE  LET p == skolemizeIn[f.kids[1]][x][s]
             q == skolemizeIn[f.kids[2]][p.data][s]
         IN /\ Ready(n, f.kids[1], x, s) /\ Ready(n, f.kids[2], p.data, s)
            /\ x.counter <= p.data.counter
            /\ Beside(f, skolemizeIn[f][x][s], p, q)
<1> DEFINE p == skolemizeIn[f.kids[1]][x][s]
           q == skolemizeIn[f.kids[2]][p.data][s]
<1>1. SkolemCases(f, x, s) /\ f \in Records /\ f.type \in Binary
  BY ReadyFacts, SkolemizeCases DEF Ready, Binary
<1>2. skolemizeIn[f][x][s] = Traverse(skolemizeIn, f, x, s)
  BY <1>1 DEF SkolemCases
<1>3. Beside(f, skolemizeIn[f][x][s], p, q)
  BY <1>1, <1>2, TraverseTwo
<1>4. 1 \in DOMAIN f.kids /\ 2 \in DOMAIN f.kids
  BY <1>1, Operands
<1>5. Ready(n, f.kids[1], x, s)
  BY <1>4, ReadyFacts DEF Ready
<1>6. f.kids[2] \in Records /\ Parts[f.kids[2]] \subseteq AtomsNegated(n)
  BY <1>4, ReadyFacts
<1>7. Ready(n, f.kids[2], p.data, s) /\ x.counter <= p.data.counter
  BY <1>5, <1>6, ReadyAfter
<1> HIDE DEF p, q
<1> QED BY <1>3, <1>5, <1>7, Zenon DEF p, q

(* Only the existential variables of f become keys.                        *)
KeysGrow(f, x, r) ==
  /\ Keys(r.data.fns) \subseteq Keys(x.fns) \cup BinderNames(f)
  /\ \A y \in AnyName \ BinderNames(f) : For(r.data.fns, y) = For(x.fns, y)

(* The functions, with the one for the variable of an existential          *)
(* quantifier.                                                             *)
LEMMA GivenKeys ==
  ASSUME NEW n \in Nat, NEW f, NEW x, NEW s, Ready(n, f, x, s)
  PROVE  /\ Keys(Given(x, s, f).fns) = Keys(x.fns) \cup {f.name}
         /\ \A y : y # f.name => For(Given(x, s, f).fns, y) = For(x.fns, y)
         /\ f.name \notin Keys(x.fns) => For(Given(x, s, f).fns, f.name) = Witness(x, s)
<1> DEFINE t == Witness(x, s)
           y0 == Given(x, s, f)
<1>1. /\ x.fns \in Seq(AnyName \X Records) /\ <<f.name, t>> \in AnyName \X Records
      /\ y0.fns = Append(x.fns, <<f.name, t>>)
  <2>1. y0.fns = Append(x.fns, <<f.name, t>>)
    BY DEF Given
  <2> QED BY <2>1, ReadyFacts, WitnessIsTerm
<1> HIDE DEF t, y0
<1>2. Keys(y0.fns) = Keys(x.fns) \cup {f.name}
  <2> DEFINE L == Len(x.fns)
  <2>1. /\ L \in Nat /\ DOMAIN x.fns = 1 .. L /\ DOMAIN y0.fns = 1 .. L + 1
        /\ y0.fns[L + 1] = <<f.name, t>>
        /\ \A i \in 1 .. L : y0.fns[i] = x.fns[i]
    BY <1>1
  <2> HIDE DEF L
  <2>2. \A i \in 1 .. L + 1 : i = L + 1 \/ i \in 1 .. L
    BY <2>1
  <2>3. L + 1 \in 1 .. L + 1 /\ \A i \in 1 .. L : i \in 1 .. L + 1
    BY <2>1
  <2> QED BY <2>1, <2>2, <2>3 DEF Keys
<1>3. ASSUME NEW y
      PROVE  For(y0.fns, y) = IF y \in Keys(x.fns) THEN For(x.fns, y)
                              ELSE IF y = f.name THEN t ELSE Leaf("Variable", y)
  <2>1. y \in Keys(x.fns) <=> \E i \in DOMAIN x.fns : x.fns[i][1] = y
    BY DEF Keys
  <2>2. Find(y0.fns, y, Leaf("Variable", y)) =
          IF \E i \in DOMAIN x.fns : x.fns[i][1] = y THEN Find(x.fns, y, Leaf("Variable", y))
          ELSE IF y = f.name THEN t ELSE Leaf("Variable", y)
    BY <1>1, FindAfter
  <2> QED BY <2>1, <2>2 DEF For
<1>4. \A y : y \notin Keys(x.fns) => For(x.fns, y) = Leaf("Variable", y)
  BY DEF Keys, For, Find
<1> QED BY <1>2, <1>3, <1>4 DEF t, y0

(* skolemizeIn adds functions for variables that the record binds only.    *)
LEMMA KeysOfSkolemize ==
  ASSUME NEW n \in Nat, NEW f0 \in Records
  PROVE  \A x, s : Ready(n, f0, x, s) => KeysGrow(f0, x, skolemizeIn[f0][x][s])
<1> DEFINE T == {f \in Records : \A x, s :
                   Ready(n, f, x, s) => KeysGrow(f, x, skolemizeIn[f][x][s])}
<1>1. ASSUME NEW f \in Records, \A i \in DOMAIN f.kids : f.kids[i] \in T
      PROVE  f \in T
  <2> SUFFICES ASSUME NEW x, NEW s, Ready(n, f, x, s)
               PROVE  KeysGrow(f, x, skolemizeIn[f][x][s])
    OBVIOUS
  <2>0. ASSUME NEW i \in DOMAIN f.kids, NEW y, NEW z, Ready(n, f.kids[i], y, z)
        PROVE  KeysGrow(f.kids[i], y, skolemizeIn[f.kids[i]][y][z])
    BY <1>1, <2>0
  <2> HIDE DEF T
  <2> DEFINE r == skolemizeIn[f][x][s]
  <2>1. BinderNames(f) = (IF f.type \in Quantifiers THEN {f.name} ELSE {})
                           \cup UNION {BinderNames(f.kids[i]) : i \in DOMAIN f.kids}
    BY BinderCases
  <2>2. \A i \in DOMAIN f.kids : BinderNames(f.kids[i]) \subseteq BinderNames(f)
    BY <2>1
  <2>3. ASSUME r.data = x PROVE KeysGrow(f, x, r)
    BY <2>3 DEF KeysGrow
  <2>4. CASE f.type \notin Logical
    BY <2>3, <2>4, AtomsNameNothing, ReadyFacts
  <2>5. CASE f.type = "Negation"
    <3>1. r.data = x
      BY <2>5, NegationStep DEF Above
    <3> QED BY <2>3, <3>1
  <2>6. CASE f.type = "Universal"
    <3> DEFINE q == skolemizeIn[f.kids[1]][x][Append(s, f.name)]
    <3>1. r.data = q.data
      BY <2>6, UniversalStep DEF Above
    <3>2. 1 \in DOMAIN f.kids
      BY <2>6, Operands DEF Quantifiers
    <3>3. KeysGrow(f.kids[1], x, q)
      BY <2>0, <2>6, <3>2, ReadyUniversal
    <3> HIDE DEF q, r
    <3>4. KeysGrow(f, x, r)
      BY <2>2, <3>1, <3>2, <3>3 DEF KeysGrow
    <3> QED BY <3>4 DEF r
  <2>7. CASE f.type = "Existential"
    <3> DEFINE y0 == Given(x, s, f)
    <3>1. r = skolemizeIn[f.kids[1]][y0][s]
      BY <2>7, ExistentialStep
    <3>2. 1 \in DOMAIN f.kids
      BY <2>7, Operands DEF Quantifiers
    <3>3. KeysGrow(f.kids[1], y0, r)
      BY <2>0, <2>7, <3>1, <3>2, ReadyExistential
    <3>4. /\ Keys(y0.fns) = Keys(x.fns) \cup {f.name}
          /\ \A y : y # f.name => For(y0.fns, y) = For(x.fns, y)
      BY GivenKeys
    <3>5. f.name \in BinderNames(f)
      BY <2>1, <2>7 DEF Quantifiers
    <3> HIDE DEF y0, r
    <3>6. Keys(r.data.fns) \subseteq Keys(x.fns) \cup BinderNames(f)
      BY <2>2, <3>2, <3>3, <3>4, <3>5 DEF KeysGrow
    <3>7. \A y \in AnyName \ BinderNames(f) : For(r.data.fns, y) = For(x.fns, y)
      BY <2>2, <3>2, <3>3, <3>4, <3>5 DEF KeysGrow
    <3>8. KeysGrow(f, x, r)
      BY <3>6, <3>7 DEF KeysGrow
    <3> QED BY <3>8 DEF r
  <2>8. CASE f.type \in {"And", "Or"}
    <3> DEFINE p == skolemizeIn[f.kids[1]][x][s]
               q == skolemizeIn[f.kids[2]][p.data][s]
    <3>1. Ready(n, f.kids[1], x, s) /\ Ready(n, f.kids[2], p.data, s) /\ Beside(f, r, p, q)
      BY <2>8, JoinStep
    <3>2. 1 \in DOMAIN f.kids /\ 2 \in DOMAIN f.kids
      BY <2>8, Operands, Zenon DEF Binary
    <3>3. KeysGrow(f.kids[1], x, p) /\ KeysGrow(f.kids[2], p.data, q)
      BY <2>0, <3>1, <3>2, Zenon
    <3> HIDE DEF p, q, r
    <3>4. r.data = q.data
      BY <3>1 DEF Beside
    <3>5. Keys(r.data.fns) \subseteq Keys(x.fns) \cup BinderNames(f)
      BY <2>2, <3>2, <3>3, <3>4 DEF KeysGrow
    <3>6. \A y \in AnyName \ BinderNames(f) : For(r.data.fns, y) = For(x.fns, y)
      BY <2>2, <3>2, <3>3, <3>4 DEF KeysGrow
    <3>7. KeysGrow(f, x, r)
      BY <3>5, <3>6 DEF KeysGrow
    <3> QED BY <3>7 DEF r
  <2>9. f.type \notin {"Conditional", "Biconditional"}
    BY ReadyFacts
  <2> QED BY <2>4, <2>5, <2>6, <2>7, <2>8, <2>9 DEF Logical, Quantifiers
<1> HIDE DEF T
<1>2. Records \subseteq T
  BY <1>1, RecordInduction
<1> QED BY <1>2 DEF T

(* No name in f is that of something else: its binders are new, and what   *)
(* stands for its free variables has variables in scope only.              *)
Clear(f, x, s) ==
  /\ BindOnce[f]
  /\ \A y \in BinderNames(f) :
       y \notin Keys(x.fns) /\ y \notin Elements(s) /\ y \notin FreeVariables[f]
  /\ \A y \in FreeVariables[f] : FreeVariables[For(x.fns, y)] \subseteq Elements(s)

(* The elements of a sequence with one more.                               *)
LEMMA ElementsAppend ==
  ASSUME NEW s \in Seq(AnyName), NEW v \in AnyName
  PROVE  Elements(Append(s, v)) = Elements(s) \cup {v}
<1> DEFINE L == Len(s)
           t == Append(s, v)
<1>1. /\ L \in Nat /\ DOMAIN s = 1 .. L /\ DOMAIN t = 1 .. L + 1
      /\ t[L + 1] = v /\ \A i \in 1 .. L : t[i] = s[i]
  OBVIOUS
<1> HIDE DEF L, t
<1>2. \A i \in 1 .. L + 1 : i = L + 1 \/ i \in 1 .. L
  BY <1>1
<1>3. L + 1 \in 1 .. L + 1 /\ \A i \in 1 .. L : i \in 1 .. L + 1
  BY <1>1
<1>4. Elements(t) = Elements(s) \cup {v}
  BY <1>1, <1>2, <1>3 DEF Elements
<1> QED BY <1>4 DEF t

(* A variable for which nothing stands yet stands for itself.              *)
LEMMA ForItself ==
  ASSUME NEW fns, NEW v \in AnyName, v \notin Keys(fns)
  PROVE  /\ For(fns, v) = Leaf("Variable", v) /\ Leaf("Variable", v) \in Records
         /\ Leaf("Variable", v).type = "Variable" /\ Leaf("Variable", v).name = v
         /\ FreeVariables[Leaf("Variable", v)] = {v}
<1>1. For(fns, v) = Leaf("Variable", v)
  BY DEF Keys, For, Find
<1>2. "Variable" \in TermTypes
  BY DEF TermTypes
<1>3. /\ Leaf("Variable", v) \in Records /\ Leaf("Variable", v).type = "Variable"
      /\ Leaf("Variable", v).name = v
  BY <1>2, LeafRecord
<1> QED BY <1>1, <1>3, FreeCases

(* No variable is used twice: kept below a universal quantifier.           *)
LEMMA ClearUniversal ==
  ASSUME NEW n \in Nat, NEW f, NEW x, NEW s, Ready(n, f, x, s), Clear(f, x, s),
         f.type = "Universal"
  PROVE  Clear(f.kids[1], x, Append(s, f.name))
<1> DEFINE g == f.kids[1]
           t == Append(s, f.name)
<1>1. /\ f \in Records /\ f.name \in AnyName /\ s \in Seq(AnyName)
      /\ f.type \in Quantifiers /\ 1 \in DOMAIN f.kids
  BY ReadyFacts, Operands DEF Ready, Quantifiers
<1>2. Elements(t) = Elements(s) \cup {f.name}
  BY <1>1, ElementsAppend
<1>3. BindOnce[g] /\ f.name \notin BinderNames(g)
  <2>1. BindOnce[f] = BindOnceBody(BindOnce, f)
    BY <1>1, BindOnceDef
  <2> QED BY <1>1, <2>1 DEF BindOnceBody, Clear
<1>4. f.name \in BinderNames(f) /\ BinderNames(g) \subseteq BinderNames(f)
  <2>1. BinderNames(f) = (IF f.type \in Quantifiers THEN {f.name} ELSE {})
                           \cup UNION {BinderNames(f.kids[i]) : i \in DOMAIN f.kids}
    BY <1>1, BinderCases
  <2> QED BY <1>1, <2>1
<1>5. FreeVariables[g] \subseteq FreeVariables[f] \cup {f.name}
  BY <1>1, FreeBelow
<1>6. f.name \notin Keys(x.fns)
  BY <1>4 DEF Clear
<1>7. FreeVariables[For(x.fns, f.name)] = {f.name}
  BY <1>1, <1>6, ForItself
<1> HIDE DEF g, t
<1>8. \A y \in BinderNames(g) :
        y \notin Keys(x.fns) /\ y \notin Elements(t) /\ y \notin FreeVariables[g]
  BY <1>2, <1>3, <1>4, <1>5 DEF Clear
<1>9. \A y \in FreeVariables[g] : FreeVariables[For(x.fns, y)] \subseteq Elements(t)
  BY <1>2, <1>5, <1>7 DEF Clear
<1>10. Clear(g, x, t)
  BY <1>3, <1>8, <1>9 DEF Clear
<1> QED BY <1>10 DEF g, t

(* A skolem term is a function of the universal variables in scope.        *)
WitnessKids(s) == [i \in DOMAIN s |-> Leaf("Variable", s[i])]

(* The term that replaces a variable, part by part.                        *)
LEMMA WitnessIs ==
  ASSUME NEW n \in Nat, NEW f, NEW x, NEW s, Ready(n, f, x, s)
  PROVE  /\ Witness(x, s).kids = WitnessKids(s)
         /\ Witness(x, s).name = <<"skolem", x.counter + 1>>
         /\ Witness(x, s).type \in {"Constant", "Function"}
<1>1. s \in Seq(AnyName)
  BY ReadyFacts
<1>2. CASE s = <<>>
  <2>1. WitnessKids(s) = <<>>
    BY <1>2 DEF WitnessKids
  <2> QED BY <1>2, <2>1 DEF Witness, SkolemTerm, Leaf, Semantic, uniqueName
<1>3. CASE s # <<>>
  BY <1>3 DEF Witness, SkolemTerm, Semantic, uniqueName, WitnessKids
<1> QED BY <1>2, <1>3

(* The term depends on the universal variables around it.                  *)
LEMMA WitnessVariables ==
  ASSUME NEW n \in Nat, NEW f, NEW x, NEW s, Ready(n, f, x, s)
  PROVE  FreeVariables[Witness(x, s)] = Elements(s)
<1> DEFINE t == Witness(x, s)
<1>1. /\ t \in Records /\ t.kids = WitnessKids(s)
      /\ t.type \in {"Constant", "Function"}
  BY WitnessIs, WitnessIsTerm
<1>2. t.type \notin Quantifiers \cup {"Variable"}
  BY <1>1 DEF Quantifiers
<1>3. s \in Seq(AnyName)
  BY ReadyFacts
<1> HIDE DEF t
<1>4. FreeVariables[t] = UNION {FreeVariables[t.kids[i]] : i \in DOMAIN t.kids}
  BY <1>1, <1>2, FreeCases
<1>5. DOMAIN t.kids = DOMAIN s /\ \A i \in DOMAIN s : t.kids[i] = Leaf("Variable", s[i])
  BY <1>1 DEF WitnessKids
<1>6. ASSUME NEW i \in DOMAIN s PROVE FreeVariables[t.kids[i]] = {s[i]}
  <2>1. s[i] \in AnyName /\ t.kids[i] \in Records
    BY <1>1, <1>3, <1>5, Kids
  <2>2. t.kids[i] = Leaf("Variable", s[i])
    BY <1>5
  <2>3. t.kids[i].type = "Variable" /\ t.kids[i].name = s[i]
    BY <2>2 DEF Leaf, Semantic
  <2> QED BY <2>1, <2>3, FreeCases
<1>7. FreeVariables[t] = Elements(s)
  BY <1>4, <1>5, <1>6 DEF Elements
<1> QED BY <1>7 DEF t

(* No variable is used twice: kept below an existential quantifier.        *)
LEMMA ClearExistential ==
  ASSUME NEW n \in Nat, NEW f, NEW x, NEW s, Ready(n, f, x, s), Clear(f, x, s),
         f.type = "Existential"
  PROVE  /\ Clear(f.kids[1], Given(x, s, f), s) /\ f.name \notin Keys(x.fns)
         /\ f.name \notin FreeVariables[f]
<1> DEFINE g == f.kids[1]
           y0 == Given(x, s, f)
<1>1. /\ f \in Records /\ f.name \in AnyName /\ s \in Seq(AnyName)
      /\ f.type \in Quantifiers /\ 1 \in DOMAIN f.kids
  BY ReadyFacts, Operands DEF Ready, Quantifiers
<1>3. BindOnce[g] /\ f.name \notin BinderNames(g)
  <2>1. BindOnce[f] = BindOnceBody(BindOnce, f)
    BY <1>1, BindOnceDef
  <2> QED BY <1>1, <2>1 DEF BindOnceBody, Clear
<1>4. f.name \in BinderNames(f) /\ BinderNames(g) \subseteq BinderNames(f)
  <2>1. BinderNames(f) = (IF f.type \in Quantifiers THEN {f.name} ELSE {})
                           \cup UNION {BinderNames(f.kids[i]) : i \in DOMAIN f.kids}
    BY <1>1, BinderCases
  <2> QED BY <1>1, <2>1
<1>5. FreeVariables[g] \subseteq FreeVariables[f] \cup {f.name}
  BY <1>1, FreeBelow
<1>6. f.name \notin Keys(x.fns)
  BY <1>4 DEF Clear
<1>7. /\ Keys(y0.fns) = Keys(x.fns) \cup {f.name}
      /\ \A y : y # f.name => For(y0.fns, y) = For(x.fns, y)
      /\ For(y0.fns, f.name) = Witness(x, s)
  BY <1>6, GivenKeys
<1>8. FreeVariables[Witness(x, s)] = Elements(s)
  BY WitnessVariables
<1> HIDE DEF g, y0
<1>9. \A y \in BinderNames(g) :
        y \notin Keys(y0.fns) /\ y \notin Elements(s) /\ y \notin FreeVariables[g]
  BY <1>3, <1>4, <1>5, <1>7 DEF Clear
<1>10. \A y \in FreeVariables[g] : FreeVariables[For(y0.fns, y)] \subseteq Elements(s)
  BY <1>5, <1>7, <1>8 DEF Clear
<1>11. Clear(g, y0, s)
  BY <1>3, <1>9, <1>10 DEF Clear
<1> QED BY <1>4, <1>6, <1>11 DEF g, y0, Clear

(* No variable is used twice: kept for both operands.                      *)
LEMMA ClearJoin ==
  ASSUME NEW n \in Nat, NEW f, NEW x, NEW s, Ready(n, f, x, s), Clear(f, x, s),
         f.type \in {"And", "Or"}
  PROVE  /\ Clear(f.kids[1], x, s)
         /\ Clear(f.kids[2], skolemizeIn[f.kids[1]][x][s].data, s)
<1> DEFINE g1 == f.kids[1]
           g2 == f.kids[2]
           p == skolemizeIn[g1][x][s]
<1>1. f \in Records /\ f.type \notin Quantifiers /\ 1 \in DOMAIN f.kids /\ 2 \in DOMAIN f.kids
  BY Operands DEF Ready, Quantifiers, Binary
<1>2. BindOnce[g1] /\ BindOnce[g2] /\ BinderNames(g1) \cap BinderNames(g2) = {}
  <2>1. BindOnce[f] = BindOnceBody(BindOnce, f)
    BY <1>1, BindOnceDef
  <2>2. /\ \A i \in DOMAIN f.kids : BindOnce[f.kids[i]]
        /\ \A i, j \in DOMAIN f.kids :
             i # j => BinderNames(f.kids[i]) \cap BinderNames(f.kids[j]) = {}
    BY <2>1 DEF BindOnceBody, Clear
  <2>3. 1 # 2
    OBVIOUS
  <2> QED BY <1>1, <2>2, <2>3
<1>3. BinderNames(g1) \subseteq BinderNames(f) /\ BinderNames(g2) \subseteq BinderNames(f)
  <2>1. BinderNames(f) = (IF f.type \in Quantifiers THEN {f.name} ELSE {})
                           \cup UNION {BinderNames(f.kids[i]) : i \in DOMAIN f.kids}
    BY <1>1, BinderCases
  <2> QED BY <1>1, <2>1
<1>4. /\ FreeVariables[g1] \subseteq FreeVariables[f]
      /\ FreeVariables[g2] \subseteq FreeVariables[f]
      /\ FreeVariables[f] \subseteq AnyName
  BY <1>1, FreeBelow, FreeAreNames
<1>5. g1 \in Records /\ Ready(n, g1, x, s)
  BY <1>1, JoinStep, Kids
<1>6. KeysGrow(g1, x, p)
  BY <1>5, KeysOfSkolemize
<1> HIDE DEF g1, g2, p
<1>7. Clear(g1, x, s)
  BY <1>2, <1>3, <1>4 DEF Clear
<1>8. \A y \in BinderNames(g2) :
        y \notin Keys(p.data.fns) /\ y \notin Elements(s) /\ y \notin FreeVariables[g2]
  BY <1>2, <1>3, <1>4, <1>6 DEF Clear, KeysGrow
<1>9. \A y \in FreeVariables[f] : For(p.data.fns, y) = For(x.fns, y)
  BY <1>3, <1>4, <1>6 DEF Clear, KeysGrow
<1>10. \A y \in FreeVariables[g2] : FreeVariables[For(p.data.fns, y)] \subseteq Elements(s)
  BY <1>4, <1>9 DEF Clear
<1>11. Clear(g2, p.data, s)
  BY <1>2, <1>8, <1>10 DEF Clear
<1> QED BY <1>7, <1>11 DEF g1, g2, p

(* An atom has no quantifier.                                              *)
LEMMA AtomsBindOnce ==
  ASSUME NEW f0 \in Records, f0.type \notin Logical
  PROVE  BindOnce[f0] /\ BinderNames(f0) = {}
<1> DEFINE T == {f \in Records : f.type \notin Logical => BindOnce[f] /\ BinderNames(f) = {}}
<1>1. ASSUME NEW f \in Records, \A i \in DOMAIN f.kids : f.kids[i] \in T
      PROVE  f \in T
  <2> SUFFICES ASSUME f.type \notin Logical PROVE BindOnce[f] /\ BinderNames(f) = {}
    OBVIOUS
  <2>1. \A i \in DOMAIN f.kids : f.kids[i].type \notin Logical
    <3>1. \A i \in DOMAIN f.kids : f.kids[i].type \in TermTypes
      BY Kids DEF Shaped
    <3> QED BY <3>1 DEF TermTypes, Logical, Quantifiers
  <2>2. \A i \in DOMAIN f.kids : BindOnce[f.kids[i]] /\ BinderNames(f.kids[i]) = {}
    BY <1>1, <2>1
  <2> HIDE DEF T
  <2>3. f.type \notin Quantifiers
    BY DEF Logical
  <2>4. BindOnceBody(BindOnce, f)
    BY <2>2, <2>3 DEF BindOnceBody
  <2>5. BinderNames(f) = {}
    BY <2>2, <2>3, BinderCases
  <2> QED BY <2>4, <2>5, BindOnceDef
<1> HIDE DEF T
<1>2. Records \subseteq T
  BY <1>1, RecordInduction
<1> QED BY <1>2 DEF T

(* A record with one kid binds each name once if the kid does.             *)
LEMMA BindOnceOne ==
  ASSUME NEW g \in Records, DOMAIN g.kids = {1}, BindOnce[g.kids[1]],
         g.type \in Quantifiers => g.name \notin BinderNames(g.kids[1])
  PROVE  BindOnce[g]
<1>1. \A i, j \in DOMAIN g.kids :
        i # j => BinderNames(g.kids[i]) \cap BinderNames(g.kids[j]) = {}
  OBVIOUS
<1>2. BindOnceBody(BindOnce, g)
  BY <1>1 DEF BindOnceBody
<1> QED BY <1>2, BindOnceDef

(* A record with two kids that bind different names, each once.            *)
LEMMA BindOnceTwo ==
  ASSUME NEW g \in Records, g.type \notin Quantifiers, DOMAIN g.kids = {1, 2},
         BindOnce[g.kids[1]], BindOnce[g.kids[2]],
         BinderNames(g.kids[1]) \cap BinderNames(g.kids[2]) = {}
  PROVE  BindOnce[g]
<1>1. \A i, j \in DOMAIN g.kids :
        i # j => BinderNames(g.kids[i]) \cap BinderNames(g.kids[j]) = {}
  <2> SUFFICES ASSUME NEW i \in DOMAIN g.kids, NEW j \in DOMAIN g.kids, i # j
               PROVE  BinderNames(g.kids[i]) \cap BinderNames(g.kids[j]) = {}
    OBVIOUS
  <2>1. i \in {1, 2} /\ j \in {1, 2}
    OBVIOUS
  <2>2. (i = 1 /\ j = 2) \/ (i = 2 /\ j = 1)
    BY <2>1
  <2> QED BY <2>2
<1>2. \A i \in DOMAIN g.kids : BindOnce[g.kids[i]]
  OBVIOUS
<1>3. BindOnceBody(BindOnce, g)
  BY <1>1, <1>2 DEF BindOnceBody
<1> QED BY <1>3, BindOnceDef

InShape(f, s, g) ==
  /\ FreeVariables[g] \subseteq Elements(s)
  /\ BinderNames(g) \subseteq BinderNames(f)
  /\ BindOnce[g]

(* What skolemize returns has no variable out of scope, and no quantifier  *)
(* that it had not before.                                                 *)
LEMMA ShapeOfSkolemize ==
  ASSUME NEW n \in Nat, NEW f0 \in Records
  PROVE  \A x, s : LET g == skolemizeIn[f0][x][s].f
                   IN Ready(n, f0, x, s) /\ Clear(f0, x, s) /\ g \in Records =>
                        InShape(f0, s, g)
<1> DEFINE G(f, x, s) == skolemizeIn[f][x][s].f
           T == {f \in Records : \A x, s :
                   Ready(n, f, x, s) /\ Clear(f, x, s) /\ G(f, x, s) \in Records =>
                     InShape(f, s, G(f, x, s))}
<1>1. ASSUME NEW f \in Records, \A i \in DOMAIN f.kids : f.kids[i] \in T
      PROVE  f \in T
  <2> SUFFICES ASSUME NEW x, NEW s, Ready(n, f, x, s), Clear(f, x, s),
                      G(f, x, s) \in Records
               PROVE  InShape(f, s, G(f, x, s))
    OBVIOUS
  <2>0. ASSUME NEW i \in DOMAIN f.kids, NEW y, NEW z, Ready(n, f.kids[i], y, z),
               Clear(f.kids[i], y, z), G(f.kids[i], y, z) \in Records
        PROVE  InShape(f.kids[i], z, G(f.kids[i], y, z))
    BY <1>1, <2>0
  <2> HIDE DEF T
  <2> DEFINE r == skolemizeIn[f][x][s]
             g == r.f
  <2>1. BinderNames(f) = (IF f.type \in Quantifiers THEN {f.name} ELSE {})
                           \cup UNION {BinderNames(f.kids[i]) : i \in DOMAIN f.kids}
    BY BinderCases
  <2>2. \A i \in DOMAIN f.kids : BinderNames(f.kids[i]) \subseteq BinderNames(f)
    BY <2>1
  <2>3. g \in Records /\ g = G(f, x, s)
    OBVIOUS
  <2>4. CASE f.type \notin Logical
    <3>1. AtomSays(0, f, x, g)
      BY <2>3, <2>4, AtomsSkolemized, ReadyFacts DEF Ready
    <3> HIDE DEF r
    <3>2. g.type \notin Logical
      BY <3>1 DEF AtomSays
    <3>3. BindOnce[g] /\ BinderNames(g) = {}
      BY <2>3, <3>2, AtomsBindOnce
    <3>4. FreeVariables[g] \subseteq Elements(s)
      BY <3>1 DEF AtomSays, Clear
    <3> QED BY <2>3, <3>3, <3>4 DEF InShape
  <2>5. CASE f.type = "Negation"
    <3> DEFINE q == skolemizeIn[f.kids[1]][x][s]
    <3>1. f.kids[1].type \notin Logical /\ Above(f, r, q)
      BY <2>5, NegationStep
    <3>2. 1 \in DOMAIN f.kids /\ f.kids[1] \in Records
      BY <2>5, Operands
    <3> HIDE DEF r
    <3>3. q.f \in Records /\ g.kids[1] = q.f /\ g.type = "Negation" /\ DOMAIN g.kids = {1}
      BY <2>3, <2>5, <3>1, Kids DEF Above
    <3>4. AtomSays(0, f.kids[1], x, q.f)
      BY <3>1, <3>2, <3>3, AtomsSkolemized, ReadyFacts DEF Ready
    <3> HIDE DEF q
    <3>5. BindOnce[q.f] /\ BinderNames(q.f) = {}
      BY <3>3, <3>4, AtomsBindOnce DEF AtomSays
    <3>6. FreeVariables[g] = FreeVariables[q.f] /\ BinderNames(g) = {}
      <4>1. g.type \notin Quantifiers \cup {"Variable"}
        BY <3>3 DEF Quantifiers
      <4>2. FreeVariables[g] = UNION {FreeVariables[g.kids[i]] : i \in DOMAIN g.kids}
        BY <2>3, <4>1, FreeCases
      <4>3. BinderNames(g) = UNION {BinderNames(g.kids[i]) : i \in DOMAIN g.kids}
        BY <2>3, <4>1, BinderCases
      <4> HIDE DEF g
      <4> QED BY <3>3, <3>5, <4>2, <4>3
    <3>7. BindOnce[g]
      <4>1. g.type \notin Quantifiers
        BY <3>3 DEF Quantifiers
      <4> QED BY <2>3, <3>3, <3>5, <4>1, BindOnceOne
    <3>8. FreeVariables[f.kids[1]] \subseteq FreeVariables[f]
      BY <2>5, <3>2, FreeBelow DEF Quantifiers
    <3>9. FreeVariables[q.f] \subseteq Elements(s)
      BY <3>4, <3>8 DEF AtomSays, Clear
    <3>10. InShape(f, s, g)
      BY <3>6, <3>7, <3>9 DEF InShape
    <3> QED BY <2>3, <3>10
  <2>6. CASE f.type = "Universal"
    <3> DEFINE t == Append(s, f.name)
               q == skolemizeIn[f.kids[1]][x][t]
    <3>1. Above(f, r, q)
      BY <2>6, UniversalStep
    <3>2. 1 \in DOMAIN f.kids /\ f.type \in Quantifiers
      BY <2>6, Operands DEF Quantifiers
    <3>3. Ready(n, f.kids[1], x, t) /\ Clear(f.kids[1], x, t)
      BY <2>6, ReadyUniversal, ClearUniversal
    <3> HIDE DEF r
    <3>4. /\ q.f \in Records /\ g.kids[1] = q.f /\ g.type = "Universal"
          /\ g.name = f.name /\ DOMAIN g.kids = {1}
      BY <2>3, <2>6, <3>1, Kids DEF Above
    <3>5. InShape(f.kids[1], t, q.f)
      BY <2>0, <3>2, <3>3, <3>4
    <3>6. Elements(t) = Elements(s) \cup {f.name}
      BY ReadyFacts, ElementsAppend
    <3> HIDE DEF q, t, G
    <3>7. g.type \in Quantifiers
      BY <3>4 DEF Quantifiers
    <3>8. FreeVariables[g] \subseteq Elements(s)
      BY <2>3, <3>4, <3>5, <3>6, <3>7, FreeCases DEF InShape
    <3>9. BinderNames(g) = {f.name} \cup BinderNames(q.f)
      BY <2>3, <3>4, <3>7, BinderCases
    <3>10. f.name \in BinderNames(f) /\ BinderNames(q.f) \subseteq BinderNames(f)
      BY <2>1, <2>2, <3>2, <3>5 DEF InShape
    <3>11. f.name \notin BinderNames(f.kids[1])
      <4>1. BindOnce[f] = BindOnceBody(BindOnce, f)
        BY BindOnceDef
      <4> QED BY <3>2, <4>1 DEF BindOnceBody, Clear
    <3>12. BindOnce[g]
      BY <2>3, <3>4, <3>5, <3>11, BindOnceOne DEF InShape
    <3>13. InShape(f, s, g)
      BY <3>8, <3>9, <3>10, <3>12 DEF InShape
    <3> QED BY <2>3, <3>13
  <2>7. CASE f.type = "Existential"
    <3> DEFINE y0 == Given(x, s, f)
    <3>1. r = skolemizeIn[f.kids[1]][y0][s]
      BY <2>7, ExistentialStep
    <3>2. 1 \in DOMAIN f.kids
      BY <2>7, Operands DEF Quantifiers
    <3>3. Ready(n, f.kids[1], y0, s) /\ Clear(f.kids[1], y0, s)
      BY <2>7, ReadyExistential, ClearExistential
    <3>4. G(f.kids[1], y0, s) = g
      BY <3>1
    <3>5. InShape(f.kids[1], s, g)
      BY <2>0, <2>3, <3>2, <3>3, <3>4
    <3> HIDE DEF r, G, y0
    <3> QED BY <2>2, <2>3, <3>2, <3>5 DEF InShape
  <2>8. CASE f.type \in {"And", "Or"}
    <3> DEFINE p == skolemizeIn[f.kids[1]][x][s]
               q == skolemizeIn[f.kids[2]][p.data][s]
    <3>1. Ready(n, f.kids[1], x, s) /\ Ready(n, f.kids[2], p.data, s) /\ Beside(f, r, p, q)
      BY <2>8, JoinStep
    <3>2. 1 \in DOMAIN f.kids /\ 2 \in DOMAIN f.kids
      BY <2>8, Operands DEF Binary
    <3>3. Clear(f.kids[1], x, s) /\ Clear(f.kids[2], p.data, s)
      BY <2>8, ClearJoin
    <3> HIDE DEF r
    <3>4. /\ p.f \in Records /\ q.f \in Records /\ g.kids[1] = p.f /\ g.kids[2] = q.f
          /\ g.type = f.type /\ DOMAIN g.kids = {1, 2}
      <4>1. /\ g.kids[1] = p.f /\ g.kids[2] = q.f
            /\ g.type = f.type /\ DOMAIN g.kids = {1, 2}
        BY <3>1, Zenon DEF Beside
      <4> HIDE DEF p, q, g
      <4> QED BY <2>3, <4>1, Kids, Zenon
    <3>5. InShape(f.kids[1], s, p.f) /\ InShape(f.kids[2], s, q.f)
      BY <2>0, <3>1, <3>2, <3>3, <3>4, Zenon
    <3> HIDE DEF p, q, G
    <3>6. g.type \notin Quantifiers \cup {"Variable"}
      BY <2>8, <3>4 DEF Quantifiers
    <3>7. FreeVariables[g] = FreeVariables[p.f] \cup FreeVariables[q.f]
      BY <2>3, <3>4, <3>6, FreeCases
    <3>8. BinderNames(g) = BinderNames(p.f) \cup BinderNames(q.f)
      BY <2>3, <3>4, <3>6, BinderCases
    <3>9. BinderNames(f.kids[1]) \cap BinderNames(f.kids[2]) = {}
      <4>1. BindOnce[f] = BindOnceBody(BindOnce, f)
        BY BindOnceDef
      <4>2. \A i, j \in DOMAIN f.kids :
              i # j => BinderNames(f.kids[i]) \cap BinderNames(f.kids[j]) = {}
        BY <4>1 DEF BindOnceBody, Clear
      <4>3. 1 # 2
        OBVIOUS
      <4> QED BY <3>2, <4>2, <4>3
    <3>10. BindOnce[g]
      BY <2>3, <3>4, <3>5, <3>6, <3>9, BindOnceTwo DEF InShape
    <3>11. InShape(f, s, g)
      BY <2>2, <3>2, <3>5, <3>7, <3>8, <3>10 DEF InShape
    <3> QED BY <2>3, <3>11
  <2>9. f.type \notin {"Conditional", "Biconditional"}
    BY ReadyFacts
  <2> QED BY <2>4, <2>5, <2>6, <2>7, <2>8, <2>9 DEF Logical, Quantifiers
<1> HIDE DEF T
<1>2. Records \subseteq T
  BY <1>1, RecordInduction
<1> QED BY <1>2 DEF T

(* The interpretations of every symbol there is.                           *)
Worlds ==
  {J \in [AnySymbol -> UNION {Denotations(y) : y \in AnySymbol}] :
     \A y \in AnySymbol : J[y] \in Denotations(y)}

(* A term denotes an element.                                              *)
LEMMA TermValue ==
  ASSUME NEW J \in Worlds, NEW e \in Envs, NEW t0 \in Records, t0.type \in TermTypes
  PROVE  Val(J, e, t0) \in Domain
<1> DEFINE T == {t \in Records : t.type \in TermTypes => Val(J, e, t) \in Domain}
<1>1. ASSUME NEW t \in Records, \A i \in DOMAIN t.kids : t.kids[i] \in T
      PROVE  t \in T
  <2> SUFFICES ASSUME t.type \in TermTypes PROVE Val(J, e, t) \in Domain
    OBVIOUS
  <2>1. \A i \in DOMAIN t.kids : t.kids[i].type \in TermTypes
    BY Kids DEF Shaped, TermTypes, Logical, Quantifiers
  <2>2. \A i \in DOMAIN t.kids : Val(J, e, t.kids[i]) \in Domain
    BY <1>1, <2>1
  <2> HIDE DEF T
  <2>3. CASE t.type = "Variable"
    <3>1. t.name \in AnyName
      BY Kids
    <3> QED BY <2>3, <3>1, ValVariable DEF Envs
  <2>4. CASE t.type # "Variable"
    <3> DEFINE a == Arguments(J, e, t, <<>>)
               y0 == Symbol(t)
    <3>1. Val(J, e, t) = J[y0][a]
      BY <2>4, NoScope, FunctionValue DEF Val
    <3>2. a \in [1 .. Len(t.kids) -> Domain]
      <4>1. DOMAIN t.kids = 1 .. Len(t.kids)
        BY Kids
      <4> QED BY <2>2, <4>1 DEF Arguments, Val
    <3>3. y0[1] = t.type /\ y0[3] = Len(t.kids) /\ y0 \in AnySymbol
      BY DEF Symbol, AnySymbol
    <3>4. J[y0] \in Denotations(y0)
      BY <3>3 DEF Worlds
    <3> HIDE DEF a, y0
    <3>5. y0[1] \notin Predicates
      BY <3>3 DEF Predicates, TermTypes
    <3>6. J[y0] \in [[1 .. Len(t.kids) -> Domain] -> Domain]
      BY <3>3, <3>4, <3>5 DEF Denotations
    <3> QED BY <3>1, <3>2, <3>6
  <2> QED BY <2>3, <2>4
<1> HIDE DEF T
<1>2. Records \subseteq T
  BY <1>1, RecordInduction
<1> QED BY <1>2 DEF T

(* Below a quantifier and below a connective the values still translate.   *)
LEMMA TranslatesUniversal ==
  ASSUME NEW n \in Nat, NEW f, NEW x, NEW s, Ready(n, f, x, s), Clear(f, x, s),
         f.type = "Universal", NEW J, NEW e \in Envs, NEW d \in Envs,
         Translates(J, e, d, f, x.fns), NEW v \in Domain
  PROVE  Translates(J, Bound(e, f.name, v), Bound(d, f.name, v), f.kids[1], x.fns)
<1> DEFINE e1 == Bound(e, f.name, v)
           d1 == Bound(d, f.name, v)
<1>1. /\ f \in Records /\ f.name \in AnyName /\ f.type \in Quantifiers
      /\ 1 \in DOMAIN f.kids /\ f.kids[1] \in Records /\ x \in Skolems
  BY ReadyFacts, Operands DEF Ready, Quantifiers
<1>2. /\ FreeVariables[f.kids[1]] \subseteq FreeVariables[f] \cup {f.name}
      /\ FreeVariables[f] \subseteq AnyName
  BY <1>1, FreeBelow, FreeAreNames
<1>3. f.name \in BinderNames(f)
  BY <1>1, BinderCases
<1>4. e1[f.name] = v /\ \A y \in AnyName : y # f.name => e1[y] = e[y]
  BY <1>1, BoundIs
<1>5. d1[f.name] = v /\ \A y \in AnyName : y # f.name => d1[y] = d[y]
  BY <1>1, BoundIs
<1>6. f.name \notin Keys(x.fns) /\ f.name \notin Elements(s) /\ f.name \notin FreeVariables[f]
  BY <1>3 DEF Clear
<1>7. For(x.fns, f.name) \in Records /\ For(x.fns, f.name).type = "Variable"
      /\ For(x.fns, f.name).name = f.name
  BY <1>1, <1>6, ForItself
<1> HIDE DEF e1, d1
<1>8. ASSUME NEW y \in FreeVariables[f.kids[1]]
      PROVE  e1[y] = Val(J, d1, For(x.fns, y))
  <2>1. CASE y = f.name
    BY <1>4, <1>5, <1>7, <2>1, ValVariable
  <2>2. CASE y # f.name
    <3>1. y \in FreeVariables[f] /\ y \in AnyName
      BY <1>2, <2>2
    <3>2. For(x.fns, y) \in Records /\ For(x.fns, y).type \in TermTypes
      BY <1>1, <3>1, ForIsTerm
    <3>3. FreeVariables[For(x.fns, y)] \subseteq Elements(s)
      BY <3>1 DEF Clear
    <3>4. FreeVariables[For(x.fns, y)] \subseteq AnyName
      BY <3>2, FreeAreNames
    <3>5. SameOn(FreeVariables[For(x.fns, y)], d, d1)
      BY <1>5, <1>6, <3>3, <3>4 DEF SameOn
    <3>6. Val(J, d, For(x.fns, y)) = Val(J, d1, For(x.fns, y))
      BY <3>2, <3>5, AgreeItself, ValDepends
    <3> QED BY <1>4, <2>2, <3>1, <3>6 DEF Translates
  <2> QED BY <2>1, <2>2
<1>9. Translates(J, e1, d1, f.kids[1], x.fns)
  BY <1>8 DEF Translates
<1> QED BY <1>9 DEF e1, d1

(* The environment that gives the variable the value of its term.          *)
LEMMA TranslatesExistential ==
  ASSUME NEW n \in Nat, NEW f, NEW x, NEW s, Ready(n, f, x, s), Clear(f, x, s),
         f.type = "Existential", NEW J, NEW e \in Envs, NEW d \in Envs,
         Translates(J, e, d, f, x.fns), NEW v \in Domain, v = Val(J, d, Witness(x, s))
  PROVE  Translates(J, Bound(e, f.name, v), d, f.kids[1], Given(x, s, f).fns)
<1> DEFINE e1 == Bound(e, f.name, v)
           y0 == Given(x, s, f)
<1>1. /\ f \in Records /\ f.name \in AnyName /\ f.type \in Quantifiers
      /\ 1 \in DOMAIN f.kids /\ f.kids[1] \in Records /\ x \in Skolems
  BY ReadyFacts, Operands DEF Ready, Quantifiers
<1>2. /\ FreeVariables[f.kids[1]] \subseteq FreeVariables[f] \cup {f.name}
      /\ FreeVariables[f] \subseteq AnyName
  BY <1>1, FreeBelow, FreeAreNames
<1>3. f.name \notin Keys(x.fns)
  BY ClearExistential
<1>4. e1[f.name] = v /\ \A y \in AnyName : y # f.name => e1[y] = e[y]
  BY <1>1, BoundIs
<1>5. /\ \A y : y # f.name => For(y0.fns, y) = For(x.fns, y)
      /\ For(y0.fns, f.name) = Witness(x, s)
  BY <1>3, GivenKeys
<1> HIDE DEF e1, y0
<1>6. ASSUME NEW y \in FreeVariables[f.kids[1]]
      PROVE  e1[y] = Val(J, d, For(y0.fns, y))
  <2>1. CASE y = f.name
    BY <1>4, <1>5, <2>1
  <2>2. CASE y # f.name
    BY <1>2, <1>4, <1>5, <2>2 DEF Translates
  <2> QED BY <2>1, <2>2
<1>7. Translates(J, e1, d, f.kids[1], y0.fns)
  BY <1>6 DEF Translates
<1> QED BY <1>7 DEF e1, y0

(* The environments of a conjunction or disjunction serve both operands.   *)
LEMMA TranslatesJoin ==
  ASSUME NEW n \in Nat, NEW f, NEW x, NEW s, Ready(n, f, x, s), Clear(f, x, s),
         f.type \in {"And", "Or"}, NEW J, NEW e, NEW d, Translates(J, e, d, f, x.fns)
  PROVE  /\ Translates(J, e, d, f.kids[1], x.fns)
         /\ Translates(J, e, d, f.kids[2], skolemizeIn[f.kids[1]][x][s].data.fns)
<1> DEFINE p == skolemizeIn[f.kids[1]][x][s]
<1>1. f \in Records /\ f.type \notin Quantifiers /\ 1 \in DOMAIN f.kids /\ 2 \in DOMAIN f.kids
  BY Operands DEF Ready, Quantifiers, Binary
<1>2. /\ FreeVariables[f.kids[1]] \subseteq FreeVariables[f]
      /\ FreeVariables[f.kids[2]] \subseteq FreeVariables[f]
      /\ FreeVariables[f] \subseteq AnyName
  BY <1>1, FreeBelow, FreeAreNames
<1>3. f.kids[1] \in Records /\ Ready(n, f.kids[1], x, s)
  BY <1>1, JoinStep, Kids
<1>4. KeysGrow(f.kids[1], x, p)
  BY <1>3, KeysOfSkolemize
<1> HIDE DEF p
<1>5. BinderNames(f.kids[1]) \subseteq BinderNames(f)
  BY <1>1, BinderCases
<1>6. \A y \in FreeVariables[f] : For(p.data.fns, y) = For(x.fns, y)
  BY <1>2, <1>4, <1>5 DEF KeysGrow, Clear
<1>7. Translates(J, e, d, f.kids[2], p.data.fns)
  BY <1>2, <1>6 DEF Translates
<1>8. Translates(J, e, d, f.kids[1], x.fns)
  BY <1>2 DEF Translates
<1> QED BY <1>7, <1>8 DEF p

(* An atom, or a term, says what it did.                                   *)
LEMMA AtomSat ==
  ASSUME NEW n \in Nat, NEW f, NEW x, NEW s, Ready(n, f, x, s), f.type \notin Logical,
         NEW g, g = skolemizeIn[f][x][s].f, g \in Records,
         NEW J, NEW e \in Envs, NEW d \in Envs, Translates(J, e, d, f, x.fns)
  PROVE  Sat(J, e, f) <=> Sat(J, d, g)
<1>1. AtomSays(J, f, x, g)
  BY AtomsSkolemized, ReadyFacts DEF Ready
<1>2. Matches(J, e, f, d, g)
  BY <1>1 DEF AtomSays
<1>3. CASE f.type \notin TermTypes
  BY <1>2, <1>3 DEF Matches
<1>4. CASE f.type \in TermTypes
  <2>1. SkolemizedWell(f, x, skolemizeIn[f][x][s])
    BY ExistentialsGone DEF Ready
  <2>2. g.type \in TermTypes /\ f \in Records
    BY <1>4, <2>1 DEF SkolemizedWell, Ready
  <2> QED BY <1>4, <2>2, TermsAreFalse
<1> QED BY <1>3, <1>4

(* skolemizeIn keeps what a negated atom says.                             *)
LEMMA NegationSat ==
  ASSUME NEW n \in Nat, NEW f, NEW x, NEW s, Ready(n, f, x, s), f.type = "Negation",
         NEW g, g = skolemizeIn[f][x][s].f, g \in Records,
         NEW J, NEW e \in Envs, NEW d \in Envs, Translates(J, e, d, f, x.fns)
  PROVE  Sat(J, e, f) <=> Sat(J, d, g)
<1> DEFINE q == skolemizeIn[f.kids[1]][x][s].f
<1>1. f \in Records /\ 1 \in DOMAIN f.kids /\ f.kids[1] \in Records
  BY Operands DEF Ready
<1>2. f.kids[1].type \notin Logical /\ g.type = "Negation" /\ g.kids[1] = q
  BY NegationStep DEF Above
<1>3. q \in Records
  BY <1>2, Operands
<1>4. Ready(n, f.kids[1], x, s)
  BY <1>1, ReadyFacts DEF Ready
<1>5. FreeVariables[f.kids[1]] \subseteq FreeVariables[f]
  BY <1>1, FreeBelow DEF Quantifiers
<1>6. Translates(J, e, d, f.kids[1], x.fns)
  BY <1>5 DEF Translates
<1>7. q = skolemizeIn[f.kids[1]][x][s].f
  OBVIOUS
<1> HIDE DEF q
<1>8. Sat(J, e, f.kids[1]) <=> Sat(J, d, q)
  BY <1>2, <1>3, <1>4, <1>6, <1>7, AtomSat
<1>9. Sat(J, e, f) <=> ~ Sat(J, e, f.kids[1])
  BY <1>1, SatCases
<1>10. Sat(J, d, g) <=> ~ Sat(J, d, q)
  BY <1>2, SatCases
<1> QED BY <1>8, <1>9, <1>10

(* What skolemize returns implies what it was given.                       *)
Implied(J, f, x, g) ==
  \A e, d \in Envs : Translates(J, e, d, f, x.fns) /\ Sat(J, d, g) => Sat(J, e, f)

(* What skolemizeIn returns implies what it was called with.               *)
LEMMA SkolemizeImplies ==
  ASSUME NEW n \in Nat, NEW J \in Worlds, NEW f0 \in Records
  PROVE  \A x, s : LET g == skolemizeIn[f0][x][s].f
                   IN Ready(n, f0, x, s) /\ Clear(f0, x, s) /\ g \in Records =>
                        Implied(J, f0, x, g)
<1> DEFINE G(f, x, s) == skolemizeIn[f][x][s].f
           T == {f \in Records : \A x, s :
                   Ready(n, f, x, s) /\ Clear(f, x, s) /\ G(f, x, s) \in Records =>
                     Implied(J, f, x, G(f, x, s))}
<1>1. ASSUME NEW f \in Records, \A i \in DOMAIN f.kids : f.kids[i] \in T
      PROVE  f \in T
  <2> SUFFICES ASSUME NEW x, NEW s, Ready(n, f, x, s), Clear(f, x, s),
                      G(f, x, s) \in Records
               PROVE  Implied(J, f, x, G(f, x, s))
    OBVIOUS
  <2>0. ASSUME NEW i \in DOMAIN f.kids, NEW y, NEW z, Ready(n, f.kids[i], y, z),
               Clear(f.kids[i], y, z), G(f.kids[i], y, z) \in Records
        PROVE  Implied(J, f.kids[i], y, G(f.kids[i], y, z))
    BY <1>1, <2>0
  <2> HIDE DEF T
  <2> DEFINE r == skolemizeIn[f][x][s]
             g == r.f
  <2>1. g \in Records /\ g = G(f, x, s) /\ g = skolemizeIn[f][x][s].f
    OBVIOUS
  <2> SUFFICES ASSUME NEW e \in Envs, NEW d \in Envs, Translates(J, e, d, f, x.fns),
                      Sat(J, d, g)
               PROVE  Sat(J, e, f)
    BY <2>1 DEF Implied
  <2>4. CASE f.type \notin Logical
    <3> HIDE DEF g, r
    <3> QED BY <2>1, <2>4, AtomSat
  <2>5. CASE f.type = "Negation"
    <3> HIDE DEF g, r
    <3> QED BY <2>1, <2>5, NegationSat
  <2>6. CASE f.type = "Universal"
    <3> DEFINE t == Append(s, f.name)
               q == skolemizeIn[f.kids[1]][x][t]
    <3>1. Above(f, r, q)
      BY <2>6, UniversalStep
    <3>2. 1 \in DOMAIN f.kids /\ f.name \in AnyName
      BY <2>6, Operands, Kids DEF Quantifiers
    <3>3. Ready(n, f.kids[1], x, t) /\ Clear(f.kids[1], x, t)
      BY <2>6, ReadyUniversal, ClearUniversal
    <3> HIDE DEF r
    <3>4. g.kids[1] = q.f /\ g.type = "Universal" /\ g.name = f.name /\ DOMAIN g.kids = {1}
      BY <2>6, <3>1 DEF Above
    <3>5. q.f \in Records /\ q.f = G(f.kids[1], x, t)
      BY <2>1, <3>4, Kids
    <3>6. Implied(J, f.kids[1], x, q.f)
      BY <2>0, <3>2, <3>3, <3>5
    <3> HIDE DEF q, t, G, g
    <3>7. ASSUME NEW v \in Domain PROVE Sat(J, Bound(e, f.name, v), f.kids[1])
      <4>1. Sat(J, Bound(d, f.name, v), q.f)
        BY <2>1, <3>4, SatAll
      <4>2. Bound(e, f.name, v) \in Envs /\ Bound(d, f.name, v) \in Envs
        BY <3>2, BoundIs
      <4>3. Translates(J, Bound(e, f.name, v), Bound(d, f.name, v), f.kids[1], x.fns)
        BY <2>6, TranslatesUniversal
      <4> QED BY <3>6, <4>1, <4>2, <4>3 DEF Implied
    <3> QED BY <2>6, <3>7, SatAll
  <2>7. CASE f.type = "Existential"
    <3> DEFINE y0 == Given(x, s, f)
               v == Val(J, d, Witness(x, s))
    <3>1. r = skolemizeIn[f.kids[1]][y0][s]
      BY <2>7, ExistentialStep
    <3>2. 1 \in DOMAIN f.kids /\ f.name \in AnyName
      BY <2>7, Operands, Kids DEF Quantifiers
    <3>3. Ready(n, f.kids[1], y0, s) /\ Clear(f.kids[1], y0, s)
      BY <2>7, ReadyExistential, ClearExistential
    <3>4. G(f.kids[1], y0, s) = g
      BY <3>1
    <3>5. Implied(J, f.kids[1], y0, g)
      BY <2>0, <2>1, <3>2, <3>3, <3>4
    <3>6. v \in Domain /\ v = Val(J, d, Witness(x, s))
      BY WitnessIsTerm, TermValue
    <3> HIDE DEF v
    <3>7. Translates(J, Bound(e, f.name, v), d, f.kids[1], y0.fns)
      BY <2>7, <3>6, TranslatesExistential
    <3> HIDE DEF r, G, y0, g
    <3>8. Bound(e, f.name, v) \in Envs
      BY <3>2, <3>6, BoundIs
    <3>9. Sat(J, Bound(e, f.name, v), f.kids[1])
      BY <3>5, <3>7, <3>8 DEF Implied
    <3> QED BY <2>7, <3>6, <3>9, SatSome
  <2>8. CASE f.type \in {"And", "Or"}
    <3> DEFINE p == skolemizeIn[f.kids[1]][x][s]
               q == skolemizeIn[f.kids[2]][p.data][s]
    <3>1. Ready(n, f.kids[1], x, s) /\ Ready(n, f.kids[2], p.data, s) /\ Beside(f, r, p, q)
      BY <2>8, JoinStep
    <3>2. 1 \in DOMAIN f.kids /\ 2 \in DOMAIN f.kids
      BY <2>8, Operands DEF Binary
    <3>3. Clear(f.kids[1], x, s) /\ Clear(f.kids[2], p.data, s)
      BY <2>8, ClearJoin
    <3>4. Translates(J, e, d, f.kids[1], x.fns) /\ Translates(J, e, d, f.kids[2], p.data.fns)
      BY <2>8, TranslatesJoin, Zenon
    <3> HIDE DEF r
    <3>5. g.kids[1] = p.f /\ g.kids[2] = q.f /\ g.type = f.type /\ DOMAIN g.kids = {1, 2}
      BY <3>1, Zenon DEF Beside
    <3>6. p.f \in Records /\ q.f \in Records
      <4> HIDE DEF p, q, g
      <4> QED BY <2>1, <3>5, Kids, Zenon
    <3>7. Implied(J, f.kids[1], x, p.f) /\ Implied(J, f.kids[2], p.data, q.f)
      BY <2>0, <3>1, <3>2, <3>3, <3>6, Zenon
    <3> HIDE DEF p, q, G, g
    <3>8. /\ Sat(J, d, p.f) => Sat(J, e, f.kids[1])
          /\ Sat(J, d, q.f) => Sat(J, e, f.kids[2])
      BY <3>4, <3>7 DEF Implied
    <3>9. CASE f.type = "And"
      <4>1. Sat(J, d, g) <=> Sat(J, d, p.f) /\ Sat(J, d, q.f)
        BY <2>1, <3>5, <3>9, SatCases
      <4>2. Sat(J, e, f) <=> Sat(J, e, f.kids[1]) /\ Sat(J, e, f.kids[2])
        BY <3>9, SatCases
      <4> QED BY <3>8, <4>1, <4>2
    <3>10. CASE f.type = "Or"
      <4>1. Sat(J, d, g) <=> Sat(J, d, p.f) \/ Sat(J, d, q.f)
        BY <2>1, <3>5, <3>10, SatCases
      <4>2. Sat(J, e, f) <=> Sat(J, e, f.kids[1]) \/ Sat(J, e, f.kids[2])
        BY <3>10, SatCases
      <4> QED BY <3>8, <4>1, <4>2
    <3> QED BY <2>8, <3>9, <3>10, Zenon
  <2>9. f.type \notin {"Conditional", "Biconditional"}
    BY ReadyFacts
  <2> QED BY <2>4, <2>5, <2>6, <2>7, <2>8, <2>9 DEF Logical, Quantifiers
<1> HIDE DEF T
<1>2. Records \subseteq T
  BY <1>1, RecordInduction
<1> QED BY <1>2 DEF T

(* J and K give the same meaning to the symbols numbered up to n.          *)
SameUpTo(n, J, K) == \A y \in AnySymbol : y[2][2] \in 0 .. n => J[y] = K[y]

(* Interpretations that differ in later symbols agree on a record without  *)
(* any.                                                                    *)
LEMMA SameAgree ==
  ASSUME NEW n, NEW J, NEW K, SameUpTo(n, J, K), NEW f \in Records,
         Parts[f] \subseteq Named(n)
  PROVE  Agree(J, K, f)
<1> SUFFICES ASSUME NEW y \in Symbols(f) PROVE J[y] = K[y]
  BY DEF Agree
<1>1. PICK g \in Parts[f] : y = Symbol(g)
  BY DEF Symbols
<1>2. g \in Records /\ g.name[2] \in 0 .. n
  BY <1>1 DEF Named
<1>3. y \in AnySymbol /\ y[2] = g.name
  BY <1>1, <1>2 DEF AnySymbol, Symbol
<1> QED BY <1>2, <1>3 DEF SameUpTo

(* A variable has no symbol, another term for it only earlier ones.        *)
LEMMA ForAgrees ==
  ASSUME NEW x \in Skolems, NEW J, NEW K, SameUpTo(x.counter, J, K), NEW y \in AnyName
  PROVE  Agree(J, K, For(x.fns, y))
<1>1. x.fns \in Seq(AnyName \X Records)
  BY DEF Skolems, SkolemData
<1>2. IsList(x.fns)
  BY <1>1 DEF IsList
<1>3. CASE y \in Keys(x.fns)
  <2>1. \E i \in DOMAIN x.fns : x.fns[i][1] = y
    BY <1>3 DEF Keys
  <2>2. PICK i \in DOMAIN x.fns : IsFirst(x.fns, y, i)
    BY <1>2, <2>1, FirstOf
  <2>3. For(x.fns, y) = x.fns[i][2]
    BY <1>2, <2>2, FindFirst DEF For
  <2>4. x.fns[i][2] \in Records /\ Parts[x.fns[i][2]] \subseteq Named(x.counter)
    BY DEF Skolems
  <2> QED BY <2>3, <2>4, SameAgree
<1>4. CASE y \notin Keys(x.fns)
  <2> DEFINE t == For(x.fns, y)
  <2>1. t \in Records /\ t.type = "Variable" /\ t = Leaf("Variable", y)
    BY <1>4, ForItself
  <2>2. Parts[t] = {t}
    BY <2>1, LeafRecord DEF TermTypes
  <2> HIDE DEF t
  <2>3. Symbols(t) = {}
    BY <2>1, <2>2 DEF Symbols, Predicates, Functions_
  <2>4. Agree(J, K, t)
    BY <2>3 DEF Agree
  <2> QED BY <2>4 DEF t
<1> QED BY <1>3, <1>4

(* Environments are translated alike if only later symbols differ.         *)
LEMMA TranslatesSame ==
  ASSUME NEW x \in Skolems, NEW J, NEW K, SameUpTo(x.counter, J, K), NEW f \in Records,
         NEW e, NEW d, Translates(J, e, d, f, x.fns)
  PROVE  Translates(K, e, d, f, x.fns)
<1> SUFFICES ASSUME NEW y \in FreeVariables[f]
             PROVE  e[y] = Val(K, d, For(x.fns, y))
  BY DEF Translates
<1>1. y \in AnyName
  BY FreeAreNames
<1>2. For(x.fns, y) \in Records /\ For(x.fns, y).type \in TermTypes
  BY <1>1, ForIsTerm
<1>3. Agree(J, K, For(x.fns, y))
  BY <1>1, ForAgrees
<1>4. SameOn(FreeVariables[For(x.fns, y)], d, d)
  BY DEF SameOn
<1>5. Val(J, d, For(x.fns, y)) = Val(K, d, For(x.fns, y))
  BY <1>2, <1>3, <1>4, ValDepends
<1> QED BY <1>5 DEF Translates

(* The element v is right for f's variable when the variables in scope     *)
(* have the values in a.                                                   *)
ScopeIs(d, s, a) == \A i \in DOMAIN s : d[s[i]] = a[i]
Good(J, f, x, s, a, v) ==
  \A e, d \in Envs :
    Translates(J, e, d, f, x.fns) /\ ScopeIs(d, s, a) /\ Sat(J, e, f)
      => Sat(J, Bound(e, f.name, v), f.kids[1])

(* There is a value for the function: what makes the record true, if       *)
(* anything.                                                               *)
LEMMA GoodExists ==
  ASSUME NEW n \in Nat, NEW f, NEW x, NEW s, Ready(n, f, x, s), Clear(f, x, s),
         f.type = "Existential", NEW J, NEW a
  PROVE  \E v \in Domain : Good(J, f, x, s, a, v)
<1> DEFINE Meets(e, d) ==
             Translates(J, e, d, f, x.fns) /\ ScopeIs(d, s, a) /\ Sat(J, e, f)
<1>0. /\ f \in Records /\ f.name \in AnyName /\ f.type \in Quantifiers /\ x \in Skolems
      /\ 1 \in DOMAIN f.kids /\ f.kids[1] \in Records
  BY ReadyFacts, Operands DEF Ready, Quantifiers
<1>1. CASE \A e, d \in Envs : ~ Meets(e, d)
  <2>1. PICK v \in Domain : TRUE
    BY DomainAssumption
  <2> QED BY <1>1, <2>1 DEF Good
<1>2. CASE \E e, d \in Envs : Meets(e, d)
  <2>1. PICK e \in Envs, d \in Envs : Meets(e, d)
    BY <1>2
  <2>2. PICK v \in Domain : Sat(J, Bound(e, f.name, v), f.kids[1])
    BY <1>0, <2>1, SatSome
  <2>3. ASSUME NEW e2 \in Envs, NEW d2 \in Envs, Meets(e2, d2)
        PROVE  Sat(J, Bound(e2, f.name, v), f.kids[1])
    <3>1. \A y \in Elements(s) : d[y] = d2[y]
      BY <2>1, <2>3 DEF ScopeIs, Elements
    <3>2. ASSUME NEW y \in FreeVariables[f] PROVE e[y] = e2[y]
      <4>1. y \in AnyName
        BY <1>0, FreeAreNames
      <4>2. For(x.fns, y) \in Records /\ For(x.fns, y).type \in TermTypes
        BY <1>0, <4>1, ForIsTerm
      <4>3. SameOn(FreeVariables[For(x.fns, y)], d, d2)
        BY <3>1 DEF SameOn, Clear
      <4>4. Val(J, d, For(x.fns, y)) = Val(J, d2, For(x.fns, y))
        BY <4>2, <4>3, AgreeItself, ValDepends
      <4> QED BY <2>1, <2>3, <4>4 DEF Translates
    <3>3. FreeVariables[f.kids[1]] \subseteq FreeVariables[f] \cup {f.name}
      BY <1>0, FreeBelow
    <3>4. FreeVariables[f.kids[1]] \subseteq AnyName
      BY <1>0, FreeAreNames
    <3>5. /\ Bound(e, f.name, v)[f.name] = v /\ Bound(e2, f.name, v)[f.name] = v
          /\ \A y \in AnyName : y # f.name =>
               Bound(e, f.name, v)[y] = e[y] /\ Bound(e2, f.name, v)[y] = e2[y]
      BY <1>0, BoundIs
    <3>6. SameOn(FreeVariables[f.kids[1]], Bound(e, f.name, v), Bound(e2, f.name, v))
      BY <3>2, <3>3, <3>4, <3>5 DEF SameOn
    <3> QED BY <1>0, <2>2, <3>6, AgreeItself, SatDepends
  <2> QED BY <2>3 DEF Good
<1> QED BY <1>1, <1>2

(* There is an interpretation of the skolem term that is right for every   *)
(* value of the variables in scope.                                        *)
Right(J, K, f, x, s) ==
  \A e, d \in Envs :
    Translates(J, e, d, f, x.fns) /\ Sat(J, e, f) =>
      Sat(J, Bound(e, f.name, Val(K, d, Witness(x, s))), f.kids[1])

(* There is a function that picks such values.                             *)
LEMMA SkolemFunction ==
  ASSUME NEW n \in Nat, NEW f, NEW x, NEW s, Ready(n, f, x, s), Clear(f, x, s),
         f.type = "Existential", NEW J \in Worlds
  PROVE  \E K \in Worlds : SameUpTo(x.counter, J, K) /\ Right(J, K, f, x, s)
<1> DEFINE t == Witness(x, s)
           y0 == Symbol(t)
           A == [1 .. Len(t.kids) -> Domain]
           F == [a \in A |-> CHOOSE v \in Domain : Good(J, f, x, s, a, v)]
           K == [y \in AnySymbol |-> IF y = y0 THEN F ELSE J[y]]
<1>1. /\ t \in Records /\ t.kids = WitnessKids(s) /\ t.name = <<"skolem", x.counter + 1>>
      /\ t.type \in {"Constant", "Function"}
  BY WitnessIs, WitnessIsTerm
<1>2. x.counter \in Nat /\ s \in Seq(AnyName)
  BY ReadyFacts
<1>3. ASSUME NEW a \in A PROVE F[a] \in Domain /\ Good(J, f, x, s, a, F[a])
  <2>1. \E v \in Domain : Good(J, f, x, s, a, v)
    BY GoodExists
  <2>2. F[a] = CHOOSE v \in Domain : Good(J, f, x, s, a, v)
    OBVIOUS
  <2> HIDE DEF F
  <2> QED BY <2>1, <2>2
<1>4. F \in [A -> Domain]
  <2>1. F = [a \in A |-> F[a]]
    OBVIOUS
  <2> HIDE DEF F, A
  <2> QED BY <1>3, <2>1
<1>5. /\ y0 \in AnySymbol /\ y0[1] = t.type /\ y0[2] = t.name /\ y0[3] = Len(t.kids)
  BY <1>1 DEF AnySymbol, Symbol
<1> HIDE DEF F, y0
<1>6. F \in Denotations(y0)
  <2>1. y0[1] \notin Predicates
    BY <1>1, <1>5 DEF Predicates
  <2> QED BY <1>4, <1>5, <2>1 DEF Denotations
<1>7. K \in Worlds
  <2>1. /\ J \in [AnySymbol -> UNION {Denotations(y) : y \in AnySymbol}]
        /\ \A y \in AnySymbol : J[y] \in Denotations(y)
    BY DEF Worlds
  <2>2. \A y \in AnySymbol : K[y] \in Denotations(y)
    BY <1>6, <2>1
  <2>3. K = [y \in AnySymbol |-> K[y]]
    OBVIOUS
  <2> HIDE DEF K
  <2>4. K \in [AnySymbol -> UNION {Denotations(y) : y \in AnySymbol}]
    BY <2>2, <2>3
  <2> QED BY <2>2, <2>4 DEF Worlds
<1>8. SameUpTo(x.counter, J, K)
  <2> SUFFICES ASSUME NEW y \in AnySymbol, y[2][2] \in 0 .. x.counter PROVE J[y] = K[y]
    BY DEF SameUpTo
  <2>1. y # y0
    BY <1>1, <1>2, <1>5
  <2> QED BY <2>1
<1>9. ASSUME NEW e \in Envs, NEW d \in Envs, Translates(J, e, d, f, x.fns), Sat(J, e, f)
      PROVE  Sat(J, Bound(e, f.name, Val(K, d, t)), f.kids[1])
  <2> DEFINE a == Arguments(K, d, t, <<>>)
  <2>1. t.type # "Variable"
    BY <1>1
  <2>2. K[y0] = F
    BY <1>5
  <2> HIDE DEF K, t
  <2>3. Val(K, d, t) = K[y0][a]
    BY <1>1, <2>1, NoScope, FunctionValue DEF Val, y0
  <2>4. DOMAIN t.kids = DOMAIN s /\ \A i \in DOMAIN s : t.kids[i] = Leaf("Variable", s[i])
    BY <1>1 DEF WitnessKids
  <2>5. a = [i \in DOMAIN s |-> Val(K, d, t.kids[i])]
    BY <2>4 DEF Arguments, Val
  <2> HIDE DEF a
  <2>6. \A i \in DOMAIN s : Val(K, d, t.kids[i]) = d[s[i]] /\ d[s[i]] \in Domain
    <3> SUFFICES ASSUME NEW i \in DOMAIN s
                 PROVE  Val(K, d, t.kids[i]) = d[s[i]] /\ d[s[i]] \in Domain
      OBVIOUS
    <3>1. s[i] \in AnyName /\ t.kids[i] \in Records
      BY <1>1, <1>2, <2>4, Kids
    <3>2. t.kids[i] = Leaf("Variable", s[i])
      BY <2>4
    <3>3. t.kids[i].type = "Variable" /\ t.kids[i].name = s[i]
      BY <3>2 DEF Leaf, Semantic
    <3> QED BY <3>1, <3>3, ValVariable DEF Envs
  <2>7. ScopeIs(d, s, a)
    BY <2>5, <2>6 DEF ScopeIs
  <2>8. a \in A
    <3>1. DOMAIN s = 1 .. Len(t.kids)
      BY <1>1, <2>4, Kids
    <3> QED BY <2>5, <2>6, <3>1
  <2>9. Good(J, f, x, s, a, F[a])
    BY <1>3, <2>8
  <2>10. Val(K, d, t) = F[a]
    BY <2>2, <2>3
  <2> QED BY <1>9, <2>7, <2>9, <2>10 DEF Good
<1>10. Right(J, K, f, x, s)
  BY <1>9 DEF Right
<1> QED BY <1>7, <1>8, <1>10

(* What was given to skolemize implies, with skolem functions that are     *)
(* right, what it returns.                                                 *)
Implies(J, K, f, x, g) ==
  \A e, d \in Envs : Translates(J, e, d, f, x.fns) /\ Sat(J, e, f) => Sat(K, d, g)

Attained(J, f, x, g) ==
  \E K \in Worlds : SameUpTo(x.counter, J, K) /\ Implies(J, K, f, x, g)

(* Being the same up to a number is transitive.                            *)
LEMMA SameGrows ==
  ASSUME NEW a \in Nat, NEW b \in Nat, a <= b, NEW I, NEW J, NEW K,
         SameUpTo(a, I, J), SameUpTo(b, J, K)
  PROVE  SameUpTo(a, I, K)
<1> SUFFICES ASSUME NEW y \in AnySymbol, y[2][2] \in 0 .. a PROVE I[y] = K[y]
  BY DEF SameUpTo
<1>1. y[2][2] \in 0 .. b
  OBVIOUS
<1> QED BY <1>1 DEF SameUpTo

(* With that function, dropping an existential quantifier loses nothing.   *)
LEMMA AttainedExistential ==
  ASSUME NEW n \in Nat, NEW f, NEW x, NEW s, Ready(n, f, x, s), Clear(f, x, s),
         f.type = "Existential", NEW J \in Worlds, NEW g,
         \A K \in Worlds : Attained(K, f.kids[1], Given(x, s, f), g)
  PROVE  Attained(J, f, x, g)
<1> DEFINE t == Witness(x, s)
           y0 == Given(x, s, f)
           c == x.counter
<1>0. /\ f \in Records /\ f.name \in AnyName /\ f.type \in Quantifiers /\ x \in Skolems
      /\ 1 \in DOMAIN f.kids /\ f.kids[1] \in Records /\ c \in Nat /\ n <= c
      /\ Parts[f.kids[1]] \subseteq AtomsNegated(n)
  BY ReadyFacts, Operands DEF Ready, Quantifiers
<1>1. PICK K1 \in Worlds : SameUpTo(c, J, K1) /\ Right(J, K1, f, x, s)
  BY SkolemFunction
<1>2. PICK K \in Worlds : SameUpTo(y0.counter, K1, K) /\ Implies(K1, K, f.kids[1], y0, g)
  BY DEF Attained
<1>3. y0.counter = c + 1
  BY DEF Given
<1>4. SameUpTo(c, J, K)
  <2>1. c + 1 \in Nat /\ c <= c + 1
    BY <1>0
  <2> HIDE DEF c, y0
  <2> QED BY <1>0, <1>1, <1>2, <1>3, <2>1, SameGrows
<1>5. Parts[f.kids[1]] \subseteq Named(c)
  <2>1. Parts[f.kids[1]] \subseteq Named(n)
    BY <1>0 DEF AtomsNegated, NoConditional
  <2>2. Named(n) \subseteq Named(c)
    BY <1>0, ExistentialGrows
  <2> QED BY <2>1, <2>2
<1> HIDE DEF y0
<1>6. ASSUME NEW e \in Envs, NEW d \in Envs, Translates(J, e, d, f, x.fns), Sat(J, e, f)
      PROVE  Sat(K, d, g)
  <2> DEFINE v == Val(K1, d, t)
  <2>1. v \in Domain /\ v = Val(K1, d, Witness(x, s))
    BY WitnessIsTerm, TermValue
  <2> HIDE DEF v
  <2>2. Sat(J, Bound(e, f.name, v), f.kids[1])
    BY <1>1, <1>6, <2>1 DEF Right
  <2>3. Agree(J, K1, f.kids[1])
    BY <1>0, <1>1, <1>5, SameAgree
  <2>4. Sat(K1, Bound(e, f.name, v), f.kids[1])
    BY <1>0, <2>2, <2>3, SatDepends DEF SameOn
  <2>5. Translates(K1, e, d, f, x.fns)
    BY <1>0, <1>1, <1>6, TranslatesSame
  <2>6. Translates(K1, Bound(e, f.name, v), d, f.kids[1], y0.fns)
    BY <2>1, <2>5, TranslatesExistential DEF y0
  <2>7. Bound(e, f.name, v) \in Envs
    BY <1>0, <2>1, BoundIs
  <2> QED BY <1>2, <2>4, <2>6, <2>7 DEF Implies
<1>7. Implies(J, K, f, x, g)
  BY <1>6 DEF Implies
<1> QED BY <1>4, <1>7 DEF Attained

(* Below a universal quantifier, one choice of functions serves all values.*)
LEMMA AttainedUniversal ==
  ASSUME NEW n \in Nat, NEW f, NEW x, NEW s, Ready(n, f, x, s), Clear(f, x, s),
         f.type = "Universal", NEW J \in Worlds, NEW g \in Records,
         g.type = "Universal", g.name = f.name, Attained(J, f.kids[1], x, g.kids[1])
  PROVE  Attained(J, f, x, g)
<1>1. PICK K \in Worlds :
        SameUpTo(x.counter, J, K) /\ Implies(J, K, f.kids[1], x, g.kids[1])
  BY DEF Attained
<1>2. f \in Records /\ f.name \in AnyName
  BY ReadyFacts DEF Ready
<1>3. ASSUME NEW e \in Envs, NEW d \in Envs, Translates(J, e, d, f, x.fns), Sat(J, e, f)
      PROVE  Sat(K, d, g)
  <2>1. ASSUME NEW v \in Domain PROVE Sat(K, Bound(d, g.name, v), g.kids[1])
    <3>1. Sat(J, Bound(e, f.name, v), f.kids[1])
      BY <1>2, <1>3, SatAll
    <3>2. Bound(e, f.name, v) \in Envs /\ Bound(d, f.name, v) \in Envs
      BY <1>2, BoundIs
    <3>3. Translates(J, Bound(e, f.name, v), Bound(d, f.name, v), f.kids[1], x.fns)
      BY <1>3, TranslatesUniversal
    <3> QED BY <1>1, <3>1, <3>2, <3>3 DEF Implies
  <2> QED BY <2>1, SatAll
<1>4. Implies(J, K, f, x, g)
  BY <1>3 DEF Implies
<1> QED BY <1>1, <1>4 DEF Attained

AllAttained(f, x, g) == \A K \in Worlds : Attained(K, f, x, g)

(* An environment translated for a conjunction or a disjunction is         *)
(* translated for both operands, each with the functions it starts from.   *)
Handed(f, x, p) ==
  \A K \in Worlds : \A e, d \in Envs : Translates(K, e, d, f, x.fns) =>
    /\ Translates(K, e, d, f.kids[1], x.fns)
    /\ Translates(K, e, d, f.kids[2], p.data.fns)

(* Two operands that can each be attained can be attained together: the    *)
(* second one only chooses functions the first does not name.              *)
LEMMA AttainedJoin ==
  ASSUME NEW n \in Nat, NEW f, NEW x, NEW s, Ready(n, f, x, s), Clear(f, x, s),
         f.type \in {"And", "Or"}, NEW J \in Worlds, NEW g \in Records,
         NEW p, NEW q, SkolemizedWell(f.kids[1], x, p), Handed(f, x, p),
         g.type = f.type, g.kids[1] = p.f, g.kids[2] = q.f, p.f \in Records,
         AllAttained(f.kids[1], x, p.f), AllAttained(f.kids[2], p.data, q.f)
  PROVE  Attained(J, f, x, g)
<1>0. /\ f \in Records /\ 1 \in DOMAIN f.kids /\ 2 \in DOMAIN f.kids
      /\ f.kids[1] \in Records /\ f.kids[2] \in Records /\ x \in Skolems
      /\ Parts[f.kids[1]] \subseteq AtomsNegated(n)
      /\ Parts[f.kids[2]] \subseteq AtomsNegated(n)
      /\ x.counter \in Nat /\ n <= x.counter
  BY ReadyFacts, Operands, Kids DEF Ready, Binary
<1>1. PICK K1 \in Worlds : SameUpTo(x.counter, J, K1) /\ Implies(J, K1, f.kids[1], x, p.f)
  BY DEF Attained, AllAttained
<1>2. PICK K \in Worlds :
        SameUpTo(p.data.counter, K1, K) /\ Implies(K1, K, f.kids[2], p.data, q.f)
  BY DEF Attained, AllAttained
<1>4. p.data.counter \in Nat /\ x.counter <= p.data.counter
  BY DEF SkolemizedWell, Skolems, SkolemData
<1>5. SameUpTo(x.counter, J, K)
  BY <1>0, <1>1, <1>2, <1>4, SameGrows
<1>6. Agree(K1, K, p.f)
  <2>1. Parts[p.f] \subseteq Named(p.data.counter)
    BY DEF SkolemizedWell, NoExistential, AtomsNegated, NoConditional
  <2> QED BY <1>2, <2>1, SameAgree
<1>7. Agree(J, K1, f.kids[2])
  <2>1. Parts[f.kids[2]] \subseteq Named(n)
    BY <1>0 DEF AtomsNegated, NoConditional
  <2>2. Named(n) \subseteq Named(x.counter)
    BY <1>0, ExistentialGrows
  <2>3. Parts[f.kids[2]] \subseteq Named(x.counter)
    BY <2>1, <2>2
  <2> QED BY <1>0, <1>1, <2>3, SameAgree
<1>8. ASSUME NEW e \in Envs, NEW d \in Envs, Translates(J, e, d, f, x.fns), Sat(J, e, f)
      PROVE  Sat(K, d, g)
  <2>1. Translates(J, e, d, f.kids[1], x.fns)
    BY <1>8 DEF Handed
  <2>2. Translates(K1, e, d, f, x.fns)
    BY <1>0, <1>1, <1>8, TranslatesSame
  <2>3. Translates(K1, e, d, f.kids[2], p.data.fns)
    BY <1>8, <2>2 DEF Handed
  <2>4. Sat(J, e, f.kids[1]) => Sat(K, d, p.f)
    <3>1. Sat(J, e, f.kids[1]) => Sat(K1, d, p.f)
      BY <1>1, <2>1 DEF Implies
    <3>2. Sat(K1, d, p.f) <=> Sat(K, d, p.f)
      BY <1>6, SatDepends DEF SameOn
    <3> QED BY <3>1, <3>2
  <2>5. Sat(J, e, f.kids[2]) => Sat(K, d, q.f)
    <3>1. Sat(J, e, f.kids[2]) <=> Sat(K1, e, f.kids[2])
      BY <1>0, <1>7, SatDepends DEF SameOn
    <3>2. Sat(K1, e, f.kids[2]) => Sat(K, d, q.f)
      BY <1>2, <2>3 DEF Implies
    <3> QED BY <3>1, <3>2
  <2>6. CASE f.type = "And"
    <3>1. Sat(J, e, f.kids[1]) /\ Sat(J, e, f.kids[2])
      BY <1>0, <1>8, <2>6, SatCases
    <3>2. Sat(K, d, g) <=> Sat(K, d, g.kids[1]) /\ Sat(K, d, g.kids[2])
      BY <2>6, SatCases
    <3>3. Sat(K, d, g.kids[1]) /\ Sat(K, d, g.kids[2])
      BY <2>4, <2>5, <3>1
    <3> QED BY <3>2, <3>3
  <2>7. CASE f.type = "Or"
    <3>1. Sat(J, e, f.kids[1]) \/ Sat(J, e, f.kids[2])
      BY <1>0, <1>8, <2>7, SatCases
    <3>2. Sat(K, d, g) <=> Sat(K, d, g.kids[1]) \/ Sat(K, d, g.kids[2])
      BY <2>7, SatCases
    <3>3. Sat(K, d, g.kids[1]) \/ Sat(K, d, g.kids[2])
      BY <2>4, <2>5, <3>1
    <3> QED BY <3>2, <3>3
  <2> QED BY <2>6, <2>7
<1>9. Implies(J, K, f, x, g)
  BY <1>8 DEF Implies
<1> QED BY <1>5, <1>9 DEF Attained

(* Functions can be chosen such that the result is true where the record   *)
(* was.                                                                    *)
LEMMA SkolemizeAttains ==
  ASSUME NEW n \in Nat, NEW f0 \in Records
  PROVE  \A J \in Worlds : \A x, s :
           LET g == skolemizeIn[f0][x][s].f
           IN Ready(n, f0, x, s) /\ Clear(f0, x, s) /\ g \in Records =>
                Attained(J, f0, x, g)
<1> DEFINE G(f, x, s) == skolemizeIn[f][x][s].f
           T == {f \in Records : \A J \in Worlds : \A x, s :
                   Ready(n, f, x, s) /\ Clear(f, x, s) /\ G(f, x, s) \in Records =>
                     Attained(J, f, x, G(f, x, s))}
<1>1. ASSUME NEW f \in Records, \A i \in DOMAIN f.kids : f.kids[i] \in T
      PROVE  f \in T
  <2> SUFFICES ASSUME NEW J \in Worlds, NEW x, NEW s, Ready(n, f, x, s), Clear(f, x, s),
                      G(f, x, s) \in Records
               PROVE  Attained(J, f, x, G(f, x, s))
    OBVIOUS
  <2>0. ASSUME NEW i \in DOMAIN f.kids, NEW K \in Worlds, NEW y, NEW z,
               Ready(n, f.kids[i], y, z), Clear(f.kids[i], y, z),
               G(f.kids[i], y, z) \in Records
        PROVE  Attained(K, f.kids[i], y, G(f.kids[i], y, z))
    BY <1>1, <2>0
  <2> HIDE DEF T
  <2> DEFINE r == skolemizeIn[f][x][s]
             g == r.f
  <2>1. g \in Records /\ g = G(f, x, s) /\ g = skolemizeIn[f][x][s].f
    OBVIOUS
  <2>2. ASSUME Implies(J, J, f, x, g) PROVE Attained(J, f, x, G(f, x, s))
    <3>1. SameUpTo(x.counter, J, J)
      BY DEF SameUpTo
    <3> HIDE DEF g, r, G
    <3> QED BY <2>1, <2>2, <3>1 DEF Attained
  <2>4. CASE f.type \notin Logical
    <3> HIDE DEF g, r, G
    <3>1. Implies(J, J, f, x, g)
      BY <2>1, <2>4, AtomSat DEF Implies
    <3> QED BY <2>2, <3>1
  <2>5. CASE f.type = "Negation"
    <3> HIDE DEF g, r, G
    <3>1. Implies(J, J, f, x, g)
      BY <2>1, <2>5, NegationSat DEF Implies
    <3> QED BY <2>2, <3>1
  <2>6. CASE f.type = "Universal"
    <3> DEFINE t == Append(s, f.name)
               q == skolemizeIn[f.kids[1]][x][t]
    <3>1. Above(f, r, q)
      BY <2>6, UniversalStep
    <3>2. 1 \in DOMAIN f.kids
      BY <2>6, Operands DEF Quantifiers
    <3>3. Ready(n, f.kids[1], x, t) /\ Clear(f.kids[1], x, t)
      BY <2>6, ReadyUniversal, ClearUniversal
    <3> HIDE DEF r
    <3>4. g.kids[1] = q.f /\ g.type = "Universal" /\ g.name = f.name /\ DOMAIN g.kids = {1}
      BY <2>6, <3>1 DEF Above
    <3>5. q.f \in Records /\ q.f = G(f.kids[1], x, t)
      BY <2>1, <3>4, Kids
    <3>6. Attained(J, f.kids[1], x, q.f)
      BY <2>0, <3>2, <3>3, <3>5
    <3> HIDE DEF q, t, G, g
    <3>7. Attained(J, f.kids[1], x, g.kids[1])
      BY <3>4, <3>6
    <3>8. Attained(J, f, x, g)
      BY <2>1, <2>6, <3>4, <3>7, AttainedUniversal
    <3> QED BY <2>1, <3>8
  <2>7. CASE f.type = "Existential"
    <3> DEFINE y0 == Given(x, s, f)
    <3>1. r = skolemizeIn[f.kids[1]][y0][s]
      BY <2>7, ExistentialStep
    <3>2. 1 \in DOMAIN f.kids
      BY <2>7, Operands DEF Quantifiers
    <3>3. Ready(n, f.kids[1], y0, s) /\ Clear(f.kids[1], y0, s)
      BY <2>7, ReadyExistential, ClearExistential
    <3>4. G(f.kids[1], y0, s) = g
      BY <3>1
    <3>5. \A K \in Worlds : Attained(K, f.kids[1], y0, g)
      BY <2>0, <2>1, <3>2, <3>3, <3>4
    <3> HIDE DEF r, G, g
    <3>6. Attained(J, f, x, g)
      BY <2>7, <3>5, AttainedExistential
    <3> QED BY <2>1, <3>6
  <2>8. CASE f.type \in {"And", "Or"}
    <3> DEFINE p == skolemizeIn[f.kids[1]][x][s]
               q == skolemizeIn[f.kids[2]][p.data][s]
    <3>1. Ready(n, f.kids[1], x, s) /\ Ready(n, f.kids[2], p.data, s) /\ Beside(f, r, p, q)
      BY <2>8, JoinStep
    <3>2. 1 \in DOMAIN f.kids /\ 2 \in DOMAIN f.kids
      BY <2>8, Operands DEF Binary
    <3>3. Clear(f.kids[1], x, s) /\ Clear(f.kids[2], p.data, s)
      BY <2>8, ClearJoin, Zenon
    <3> HIDE DEF r
    <3>5. g.kids[1] = p.f /\ g.kids[2] = q.f /\ g.type = f.type /\ DOMAIN g.kids = {1, 2}
      BY <3>1, Zenon DEF Beside
    <3>6. p.f \in Records /\ q.f \in Records
      <4> HIDE DEF p, q, g
      <4> QED BY <2>1, <3>5, Kids, Zenon
    <3>7. AllAttained(f.kids[1], x, p.f)
      BY <2>0, <3>1, <3>2, <3>3, <3>6, Zenon DEF AllAttained
    <3>8. AllAttained(f.kids[2], p.data, q.f)
      BY <2>0, <3>1, <3>2, <3>3, <3>6, Zenon DEF AllAttained
    <3>9. SkolemizedWell(f.kids[1], x, p) /\ Handed(f, x, p)
      <4>1. SkolemizedWell(f.kids[1], x, p)
        BY <3>1, <3>2, Kids, ExistentialsGone, Zenon DEF Ready
      <4>2. Handed(f, x, p)
        BY <2>8, TranslatesJoin DEF Handed
      <4> QED BY <4>1, <4>2, Zenon
    <3> HIDE DEF p, q, G, g
    <3>10. Attained(J, f, x, g)
      BY <2>1, <2>8, <3>5, <3>6, <3>7, <3>8, <3>9, AttainedJoin
    <3> QED BY <2>1, <3>10
  <2>9. f.type \notin {"Conditional", "Biconditional"}
    BY ReadyFacts
  <2> QED BY <2>4, <2>5, <2>6, <2>7, <2>8, <2>9 DEF Logical, Quantifiers
<1> HIDE DEF T
<1>2. Records \subseteq T
  BY <1>1, RecordInduction
<1> QED BY <1>2 DEF T

(* There is an environment, since the domain is not empty.                 *)
LEMMA SomeEnv == Envs # {}
<1>1. PICK v \in Domain : TRUE
  BY DomainAssumption
<1>2. [y \in AnyName |-> v] \in Envs
  BY DEF Envs
<1> QED BY <1>2

(* The whole of skolemize: what it returns is closed and implies what it   *)
(* was given; and the latter implies it, if the new symbols are right.     *)
LEMMA SkolemizeSays ==
  ASSUME NEW n \in Nat, NEW f \in Records, Parts[f] \subseteq AtomsNegated(n),
         BindOnce[f], FreeVariables[f] = {},
         NEW g, g = skolemize(f, n).f, g \in Records
  PROVE  /\ FreeVariables[g] = {} /\ BindOnce[g]
         /\ \A J \in Worlds : AllSat(J, g) => AllSat(J, f)
         /\ \A J \in Worlds : AllSat(J, f) =>
              \E K \in Worlds : SameUpTo(n, J, K) /\ AllSat(K, g)
<1> DEFINE x == [counter |-> n, fns |-> <<>>]
           s == <<>>
<1>1. x.counter = n /\ x.fns = <<>> /\ x \in Skolems
  BY DEF Skolems, SkolemData
<1>2. g = skolemizeIn[f][x][s].f
  BY DEF skolemize
<1>3. Ready(n, f, x, s)
  <2>1. s \in Scopes(x.counter)
    BY DEF Scopes
  <2> QED BY <1>1, <2>1 DEF Ready
<1>4. Clear(f, x, s)
  BY <1>1 DEF Clear, Keys, Elements
<1> HIDE DEF x
<1>5. InShape(f, s, g)
  BY <1>2, <1>3, <1>4, ShapeOfSkolemize
<1>6. FreeVariables[g] = {}
  BY <1>5 DEF InShape, Elements
<1> HIDE DEF s
<1>7. \A J, e, d : Translates(J, e, d, f, x.fns)
  BY DEF Translates
<1>8. ASSUME NEW J \in Worlds, AllSat(J, g) PROVE AllSat(J, f)
  <2>1. Implied(J, f, x, g)
    BY <1>2, <1>3, <1>4, SkolemizeImplies
  <2> QED BY <1>7, <1>8, <2>1 DEF Implied, AllSat
<1>9. ASSUME NEW J \in Worlds, AllSat(J, f)
      PROVE  \E K \in Worlds : SameUpTo(n, J, K) /\ AllSat(K, g)
  <2>1. Attained(J, f, x, g)
    BY <1>2, <1>3, <1>4, SkolemizeAttains
  <2>2. PICK K \in Worlds : SameUpTo(n, J, K) /\ Implies(J, K, f, x, g)
    BY <1>1, <2>1 DEF Attained
  <2>3. PICK e \in Envs : TRUE
    BY SomeEnv
  <2>4. AllSat(K, g)
    BY <1>7, <1>9, <2>2, <2>3 DEF Implies, AllSat
  <2> QED BY <2>2, <2>4
<1> QED BY <1>5, <1>6, <1>8, <1>9 DEF InShape
-----------------------------------------------------------------------------
(***************************************************************************)
(* The interpretations that TLC enumerates, and those of all symbols, the  *)
(* worlds.                                                                 *)
(***************************************************************************)

(* A function has no more values than arguments.                           *)
LEMMA FiniteImage ==
  ASSUME NEW S, IsFiniteSet(S), NEW F, DOMAIN F = S
  PROVE  IsFiniteSet({F[x] : x \in S})
<1> DEFINE T == {F[x] : x \in S}
           G == [x \in S |-> F[x]]
<1>1. G \in Surjection(S, T)
  BY DEF Surjection
<1> HIDE DEF T, G
<1>2. IsFiniteSet(T)
  BY <1>1, FS_Surjection
<1> QED BY <1>2 DEF T

(* A record has finitely many symbols, and they are among all symbols.     *)
LEMMA SymbolsFinite ==
  ASSUME NEW f0 \in Records
  PROVE  IsFiniteSet(Symbols(f0)) /\ Symbols(f0) \subseteq AnySymbol
<1> DEFINE T == {f \in Records : IsFiniteSet(Parts[f])}
<1>1. ASSUME NEW f \in Records, \A i \in DOMAIN f.kids : f.kids[i] \in T
      PROVE  f \in T
  <2> DEFINE D == DOMAIN f.kids
             F == [i \in D |-> Parts[f.kids[i]]]
             U == {F[i] : i \in D}
  <2>1. IsFiniteSet(D)
    <3>1. D = 1 .. Len(f.kids) /\ 1 \in Int /\ Len(f.kids) \in Int
      BY Kids
    <3> HIDE DEF D
    <3> QED BY <3>1, FS_Interval
  <2>2. IsFiniteSet(U)
    <3>1. DOMAIN F = D
      OBVIOUS
    <3> HIDE DEF F, D
    <3> QED BY <2>1, <3>1, FiniteImage
  <2>3. \A V \in U : IsFiniteSet(V)
    BY <1>1
  <2>4. Parts[f] = (UNION U) \cup {f}
    <3>1. Parts[f] = {f} \cup UNION {Parts[f.kids[i]] : i \in DOMAIN f.kids}
      BY PartsDef
    <3>2. U = {Parts[f.kids[i]] : i \in DOMAIN f.kids}
      OBVIOUS
    <3> HIDE DEF U
    <3> QED BY <3>1, <3>2
  <2> HIDE DEF U
  <2>5. IsFiniteSet(UNION U)
    BY <2>2, <2>3, FS_UNION
  <2> DEFINE W == UNION U
  <2> HIDE DEF W
  <2>6. IsFiniteSet(W \cup {f})
    BY <2>5, FS_AddElement DEF W
  <2> QED BY <2>4, <2>6 DEF W
<1> HIDE DEF T
<1>2. Records \subseteq T
  BY <1>1, RecordInduction
<1>3. IsFiniteSet(Parts[f0])
  BY <1>2 DEF T
<1> DEFINE P == {p \in Parts[f0] : p.type \in Predicates \cup Functions_}
           F == [g \in P |-> Symbol(g)]
<1>4. IsFiniteSet(P)
  <2>1. P \in SUBSET Parts[f0]
    OBVIOUS
  <2> HIDE DEF P
  <2> QED BY <1>3, <2>1, FS_Subset
<1>5. Symbols(f0) = {F[g] : g \in P} /\ DOMAIN F = P
  BY DEF Symbols
<1>6. Symbols(f0) \subseteq AnySymbol
  BY PartsAreRecords DEF Symbols, AnySymbol
<1> HIDE DEF F, P
<1> QED BY <1>4, <1>5, <1>6, FiniteImage

(* A set of symbols without the chosen one is smaller.                     *)
LEMMA WithoutChosen ==
  ASSUME NEW S \in SomeSymbols, S # {}
  PROVE  /\ Chosen(S) \in S /\ Chosen(S) \in AnySymbol
         /\ S \ {Chosen(S)} \in SomeSymbols
         /\ SizeOfSet(S \ {Chosen(S)}) < SizeOfSet(S)
         /\ SizeOfSet(S) \in Nat
<1>1. Chosen(S) \in S
  BY DEF Chosen
<1>2. S \in SUBSET AnySymbol /\ IsFiniteSet(S)
  BY DEF SomeSymbols
<1>3. IsFiniteSet(S \ {Chosen(S)}) /\ Cardinality(S) \in Nat
  BY <1>2, FS_RemoveElement, FS_CardinalityType
<1>4. Cardinality(S \ {Chosen(S)}) = Cardinality(S) - 1
  BY <1>1, <1>2, FS_RemoveElement
<1> QED BY <1>1, <1>2, <1>3, <1>4 DEF SomeSymbols, SizeOfSet

(* How Interpretations recurs.                                             *)
LEMMA OfInterpretations ==
  /\ Over("Interpretations") = SomeSymbols
  /\ \A S : Measure("Interpretations", S) = SizeOfSet(S)
  /\ \A g, S : Body("Interpretations", 0, g, S) = InterpretationsBody(g, S)
BY DEF Over, Measure, Body

(* Interpretations is defined by recursion over sets of symbols.           *)
LEMMA InterpretationsRecur == IsRecursive("Interpretations", 0)
<1>1. \A S \in SomeSymbols : SizeOfSet(S) \in Nat
  BY FS_CardinalityType DEF SomeSymbols, SizeOfSet
<1>2. ASSUME NEW S \in SomeSymbols, NEW g, NEW h,
             \A R \in SomeSymbols : SizeOfSet(R) < SizeOfSet(S) => g[R] = h[R]
      PROVE  InterpretationsBody(g, S) = InterpretationsBody(h, S)
  <2>1. CASE S = {}
    BY <2>1 DEF InterpretationsBody
  <2>2. CASE S # {}
    <3>1. g[S \ {Chosen(S)}] = h[S \ {Chosen(S)}]
      BY <1>2, <2>2, WithoutChosen
    <3> QED BY <3>1 DEF InterpretationsBody
  <2> QED BY <2>1, <2>2
<1> QED BY <1>1, <1>2, OfInterpretations DEF IsRecursive

(* Interpretations satisfies its definition.                               *)
LEMMA InterpretationsDef ==
  ASSUME NEW symbols \in SomeSymbols
  PROVE  \E v : /\ v = [S \in SUBSET symbols |-> InterpretationsBody(v, S)]
                /\ Interpretations(symbols) = v[symbols]
<1>1. \E g : g = [S \in SomeSymbols |-> InterpretationsBody(g, S)]
  BY InterpretationsRecur, OfInterpretations, RecursiveFunction
<1>2. PICK g : g = [S \in SomeSymbols |-> InterpretationsBody(g, S)]
  BY <1>1
<1>3. \A S \in SUBSET symbols : S \in SomeSymbols
  <2>1. symbols \in SUBSET AnySymbol /\ IsFiniteSet(symbols)
    BY DEF SomeSymbols
  <2> QED BY <2>1, FS_Subset DEF SomeSymbols
<1> DEFINE h == [S \in SUBSET symbols |-> g[S]]
<1>4. ASSUME NEW S \in SUBSET symbols PROVE g[S] = InterpretationsBody(h, S)
  <2>1. g[S] = InterpretationsBody(g, S)
    BY <1>2, <1>3
  <2>2. S \ {Chosen(S)} \in SUBSET symbols
    OBVIOUS
  <2>3. g[S \ {Chosen(S)}] = h[S \ {Chosen(S)}]
    BY <2>2
  <2> HIDE DEF h
  <2> QED BY <2>1, <2>3 DEF InterpretationsBody
<1>5. h = [S \in SUBSET symbols |-> InterpretationsBody(h, S)]
  BY <1>4
<1> HIDE DEF h
<1>6. \E v : v = [S \in SUBSET symbols |-> InterpretationsBody(v, S)]
  BY <1>5
<1> DEFINE V == CHOOSE v : v = [S \in SUBSET symbols |-> InterpretationsBody(v, S)]
<1>7. V = [S \in SUBSET symbols |-> InterpretationsBody(V, S)]
  BY <1>6
<1>8. Interpretations(symbols) = V[symbols]
  BY DEF Interpretations, InterpretationsBody, Extensions, Chosen
<1> HIDE DEF V
<1> QED BY <1>7, <1>8

(* An interpretation of the symbols in S gives every one of them a meaning *)
(* of its kind.                                                            *)
Typed(m, S) == m = [y \in S |-> m[y]] /\ \A y \in S : m[y] \in Denotations(y)

(* Without symbols there is one interpretation.                            *)
LEMMA TypedEmpty == \A m : m \in {<<>>} <=> Typed(m, {})
<1>1. <<>> = [y \in {} |-> <<>>[y]]
  OBVIOUS
<1>2. ASSUME NEW m, m = [y \in {} |-> m[y]] PROVE m = <<>>
  BY <1>2
<1> QED BY <1>1, <1>2 DEF Typed

(* An interpretation of all symbols but one is extended.                   *)
LEMMA TypedWith ==
  ASSUME NEW S, NEW s \in S, NEW m, Typed(m, S \ {s}), NEW t \in Denotations(s)
  PROVE  Typed(With(m, s, t), S)
<1> DEFINE w == With(m, s, t)
<1>1. DOMAIN m = S \ {s} /\ \A y \in S \ {s} : m[y] \in Denotations(y)
  BY DEF Typed
<1>2. w = [y \in S |-> IF y = s THEN t ELSE m[y]]
  <2>1. DOMAIN m \cup {s} = S
    BY <1>1
  <2> QED BY <2>1 DEF With
<1> HIDE DEF w
<1>3. w = [y \in S |-> w[y]] /\ \A y \in S : w[y] = IF y = s THEN t ELSE m[y]
  BY <1>2
<1>4. Typed(w, S)
  BY <1>1, <1>3 DEF Typed
<1> QED BY <1>4 DEF w

Splits(m, S, s, k, t) ==
  Typed(k, S \ {s}) /\ t \in Denotations(s) /\ m = With(k, s, t)

(* An interpretation is one of all symbols but one, extended.              *)
LEMMA TypedSplit ==
  ASSUME NEW S, NEW s \in S, NEW m, Typed(m, S)
  PROVE  \E k, t : Splits(m, S, s, k, t)
<1> DEFINE k == [y \in S \ {s} |-> m[y]]
<1>1. m = [y \in S |-> m[y]] /\ \A y \in S : m[y] \in Denotations(y)
  BY DEF Typed
<1>2. DOMAIN k = S \ {s} /\ k = [y \in S \ {s} |-> k[y]] /\ \A y \in S \ {s} : k[y] = m[y]
  OBVIOUS
<1> HIDE DEF k
<1>3. Typed(k, S \ {s})
  BY <1>1, <1>2 DEF Typed
<1>4. m[s] \in Denotations(s)
  BY <1>1
<1>5. DOMAIN k \cup {s} = S
  BY <1>2
<1>6. With(k, s, m[s]) = [y \in S |-> IF y = s THEN m[s] ELSE k[y]]
  BY <1>5 DEF With
<1>7. With(k, s, m[s]) = [y \in S |-> m[y]]
  BY <1>2, <1>6
<1>8. Splits(m, S, s, k, m[s])
  BY <1>1, <1>3, <1>4, <1>7 DEF Splits
<1> QED BY <1>8

(* Interpretations are all typed functions of the symbols.                 *)
LEMMA InterpretationsTyped ==
  ASSUME NEW symbols \in SomeSymbols
  PROVE  \A m : m \in Interpretations(symbols) <=> Typed(m, symbols)
<1>1. PICK v : /\ v = [S \in SUBSET symbols |-> InterpretationsBody(v, S)]
               /\ Interpretations(symbols) = v[symbols]
  BY InterpretationsDef
<1> DEFINE T == {S \in SomeSymbols : S \subseteq symbols =>
                   \A m : m \in v[S] <=> Typed(m, S)}
<1>2. ASSUME NEW S \in SomeSymbols,
             \A R \in SomeSymbols : SizeOfSet(R) < SizeOfSet(S) => R \in T
      PROVE  S \in T
  <2>0. ASSUME NEW R \in SomeSymbols, SizeOfSet(R) < SizeOfSet(S), R \subseteq symbols
        PROVE  \A k : k \in v[R] <=> Typed(k, R)
    BY <1>2, <2>0
  <2> SUFFICES ASSUME S \subseteq symbols PROVE \A m : m \in v[S] <=> Typed(m, S)
    OBVIOUS
  <2> HIDE DEF T
  <2>1. v[S] = InterpretationsBody(v, S)
    BY <1>1
  <2>2. CASE S = {}
    <3>1. InterpretationsBody(v, S) = {<<>>}
      BY <2>2 DEF InterpretationsBody
    <3> QED BY <2>1, <2>2, <3>1, TypedEmpty
  <2>3. CASE S # {}
    <3> DEFINE s == Chosen(S)
               R == S \ {s}
    <3>1. s \in S /\ R \in SomeSymbols /\ SizeOfSet(R) < SizeOfSet(S)
      BY <2>3, WithoutChosen
    <3>2. R \subseteq symbols
      OBVIOUS
    <3>3. \A k : k \in v[R] <=> Typed(k, R)
      BY <2>0, <3>1, <3>2
    <3>4. v[S] = Extensions(v[R], s)
      BY <2>1, <2>3 DEF InterpretationsBody
    <3>5. R = S \ {s}
      OBVIOUS
    <3> HIDE DEF s, R
    <3>6. ASSUME NEW m, m \in v[S] PROVE Typed(m, S)
      <4>1. PICK k \in v[R], t \in Denotations(s) : m = With(k, s, t)
        BY <3>4, <3>6 DEF Extensions
      <4>2. Typed(k, S \ {s})
        BY <3>3, <3>5
      <4> QED BY <3>1, <4>1, <4>2, TypedWith
    <3>7. ASSUME NEW m, Typed(m, S) PROVE m \in v[S]
      <4>1. PICK k, t : Splits(m, S, s, k, t)
        BY <3>1, <3>7, TypedSplit
      <4>2. k \in v[R]
        BY <3>3, <3>5, <4>1 DEF Splits
      <4> QED BY <3>4, <4>1, <4>2 DEF Extensions, Splits
    <3> QED BY <3>6, <3>7
  <2> QED BY <2>2, <2>3
<1>3. \A S \in SomeSymbols : SizeOfSet(S) \in Nat
  BY FS_CardinalityType DEF SomeSymbols, SizeOfSet
<1> HIDE DEF T
<1>4. SomeSymbols \subseteq T
  BY <1>2, <1>3, OfInterpretations, MeasureInduction
<1>5. symbols \in T
  BY <1>4
<1> QED BY <1>1, <1>5 DEF T

(* Every symbol can stand for something.                                   *)
LEMMA SomeDenotation == \A y : Denotations(y) # {}
<1> SUFFICES ASSUME NEW y PROVE Denotations(y) # {}
  OBVIOUS
<1> DEFINE A == [1 .. y[3] -> Domain]
<1>1. PICK v \in Domain : TRUE
  BY DomainAssumption
<1>2. CASE y[1] \in Predicates
  <2>1. [a \in A |-> TRUE] \in Denotations(y)
    BY <1>2 DEF Denotations
  <2> QED BY <2>1
<1>3. CASE y[1] \notin Predicates
  <2>1. [a \in A |-> v] \in Denotations(y)
    BY <1>3 DEF Denotations
  <2> QED BY <2>1
<1> QED BY <1>2, <1>3

(* Meanings for some symbols extend to meanings for all, and the other way *)
(* round.                                                                  *)
LEMMA WorldExtends ==
  ASSUME NEW S \in SUBSET AnySymbol, NEW m, Typed(m, S)
  PROVE  \E J \in Worlds : \A y \in S : J[y] = m[y]
<1> DEFINE J == [y \in AnySymbol |-> IF y \in S THEN m[y]
                                     ELSE CHOOSE t \in Denotations(y) : TRUE]
<1>1. \A y \in S : m[y] \in Denotations(y)
  BY DEF Typed
<1>2. ASSUME NEW y \in AnySymbol PROVE J[y] \in Denotations(y)
  <2>1. CASE y \in S
    BY <1>1, <2>1
  <2>2. CASE y \notin S
    <3>1. \E t \in Denotations(y) : TRUE
      BY SomeDenotation
    <3>2. J[y] = CHOOSE t \in Denotations(y) : TRUE
      BY <2>2
    <3> HIDE DEF J
    <3> QED BY <3>1, <3>2
  <2> QED BY <2>1, <2>2
<1>3. J = [y \in AnySymbol |-> J[y]] /\ \A y \in S : J[y] = m[y]
  OBVIOUS
<1> HIDE DEF J
<1>4. J \in [AnySymbol -> UNION {Denotations(y) : y \in AnySymbol}]
  BY <1>2, <1>3
<1>5. J \in Worlds
  BY <1>2, <1>4 DEF Worlds
<1> QED BY <1>3, <1>5

(* A world, restricted to some symbols, interprets these.                  *)
LEMMA WorldRestricts ==
  ASSUME NEW J \in Worlds, NEW S \in SUBSET AnySymbol
  PROVE  Typed([y \in S |-> J[y]], S)
<1> DEFINE m == [y \in S |-> J[y]]
<1>1. m = [y \in S |-> m[y]] /\ \A y \in S : m[y] = J[y]
  OBVIOUS
<1> HIDE DEF m
<1>2. \A y \in S : J[y] \in Denotations(y)
  BY DEF Worlds
<1>3. Typed(m, S)
  BY <1>1, <1>2 DEF Typed
<1> QED BY <1>3 DEF m

(* f and g mean the same in every world, up to the symbols that only g has.*)
MeansSame(f, g) ==
  \A I \in Worlds : AllSat(I, f) <=> \E J \in Worlds : Agree(I, J, f) /\ AllSat(J, g)

(* Truth in all environments depends on the symbols only.                  *)
LEMMA AllSatDepends ==
  ASSUME NEW I, NEW J, NEW f \in Records, Agree(I, J, f)
  PROVE  AllSat(I, f) <=> AllSat(J, f)
  BY SatDepends DEF AllSat, SameOn

(* This is what Expresses says over the symbols of f and g alone.          *)
LEMMA MeansSameExpresses ==
  ASSUME NEW f \in Records, NEW g \in Records, MeansSame(f, g)
  PROVE  Expresses(g, f)
<1> DEFINE own == Symbols(f)
           new == Symbols(g) \ own
<1>1. own \in SomeSymbols /\ new \in SomeSymbols
  <2>1. /\ IsFiniteSet(Symbols(f)) /\ Symbols(f) \subseteq AnySymbol
        /\ IsFiniteSet(Symbols(g)) /\ Symbols(g) \subseteq AnySymbol
    BY SymbolsFinite
  <2>2. new \in SUBSET Symbols(g)
    OBVIOUS
  <2> HIDE DEF new
  <2>3. IsFiniteSet(new)
    BY <2>1, <2>2, FS_Subset
  <2> QED BY <2>1, <2>2, <2>3 DEF SomeSymbols
<1> SUFFICES ASSUME NEW I \in Interpretations(own)
             PROVE  True(f, I) <=> \E J \in Interpretations(new) : True(g, Joined(I, J))
  BY DEF Expresses
<1>2. Typed(I, own)
  BY <1>1, InterpretationsTyped
<1>3. own \in SUBSET AnySymbol /\ new \in SUBSET AnySymbol
  BY <1>1 DEF SomeSymbols
<1>4. PICK W \in Worlds : \A y \in own : W[y] = I[y]
  BY <1>2, <1>3, WorldExtends
<1>5. True(f, I) <=> AllSat(W, f)
  <2>1. Agree(W, I, f)
    BY <1>4 DEF Agree
  <2> QED BY <2>1, AllSatDepends, TrueIs
<1>6. DOMAIN I = own
  BY <1>2 DEF Typed
<1>7. ASSUME True(f, I)
      PROVE  \E J \in Interpretations(new) : True(g, Joined(I, J))
  <2>1. PICK K \in Worlds : Agree(W, K, f) /\ AllSat(K, g)
    BY <1>5, <1>7 DEF MeansSame
  <2> DEFINE J == [y \in new |-> K[y]]
  <2>2. Typed(J, new)
    BY <1>3, WorldRestricts
  <2>3. J \in Interpretations(new)
    BY <1>1, <2>2, InterpretationsTyped
  <2>4. DOMAIN J = new /\ \A y \in new : J[y] = K[y]
    OBVIOUS
  <2> HIDE DEF J
  <2>5. ASSUME NEW y \in Symbols(g) PROVE Joined(I, J)[y] = K[y]
    <3>1. CASE y \in own
      <4>1. Joined(I, J)[y] = I[y]
        BY <1>6, <3>1 DEF Joined
      <4> QED BY <1>4, <2>1, <3>1, <4>1 DEF Agree
    <3>2. CASE y \notin own
      <4>1. Joined(I, J)[y] = J[y]
        BY <1>6, <2>4, <3>2 DEF Joined
      <4> QED BY <2>4, <3>2, <4>1
    <3> QED BY <3>1, <3>2
  <2>6. Agree(Joined(I, J), K, g)
    BY <2>5 DEF Agree
  <2>7. True(g, Joined(I, J))
    BY <2>1, <2>6, AllSatDepends, TrueIs
  <2> QED BY <2>3, <2>7
<1>8. ASSUME NEW J \in Interpretations(new), True(g, Joined(I, J))
      PROVE  True(f, I)
  <2> DEFINE m == Joined(I, J)
             both == own \cup new
  <2>1. Typed(J, new)
    BY <1>1, InterpretationsTyped
  <2>2. DOMAIN J = new
    BY <2>1 DEF Typed
  <2>3. Typed(m, both)
    <3>1. m = [y \in both |-> IF y \in own THEN I[y] ELSE J[y]]
      BY <1>6, <2>2 DEF Joined
    <3> HIDE DEF m
    <3>2. m = [y \in both |-> m[y]]
      BY <3>1
    <3>3. \A y \in both : m[y] \in Denotations(y)
      BY <1>2, <2>1, <3>1 DEF Typed
    <3> QED BY <3>2, <3>3 DEF Typed
  <2>4. both \in SUBSET AnySymbol
    BY <1>3
  <2>5. \A y \in own : m[y] = I[y]
    BY <1>6 DEF Joined
  <2> HIDE DEF m
  <2>6. PICK K \in Worlds : \A y \in both : K[y] = m[y]
    BY <2>3, <2>4, WorldExtends
  <2>7. Agree(m, K, g)
    BY <2>6 DEF Agree
  <2>8. AllSat(K, g)
    BY <1>8, <2>7, AllSatDepends, TrueIs DEF m
  <2>9. Agree(W, K, f)
    BY <1>4, <2>5, <2>6 DEF Agree
  <2>10. AllSat(W, f)
    BY <2>8, <2>9 DEF MeansSame
  <2> QED BY <1>5, <2>10
<1> QED BY <1>7, <1>8
-----------------------------------------------------------------------------
(***************************************************************************)
(* What the working copy stands for, call by call.                         *)
(***************************************************************************)

(* What was read has no free variable, and no name in two roles.           *)
LEMMA WrittenIsDistinct ==
  ASSUME NEW e \in Written
  PROVE  e.f \in Records /\ FreeVariables[e.f] = {} /\ Distinct(e.f)
<1> DEFINE f == e.f
<1>1. f \in Records /\ FreeVariables[f] = {} /\ BinderNames(f) \cap OtherNames(f) = {}
  BY DEF Written, Entries
<1> HIDE DEF f
<1>2. ASSUME NEW x, <<"binds", x>> \in Uses(f) PROVE x \in BinderNames(f)
  <2>1. PICK p \in Parts[f] : <<"binds", x>> \in Own(p)
    BY <1>2 DEF Uses
  <2>2. p.type \in Quantifiers /\ x = p.name
    BY <2>1 DEF Own
  <2> QED BY <2>2 DEF BinderNames, Binders
<1>3. ASSUME NEW x, <<"means", x>> \in Uses(f) PROVE x \in OtherNames(f)
  <2>1. PICK p \in Parts[f] : <<"means", x>> \in Own(p)
    BY <1>3 DEF Uses
  <2>2. p.type \notin Quantifiers /\ p.type \notin Nameless /\ x = p.name
    BY <2>1 DEF Own
  <2>3. p.type \notin Quantifiers \cup {"Variable"}
    BY <2>2 DEF Nameless
  <2> QED BY <2>2, <2>3 DEF OtherNames
<1>4. Distinct(f)
  BY <1>1, <1>2, <1>3 DEF Distinct
<1> QED BY <1>1, <1>4 DEF f

(* Calls that add no use of a name keep formulas closed and names apart.   *)
LEMMA TameKeeps ==
  ASSUME NEW f, NEW g, Tame(f, g), FreeVariables[f] = {}, Distinct(f)
  PROVE  FreeVariables[g] = {} /\ Distinct(g)
  BY DEF Tame, Distinct

(* The meaning of a formula is its own; it is kept by a call that keeps it *)
(* in every world, and by one that chooses new symbols.                    *)
LEMMA MeansItself == ASSUME NEW f \in Records PROVE MeansSame(f, f)
  BY AllSatDepends, AgreeItself DEF MeansSame

(* A formula may be replaced by one that is true in the same worlds.       *)
LEMMA MeansAlike ==
  ASSUME NEW f, NEW g, NEW h, MeansSame(f, g),
         \A J \in Worlds : AllSat(J, g) <=> AllSat(J, h)
  PROVE  MeansSame(f, h)
  BY DEF MeansSame

(* h says more than g only of symbols with numbers after n.                *)
Strengthens(n, g, h) ==
  /\ \A J \in Worlds : AllSat(J, h) => AllSat(J, g)
  /\ \A J \in Worlds : AllSat(J, g) =>
       \E K \in Worlds : SameUpTo(n, J, K) /\ AllSat(K, h)

(* skolemize returns a closed formula that implies the one it was given.   *)
(* Where that is true, its result is true too if the new symbols are given *)
(* the right functions; no other symbol need be changed.                   *)
THEOREM SkolemizeStrengthens ==
  ASSUME NEW n \in Nat, NEW f \in Records, Parts[f] \subseteq AtomsNegated(n),
         BindOnce[f], FreeVariables[f] = {}, skolemize(f, n).f \in Records
  PROVE  /\ FreeVariables[skolemize(f, n).f] = {} /\ BindOnce[skolemize(f, n).f]
         /\ Strengthens(n, f, skolemize(f, n).f)
<1> DEFINE g == skolemize(f, n).f
<1>1. g = skolemize(f, n).f /\ g \in Records
  OBVIOUS
<1> HIDE DEF g
<1>2. FreeVariables[g] = {} /\ BindOnce[g]
  BY <1>1, SkolemizeSays
<1>3. \A J \in Worlds : AllSat(J, g) => AllSat(J, f)
  BY <1>1, SkolemizeSays
<1>4. ASSUME NEW J \in Worlds, AllSat(J, f)
      PROVE  \E K \in Worlds : SameUpTo(n, J, K) /\ AllSat(K, g)
  BY <1>1, <1>4, SkolemizeSays
<1> QED BY <1>1, <1>2, <1>3, <1>4 DEF Strengthens

(* What is so strengthened still stands for the formula it came from.      *)
LEMMA MeansSkolemized ==
  ASSUME NEW n, NEW f \in Records, Parts[f] \subseteq Named(n), NEW g, NEW h,
         MeansSame(f, g), Strengthens(n, g, h)
  PROVE  MeansSame(f, h)
<1> SUFFICES ASSUME NEW I \in Worlds
             PROVE  AllSat(I, f) <=> \E J \in Worlds : Agree(I, J, f) /\ AllSat(J, h)
  BY DEF MeansSame
<1>1. ASSUME AllSat(I, f)
      PROVE  \E J \in Worlds : Agree(I, J, f) /\ AllSat(J, h)
  <2>1. PICK J \in Worlds : Agree(I, J, f) /\ AllSat(J, g)
    BY <1>1 DEF MeansSame
  <2>2. PICK K \in Worlds : SameUpTo(n, J, K) /\ AllSat(K, h)
    BY <2>1 DEF Strengthens
  <2>3. Agree(J, K, f)
    BY <2>2, SameAgree
  <2>4. Agree(I, K, f)
    BY <2>1, <2>3 DEF Agree
  <2> QED BY <2>2, <2>4
<1>2. ASSUME NEW J \in Worlds, Agree(I, J, f), AllSat(J, h)
      PROVE  AllSat(I, f)
  BY <1>2 DEF MeansSame, Strengthens
<1> QED BY <1>1, <1>2

(* Two formulas that say the same under every scope.                       *)
LEMMA SameAllSat ==
  ASSUME NEW f, NEW g, \A I, e : Same(I, e, f, g)
  PROVE  \A J \in Worlds : AllSat(J, f) <=> AllSat(J, g)
<1>1. \A I, e : Sat(I, e, f) <=> Sat(I, e, g)
  BY NoScope DEF Same, Sat
<1> QED BY <1>1 DEF AllSat

-----------------------------------------------------------------------------
(* The inductive invariant: the copy of an entry means what the entry      *)
(* means, as far as the calls have come; and so does what is inserted.     *)
Closed == {"removeBiconditionals", "removeConditionals", "demorgans",
           "renameVariables"}

CopySays(nf, source, f, c) ==
  /\ c # "distribution" => FreeVariables[f] = {}
  /\ c \in Closed => Distinct(f)
  /\ c = "removeUniversals" => BindOnce[f]
  /\ (nf = "DNF" => c # "distribution") => MeansSame(source, f)

CopyMeans == Working => CopySays(form, Copy(Len(normal.list)), cur, call)

DoneMeans ==
  form = "CNF" =>
    \A i \in DOMAIN normal.list : MeansSame(program.list[i].f, normal.list[i].f)

(* What the copy is when a call begins, and what the call sets.            *)
LEMMA CallBegins ==
  ASSUME FormInv, CopyMeans, Working
  PROVE  /\ cur \in Records /\ counter \in Nat
         /\ Parts[cur] \subseteq Reached(call, counter)
         /\ CopySays(form, Copy(Len(normal.list)), cur, call)
         /\ Copy(Len(normal.list)) \in Records
         /\ Parts[Copy(Len(normal.list))] \subseteq Named(counter)
         /\ FreeVariables[Copy(Len(normal.list))] = {}
         /\ Distinct(Copy(Len(normal.list)))
<1>1. /\ program.list \in Seq(Written) /\ Len(normal.list) \in Nat
      /\ Len(normal.list) < Len(program.list) /\ counter \in Nat
  BY DEF FormInv, ProgramRead, NormalMade, Working
<1>2. program.list[Len(normal.list) + 1] \in Written
  BY <1>1
<1>3. Copy(Len(normal.list)) = program.list[Len(normal.list) + 1].f
  BY <1>1 DEF Copy
<1> QED BY <1>1, <1>2, <1>3, CopyIsNamed, WrittenIsDistinct
       DEF CopyMeans, FormInv, CopyReached

(* A call sets the copy; the entry that it is of stays.                    *)
LEMMA CallEnds ==
  ASSUME UNCHANGED <<phase, program, form, normal>>,
         CopySays(form, Copy(Len(normal.list)), cur', call')
  PROVE  CopyMeans'
<1>1. Copy(Len(normal.list))' = Copy(Len(normal.list))
  BY DEF Copy
<1> QED BY <1>1 DEF CopyMeans, CopySays

(* The calls before skolemize keep what the working copy stands for.       *)
LEMMA CallsMean ==
  ASSUME FormInv, CopyMeans,
         RemoveBiconditionals \/ RemoveConditionals \/ Demorgans
  PROVE  CopyMeans'
<1> DEFINE source == Copy(Len(normal.list))
<1>1. /\ Working /\ cur' \in Records
      /\ UNCHANGED <<phase, program, form, normal>>
      /\ call \in Closed /\ call' \in Closed
      /\ Tame(cur, cur')
      /\ \A I, e : Same(I, e, cur, cur')
  <2>1. CASE RemoveBiconditionals
    <3>1. Rewrite("removeBiconditionals", removeBiconditionals[cur])
      BY <2>1 DEF RemoveBiconditionals
    <3> QED BY <3>1, CallBegins, AfterCalls, BiconditionalsTame, BiconditionalsSame
           DEF Rewrite, Closed
  <2>2. CASE RemoveConditionals
    <3>1. Rewrite("removeConditionals", removeConditionals[cur])
      BY <2>2 DEF RemoveConditionals
    <3> QED BY <3>1, CallBegins, AfterCalls, ConditionalsTame, ConditionalsSame
           DEF Rewrite, Closed
  <2>3. CASE Demorgans
    <3>1. Rewrite("demorgans", demorgans[cur])
      BY <2>3 DEF Demorgans
    <3> QED BY <3>1, CallBegins, AfterCalls, DemorgansTame, DemorgansSame
           DEF Rewrite, Closed
  <2> QED BY <2>1, <2>2, <2>3
<1>2. /\ FreeVariables[cur] = {} /\ Distinct(cur) /\ MeansSame(source, cur)
  BY <1>1, CallBegins DEF CopySays, Closed
<1>3. FreeVariables[cur'] = {} /\ Distinct(cur')
  BY <1>1, <1>2, TameKeeps
<1>4. MeansSame(source, cur')
  BY <1>1, <1>2, SameAllSat, MeansAlike
<1>5. call' # "removeUniversals"
  BY <1>1 DEF Closed
<1> HIDE DEF source
<1>6. CopySays(form, source, cur', call')
  BY <1>3, <1>4, <1>5 DEF CopySays
<1> QED BY <1>1, <1>6, CallEnds DEF source

(* renameVariables keeps the truth, and what a closed formula is true of.  *)
LEMMA RenameVariablesMeans ==
  ASSUME FormInv, CopyMeans, RenameVariables
  PROVE  CopyMeans' /\ \A I, e, d : Sat(I, e, cur) <=> Sat(I, d, cur')
<1> DEFINE source == Copy(Len(normal.list))
<1>1. /\ Working /\ call = "renameVariables" /\ call' = "skolemize"
      /\ cur' = renameVariables(cur, counter).f /\ cur' \in Records
      /\ UNCHANGED <<phase, program, form, normal>>
  BY AfterCalls DEF RenameVariables, RewriteNaming
<1>2. /\ cur \in Records /\ counter \in Nat /\ Parts[cur] \subseteq AtomsNegated(counter)
      /\ FreeVariables[cur] = {} /\ Distinct(cur) /\ MeansSame(source, cur)
  BY <1>1, CallBegins DEF CopySays, Closed, Reached
<1>3. /\ FreeVariables[cur'] = {}
      /\ \A I, e, d : Sat(I, e, cur) <=> Sat(I, d, cur')
  BY <1>1, <1>2, RenameVariablesSays
<1>4. \A J \in Worlds : AllSat(J, cur) <=> AllSat(J, cur')
  BY <1>3 DEF AllSat
<1>5. MeansSame(source, cur')
  BY <1>2, <1>4, MeansAlike
<1> HIDE DEF source
<1>6. CopySays(form, source, cur', call')
  BY <1>1, <1>3, <1>5 DEF CopySays, Closed
<1> QED BY <1>1, <1>3, <1>6, CallEnds DEF source

(* skolemize keeps what the working copy stands for.                       *)
LEMMA SkolemizeMeans ==
  ASSUME FormInv, CopyMeans, Skolemize
  PROVE  CopyMeans'
<1> DEFINE source == Copy(Len(normal.list))
<1>1. /\ Working /\ call = "skolemize" /\ call' = "removeUniversals"
      /\ cur' = skolemize(cur, counter).f /\ cur' \in Records
      /\ UNCHANGED <<phase, program, form, normal>>
  BY AfterCalls DEF Skolemize, RewriteNaming
<1>2. /\ cur \in Records /\ counter \in Nat /\ Parts[cur] \subseteq AtomsNegated(counter)
      /\ FreeVariables[cur] = {} /\ MeansSame(source, cur)
      /\ source \in Records /\ Parts[source] \subseteq Named(counter)
  BY <1>1, CallBegins DEF CopySays, Reached
<1>3. BindOnce[cur]
  BY <1>1 DEF FormInv, CopyReached, BindersApart
<1>4. /\ FreeVariables[cur'] = {} /\ BindOnce[cur']
      /\ Strengthens(counter, cur, cur')
  BY <1>1, <1>2, <1>3, SkolemizeStrengthens
<1> HIDE DEF source
<1>5. MeansSame(source, cur')
  BY <1>2, <1>4, MeansSkolemized
<1>6. CopySays(form, source, cur', call')
  BY <1>1, <1>4, <1>5 DEF CopySays, Closed
<1> QED BY <1>1, <1>6, CallEnds DEF source

(* removeUniversals keeps what the working copy stands for.                *)
LEMMA RemoveUniversalsMeans ==
  ASSUME FormInv, CopyMeans, RemoveUniversals
  PROVE  CopyMeans'
<1> DEFINE source == Copy(Len(normal.list))
<1>1. /\ Working /\ call = "removeUniversals" /\ call' = "distribution"
      /\ cur' = removeUniversals[cur] /\ cur' \in Records
      /\ UNCHANGED <<phase, program, form, normal>>
  BY AfterCalls DEF RemoveUniversals, Rewrite
<1>2. /\ cur \in Records /\ counter \in Nat /\ Parts[cur] \subseteq NoExistential(counter)
      /\ FreeVariables[cur] = {} /\ BindOnce[cur] /\ MeansSame(source, cur)
  BY <1>1, CallBegins DEF CopySays, Reached
<1>3. \A J \in Worlds : AllSat(J, cur) <=> AllSat(J, cur')
  BY <1>1, <1>2, UniversalsAllSat
<1>4. MeansSame(source, cur')
  BY <1>2, <1>3, MeansAlike
<1> HIDE DEF source
<1>5. CopySays(form, source, cur', call')
  BY <1>1, <1>4 DEF CopySays, Closed
<1> QED BY <1>1, <1>5, CallEnds DEF source

(* The distribution keeps what the working copy stands for.                *)
LEMMA DistributeMeans ==
  ASSUME FormInv, CopyMeans, Distribute
  PROVE  CopyMeans'
<1> DEFINE source == Copy(Len(normal.list))
<1>1. /\ Working /\ call = "distribution" /\ call' = "distribution"
      /\ cur' = Pass /\ cur' \in Records /\ form \in {"CNF", "DNF"}
      /\ UNCHANGED <<phase, program, form, normal>>
  BY DEF Distribute, FormInv, NormalMade, Working
<1>2. /\ cur \in Records /\ (form # "DNF" => MeansSame(source, cur))
  BY <1>1, CallBegins DEF CopySays
<1> HIDE DEF source
<1>3. form = "CNF" => MeansSame(source, cur')
  <2> SUFFICES ASSUME form = "CNF" PROVE MeansSame(source, cur')
    OBVIOUS
  <2>1. cur' = distributeOrs[cur]
    BY <1>1 DEF Pass
  <2>2. \A I, e : Same(I, e, cur, cur')
    BY <1>1, <1>2, <2>1, OrsSame
  <2> QED BY <1>2, <2>2, SameAllSat, MeansAlike
<1>4. CopySays(form, source, cur', call')
  BY <1>1, <1>3 DEF CopySays, Closed
<1> QED BY <1>1, <1>4, CallEnds DEF source

(* The copy of the next entry is what was written.                         *)
LEMMA CopyBegins ==
  ASSUME program.list \in Seq(Written), NEW k \in Nat, k < Len(program.list), NEW nf
  PROVE  CopySays(nf, Copy(k), Copy(k), "removeBiconditionals")
<1>1. program.list[k + 1] \in Written /\ Copy(k) = program.list[k + 1].f
  BY DEF Copy
<1>2. Copy(k) \in Records /\ FreeVariables[Copy(k)] = {} /\ Distinct(Copy(k))
  BY <1>1, WrittenIsDistinct
<1> QED BY <1>2, MeansItself DEF CopySays

(* A copy of the program stands for the program.                           *)
LEMMA StartNormalMeans ==
  ASSUME FormInv, NEW nf \in {"CNF", "DNF"}, StartNormal(nf)
  PROVE  CopyMeans' /\ DoneMeans'
<1>1. /\ normal'.list = <<>> /\ cur' = Copy(0) /\ call' = "removeBiconditionals"
      /\ program' = program /\ program.list \in Seq(Written) /\ Len(program.list) \in Nat
  BY AfterCalls DEF StartNormal, EmptyProgram, FormInv, ProgramRead
<1>2. ASSUME Working' PROVE CopySays(form', Copy(0), cur', call')
  <2>1. 0 < Len(program.list)
    BY <1>1, <1>2 DEF Working
  <2> QED BY <1>1, <2>1, CopyBegins
<1>3. Copy(Len(normal.list))' = Copy(0)
  BY <1>1 DEF Copy
<1> QED BY <1>1, <1>2, <1>3 DEF CopyMeans, DoneMeans

(* What is put into the normal form stands for the formula.                *)
LEMMA InsertNormalMeans ==
  ASSUME FormInv, CopyMeans, DoneMeans, InsertNormal
  PROVE  CopyMeans' /\ DoneMeans'
<1> DEFINE k == Len(normal.list)
           e == [program.list[k + 1] EXCEPT !.f = cur]
<1>1. /\ Working /\ call = "distribution"
      /\ normal' = insert(normal, e) /\ cur' = Copy(Len(normal'.list))
      /\ call' = "removeBiconditionals" /\ UNCHANGED <<phase, program, form>>
  BY AfterCalls DEF InsertNormal
<1>2. /\ "list" \in DOMAIN normal /\ normal.list \in Seq(Entries) /\ k \in Nat
      /\ program.list \in Seq(Written) /\ Len(program.list) \in Nat
      /\ k < Len(program.list)
  BY <1>1 DEF FormInv, ProgramRead, NormalMade, Working
<1>3. cur \in Records /\ CopySays(form, Copy(k), cur, call)
  BY <1>1, CallBegins
<1>4. e \in Entries /\ e.f = cur
  <2>1. program.list[k + 1] \in Entries
    BY <1>2 DEF Written
  <2> QED BY <1>3, <2>1 DEF Entries
<1> HIDE DEF e
<1>5. normal'.list = Append(normal.list, e)
  BY <1>1, <1>2, InsertAppends
<1>6. /\ Len(normal'.list) = k + 1 /\ DOMAIN normal'.list = 1 .. k + 1
      /\ \A i \in 1 .. k : normal'.list[i] = normal.list[i]
      /\ normal'.list[k + 1] = e
  BY <1>2, <1>4, <1>5
<1>7. CopyMeans'
  <2>1. ASSUME Working' PROVE CopySays(form, Copy(k + 1), Copy(k + 1), "removeBiconditionals")
    <3>1. k + 1 < Len(program.list)
      BY <1>1, <1>6, <2>1 DEF Working
    <3> QED BY <1>2, <3>1, CopyBegins
  <2>2. Copy(Len(normal.list))' = Copy(k + 1)
    BY <1>1, <1>6 DEF Copy
  <2> QED BY <1>1, <1>6, <2>1, <2>2 DEF CopyMeans
<1>8. DoneMeans'
  <2> SUFFICES ASSUME form = "CNF", NEW i \in 1 .. k + 1
               PROVE  MeansSame(program.list[i].f, normal'.list[i].f)
    BY <1>1, <1>6 DEF DoneMeans
  <2>1. CASE i = k + 1
    <3>1. Copy(k) = program.list[k + 1].f
      BY <1>2 DEF Copy
    <3>2. MeansSame(Copy(k), cur)
      BY <1>3 DEF CopySays
    <3> QED BY <1>4, <1>6, <2>1, <3>1, <3>2
  <2>2. CASE i \in 1 .. k
    <3>1. i \in DOMAIN normal.list /\ normal'.list[i] = normal.list[i]
      BY <1>2, <1>6, <2>2
    <3> QED BY <3>1 DEF DoneMeans
  <2> QED BY <1>2, <2>1, <2>2
<1> QED BY <1>7, <1>8

(* What the copy and the entries mean is kept by every step.               *)
LEMMA StepsMean ==
  ASSUME FormInv, CopyMeans, DoneMeans, Read \/ FormStep
  PROVE  CopyMeans' /\ DoneMeans'
<1>1. CASE Read
  <2>1. /\ phase \notin {"normal", "clauses", "aborted"}
        /\ phase' \notin {"normal", "clauses", "aborted"} /\ normal' = normal
    BY <1>1 DEF Read, making
  <2>2. normal.list = <<>> /\ ~ Working'
    BY <2>1 DEF FormInv, NormalMade, Working
  <2> QED BY <2>1, <2>2 DEF CopyMeans, DoneMeans
<1>2. CASE \E nf \in {"CNF", "DNF"} : StartNormal(nf)
  BY <1>2, StartNormalMeans
<1>3. CASE InsertNormal
  BY <1>3, InsertNormalMeans
<1>4. CASE \/ RemoveBiconditionals \/ RemoveConditionals \/ Demorgans
           \/ RenameVariables \/ Skolemize \/ RemoveUniversals \/ Distribute
  <2>1. CopyMeans'
    BY <1>4, CallsMean, RenameVariablesMeans, SkolemizeMeans, RemoveUniversalsMeans,
       DistributeMeans
  <2>2. UNCHANGED <<program, form, normal>>
    BY <1>4 DEF RemoveBiconditionals, RemoveConditionals, Demorgans, RenameVariables,
                Skolemize, RemoveUniversals, Distribute, Rewrite, RewriteNaming
  <2> QED BY <2>1, <2>2 DEF DoneMeans
<1>5. CASE StartClauses \/ Clausify
  <2>1. /\ phase' \in {"clauses", "aborted"} /\ UNCHANGED <<program, form, normal>>
    BY <1>5 DEF StartClauses, Clausify, making
  <2> QED BY <2>1 DEF CopyMeans, DoneMeans, Working
<1> QED BY <1>1, <1>2, <1>3, <1>4, <1>5 DEF FormStep
-----------------------------------------------------------------------------
(***************************************************************************)
(* What the clauses say, and the theorems about meaning.                   *)
(***************************************************************************)

(* A record says what all its conjuncts say.                               *)
LEMMA AndsSay ==
  ASSUME NEW I, NEW e, NEW f0 \in Records
  PROVE  Sat(I, e, f0) <=> \A k \in DOMAIN removeAnds[f0] : Sat(I, e, removeAnds[f0][k])
<1> DEFINE All(s) == \A k \in DOMAIN s : Sat(I, e, s[k])
           T == {f \in Records : Sat(I, e, f) <=> All(removeAnds[f])}
<1>1. ASSUME NEW f \in Records, \A i \in DOMAIN f.kids : f.kids[i] \in T
      PROVE  f \in T
  <2>1. CASE f.type # "And"
    <3>1. removeAnds[f] = <<f>>
      BY <2>1, AndsDef DEF AndsBody
    <3>2. All(<<f>>) <=> Sat(I, e, f)
      OBVIOUS
    <3> HIDE DEF All
    <3> QED BY <3>1, <3>2
  <2>2. CASE f.type = "And"
    <3> DEFINE a == f.kids[1]
               b == f.kids[2]
    <3>1. /\ removeAnds[f] = removeAnds[a] \o removeAnds[b]
          /\ 1 \in DOMAIN f.kids /\ 2 \in DOMAIN f.kids
      BY <2>2, AndsDef, Operands DEF AndsBody, Binary
    <3>2. a \in Records /\ b \in Records /\ a \in T /\ b \in T
      BY <1>1, <3>1, Kids
    <3>3. Sat(I, e, f) <=> Sat(I, e, a) /\ Sat(I, e, b)
      BY <2>2, SatCases
    <3> HIDE DEF a, b
    <3>4. /\ Sat(I, e, a) <=> All(removeAnds[a])
          /\ Sat(I, e, b) <=> All(removeAnds[b])
      BY <3>2
    <3> DEFINE s == removeAnds[a]
               t == removeAnds[b]
    <3>5. s \in Seq(Records) /\ t \in Seq(Records)
      BY <3>2, AndsAreParts
    <3> HIDE DEF s, t
    <3>6. All(s \o t) <=> All(s) /\ All(t)
      <4>1. ASSUME All(s), All(t), NEW i \in DOMAIN (s \o t)
            PROVE  Sat(I, e, (s \o t)[i])
        <5>1. \/ i \in DOMAIN s /\ (s \o t)[i] = s[i]
              \/ i - Len(s) \in DOMAIN t /\ (s \o t)[i] = t[i - Len(s)]
          BY <3>5
        <5> QED BY <4>1, <5>1
      <4>2. ASSUME All(s \o t), NEW i \in DOMAIN s PROVE Sat(I, e, s[i])
        <5>1. i \in DOMAIN (s \o t) /\ (s \o t)[i] = s[i]
          BY <3>5
        <5> QED BY <4>2, <5>1
      <4>3. ASSUME All(s \o t), NEW i \in DOMAIN t PROVE Sat(I, e, t[i])
        <5>1. i + Len(s) \in DOMAIN (s \o t) /\ (s \o t)[i + Len(s)] = t[i]
          BY <3>5
        <5> QED BY <4>3, <5>1
      <4> QED BY <4>1, <4>2, <4>3
    <3>7. removeAnds[f] = s \o t
      BY <3>1 DEF s, t
    <3> HIDE DEF All
    <3> QED BY <3>3, <3>4, <3>6, <3>7 DEF s, t
  <2> QED BY <2>1, <2>2
<1> HIDE DEF T
<1>2. Records \subseteq T
  BY <1>1, RecordInduction
<1> QED BY <1>2 DEF T

(* And what one of its disjuncts says.                                     *)
LEMMA OrsSay ==
  ASSUME NEW I, NEW e, NEW f0 \in Records
  PROVE  Sat(I, e, f0) <=> \E k \in DOMAIN removeOrs[f0] : Sat(I, e, removeOrs[f0][k])
<1> DEFINE One(s) == \E k \in DOMAIN s : Sat(I, e, s[k])
           T == {f \in Records : Sat(I, e, f) <=> One(removeOrs[f])}
<1>1. ASSUME NEW f \in Records, \A i \in DOMAIN f.kids : f.kids[i] \in T
      PROVE  f \in T
  <2>1. CASE f.type # "Or"
    <3>1. removeOrs[f] = <<f>>
      BY <2>1, OrsDef DEF OrsBody
    <3>2. One(<<f>>) <=> Sat(I, e, f)
      OBVIOUS
    <3> HIDE DEF One
    <3> QED BY <3>1, <3>2
  <2>2. CASE f.type = "Or"
    <3> DEFINE a == f.kids[1]
               b == f.kids[2]
    <3>1. /\ removeOrs[f] = removeOrs[a] \o removeOrs[b]
          /\ 1 \in DOMAIN f.kids /\ 2 \in DOMAIN f.kids
      BY <2>2, OrsDef, Operands DEF OrsBody, Binary
    <3>2. a \in Records /\ b \in Records /\ a \in T /\ b \in T
      BY <1>1, <3>1, Kids
    <3>3. Sat(I, e, f) <=> Sat(I, e, a) \/ Sat(I, e, b)
      BY <2>2, SatCases
    <3> HIDE DEF a, b
    <3>4. /\ Sat(I, e, a) <=> One(removeOrs[a])
          /\ Sat(I, e, b) <=> One(removeOrs[b])
      BY <3>2
    <3> DEFINE s == removeOrs[a]
               t == removeOrs[b]
    <3>5. s \in Seq(Records) /\ t \in Seq(Records)
      BY <3>2, OrsAreParts
    <3> HIDE DEF s, t
    <3>6. One(s \o t) <=> One(s) \/ One(t)
      <4>1. ASSUME NEW i \in DOMAIN (s \o t), Sat(I, e, (s \o t)[i])
            PROVE  One(s) \/ One(t)
        <5>1. \/ i \in DOMAIN s /\ (s \o t)[i] = s[i]
              \/ i - Len(s) \in DOMAIN t /\ (s \o t)[i] = t[i - Len(s)]
          BY <3>5
        <5> QED BY <4>1, <5>1
      <4>2. ASSUME NEW i \in DOMAIN s, Sat(I, e, s[i]) PROVE One(s \o t)
        <5>1. i \in DOMAIN (s \o t) /\ (s \o t)[i] = s[i]
          BY <3>5
        <5> QED BY <4>2, <5>1
      <4>3. ASSUME NEW i \in DOMAIN t, Sat(I, e, t[i]) PROVE One(s \o t)
        <5>1. i + Len(s) \in DOMAIN (s \o t) /\ (s \o t)[i + Len(s)] = t[i]
          BY <3>5
        <5> QED BY <4>3, <5>1
      <4> QED BY <4>1, <4>2, <4>3
    <3>7. removeOrs[f] = s \o t
      BY <3>1 DEF s, t
    <3> HIDE DEF One
    <3> QED BY <3>3, <3>4, <3>6, <3>7 DEF s, t
  <2> QED BY <2>1, <2>2
<1> HIDE DEF T
<1>2. Records \subseteq T
  BY <1>1, RecordInduction
<1> QED BY <1>2 DEF T

(* A conjunct is no conjunction; and no disjunct of what has no            *)
(* conjunction below a disjunction is one.                                 *)
LEMMA NoAndLeft ==
  ASSUME NEW f0 \in Records
  PROVE  \A k \in DOMAIN removeAnds[f0] : removeAnds[f0][k].type # "And"
<1> DEFINE None(s) == \A k \in DOMAIN s : s[k].type # "And"
           T == {f \in Records : None(removeAnds[f])}
<1>1. ASSUME NEW f \in Records, \A i \in DOMAIN f.kids : f.kids[i] \in T
      PROVE  f \in T
  <2>1. CASE f.type # "And"
    <3>1. removeAnds[f] = <<f>>
      BY <2>1, AndsDef DEF AndsBody
    <3>2. None(<<f>>)
      BY <2>1
    <3> HIDE DEF None
    <3> QED BY <3>1, <3>2
  <2>2. CASE f.type = "And"
    <3> DEFINE s == removeAnds[f.kids[1]]
               t == removeAnds[f.kids[2]]
    <3>1. removeAnds[f] = s \o t /\ 1 \in DOMAIN f.kids /\ 2 \in DOMAIN f.kids
      BY <2>2, AndsDef, Operands DEF AndsBody, Binary
    <3>2. None(s) /\ None(t)
      BY <1>1, <3>1
    <3>3. s \in Seq(Records) /\ t \in Seq(Records)
      BY <3>1, Kids, AndsAreParts
    <3> HIDE DEF s, t
    <3>4. None(s \o t)
      <4> SUFFICES ASSUME NEW i \in DOMAIN (s \o t) PROVE (s \o t)[i].type # "And"
        OBVIOUS
      <4>1. \/ i \in DOMAIN s /\ (s \o t)[i] = s[i]
            \/ i - Len(s) \in DOMAIN t /\ (s \o t)[i] = t[i - Len(s)]
        BY <3>3
      <4> QED BY <3>2, <4>1
    <3> HIDE DEF None
    <3> QED BY <3>1, <3>4
  <2> QED BY <2>1, <2>2
<1> HIDE DEF T
<1>2. Records \subseteq T
  BY <1>1, RecordInduction
<1> QED BY <1>2 DEF T

OrsApart(f) ==
  \A p \in Parts[f] : p.type = "Or" => \A k \in DOMAIN p.kids : p.kids[k].type # "And"

(* No disjunct is a conjunction.                                           *)
LEMMA NoAndInOr ==
  ASSUME NEW f0 \in Records, OrsApart(f0), f0.type # "And"
  PROVE  \A k \in DOMAIN removeOrs[f0] : removeOrs[f0][k].type # "And"
<1> DEFINE None(s) == \A k \in DOMAIN s : s[k].type # "And"
           T == {f \in Records : OrsApart(f) /\ f.type # "And" => None(removeOrs[f])}
<1>1. ASSUME NEW f \in Records, \A i \in DOMAIN f.kids : f.kids[i] \in T
      PROVE  f \in T
  <2> SUFFICES ASSUME OrsApart(f), f.type # "And" PROVE None(removeOrs[f])
    OBVIOUS
  <2>1. CASE f.type # "Or"
    <3>1. removeOrs[f] = <<f>>
      BY <2>1, OrsDef DEF OrsBody
    <3>2. None(<<f>>)
      OBVIOUS
    <3> HIDE DEF None
    <3> QED BY <3>1, <3>2
  <2>2. CASE f.type = "Or"
    <3> DEFINE s == removeOrs[f.kids[1]]
               t == removeOrs[f.kids[2]]
    <3>1. removeOrs[f] = s \o t /\ 1 \in DOMAIN f.kids /\ 2 \in DOMAIN f.kids
      BY <2>2, OrsDef, Operands DEF OrsBody, Binary
    <3>2. \A i \in DOMAIN f.kids : f.kids[i].type # "And" /\ OrsApart(f.kids[i])
      <4>1. f \in Parts[f] /\ \A i \in DOMAIN f.kids : Parts[f.kids[i]] \subseteq Parts[f]
        BY PartsDef
      <4> QED BY <2>2, <4>1 DEF OrsApart
    <3>3. None(s) /\ None(t)
      BY <1>1, <3>1, <3>2
    <3>4. s \in Seq(Records) /\ t \in Seq(Records)
      BY <3>1, Kids, OrsAreParts
    <3> HIDE DEF s, t
    <3>5. None(s \o t)
      <4> SUFFICES ASSUME NEW i \in DOMAIN (s \o t) PROVE (s \o t)[i].type # "And"
        OBVIOUS
      <4>1. \/ i \in DOMAIN s /\ (s \o t)[i] = s[i]
            \/ i - Len(s) \in DOMAIN t /\ (s \o t)[i] = t[i - Len(s)]
        BY <3>4
      <4> QED BY <3>3, <4>1
    <3> HIDE DEF None
    <3> QED BY <3>1, <3>5
  <2> QED BY <2>1, <2>2
<1> HIDE DEF T
<1>2. Records \subseteq T
  BY <1>1, RecordInduction
<1> QED BY <1>2 DEF T

(* What is in conjunctive form meets none of the types asserted away.      *)
LEMMA NeverRefused ==
  ASSUME NEW f \in Records, IsNormal(f), form = "CNF"
  PROVE  ~ Refused(f)
<1> DEFINE cs == removeAnds[f]
<1>1. \A p \in Parts[f] : p.type \notin Quantifiers \cup {"Conditional", "Biconditional"}
  BY DEF IsNormal
<1>2. OrsApart(f)
  BY DEF IsNormal, OrsApart, Inner, Outer
<1>3. ASSUME NEW i \in DOMAIN cs
      PROVE  /\ cs[i].type \notin NeverConjunct
             /\ \A j \in DOMAIN removeOrs[cs[i]] : removeOrs[cs[i]][j].type \notin NeverDisjunct
  <2>1. cs \in Seq(Records) /\ Parts[cs[i]] \subseteq Parts[f]
    BY AndsAreParts
  <2>2. cs[i] \in Records
    BY <2>1
  <2>3. cs[i].type # "And" /\ OrsApart(cs[i])
    BY <1>2, <2>1, NoAndLeft DEF OrsApart
  <2> DEFINE c == cs[i]
             ds == removeOrs[c]
  <2> HIDE DEF c
  <2>4. c \in Parts[c] /\ c.type \notin NeverConjunct
    BY <1>1, <2>1, <2>2, PartsAreRecords DEF NeverConjunct, c
  <2>5. ASSUME NEW j \in DOMAIN ds PROVE ds[j].type \notin NeverDisjunct
    <3>1. ds \in Seq(Records) /\ Parts[ds[j]] \subseteq Parts[c]
      BY <2>2, OrsAreParts DEF c
    <3>2. ds[j] \in Records /\ ds[j] \in Parts[ds[j]]
      BY <3>1, PartsAreRecords
    <3>3. ds[j] \in Parts[f]
      BY <2>1, <3>1, <3>2 DEF c
    <3>4. ds[j].type # "And"
      BY <2>2, <2>3, NoAndInOr DEF c
    <3> QED BY <1>1, <3>3, <3>4 DEF NeverDisjunct, NeverConjunct
  <2> QED BY <2>4, <2>5 DEF c
<1> QED BY <1>3 DEF Refused

-----------------------------------------------------------------------------
(* renameAgain: the table gives two variables two names.                   *)
Has(pairs, x) == \E i \in DOMAIN pairs : pairs[i][1] = x

OneToOne(pairs) == \A i, j \in DOMAIN pairs : i # j => pairs[i][2] # pairs[j][2]

Later(s, t) == \A x : Has(s, x) => Has(t, x) /\ Find(t, x, x) = Find(s, x, x)

Knows(f, t) == \A x \in FreeVariables[f] : Has(t, x)

Again(I, f, data, r) ==
  /\ OneToOne(r.data.names) /\ Later(data.names, r.data.names)
  /\ Knows(f, r.data.names)
  /\ RenamedSays(I, f, r.data.names, r.f)

(* A table of names is a list of pairs of names.                           *)
LEMMA TablesAreLists ==
  ASSUME NEW lo, NEW data \in Tables(lo)
  PROVE  /\ data \in NamesData /\ data.counter \in Nat
         /\ data.names \in Seq(AnyName \X AnyName) /\ IsList(data.names)
         /\ \A i \in DOMAIN data.names :
              data.names[i][1] \in AnyName /\ data.names[i][2] \in AnyName
  BY DEF Tables, NamesData, IsList

(* Two keys have two values.                                               *)
LEMMA FoundApart ==
  ASSUME NEW pairs, IsList(pairs), OneToOne(pairs),
         NEW x, NEW y, Has(pairs, x), Has(pairs, y), x # y
  PROVE  Find(pairs, x, x) # Find(pairs, y, y)
<1>1. PICK i \in DOMAIN pairs : IsFirst(pairs, x, i)
  BY FirstOf DEF Has
<1>2. PICK j \in DOMAIN pairs : IsFirst(pairs, y, j)
  BY FirstOf DEF Has
<1>3. Find(pairs, x, x) = pairs[i][2] /\ Find(pairs, y, y) = pairs[j][2]
  BY <1>1, <1>2, FindFirst
<1>4. i # j
  BY <1>1, <1>2 DEF IsFirst
<1> QED BY <1>3, <1>4 DEF OneToOne

(* A table extends itself.                                                 *)
LEMMA LaterItself == \A s : Later(s, s)
  BY DEF Later

(* Extending a table is transitive.                                        *)
LEMMA LaterStill ==
  ASSUME NEW r, NEW s, NEW t, Later(r, s), Later(s, t)
  PROVE  Later(r, t)
  BY DEF Later

(* What is renamed by a table is renamed by a later one.                   *)
LEMMA RenamedLater ==
  ASSUME NEW I, NEW f, NEW g, NEW s, NEW t,
         Later(s, t), Knows(f, s), RenamedSays(I, f, s, g)
  PROVE  Knows(f, t) /\ RenamedSays(I, f, t, g)
<1>1. \A x \in FreeVariables[f] : Has(t, x) /\ Find(t, x, x) = Find(s, x, x)
  BY DEF Later, Knows
<1>2. {Find(s, x, x) : x \in FreeVariables[f]} = {Find(t, x, x) : x \in FreeVariables[f]}
  BY <1>1
<1>3. \A e, d : Carried(e, d, FreeVariables[f], t) => Carried(e, d, FreeVariables[f], s)
  BY <1>1 DEF Carried
<1> QED BY <1>1, <1>2, <1>3 DEF Knows, RenamedSays

(* A thread of tables.                                                     *)
LEMMA LaterAlong ==
  ASSUME NEW L \in Nat, NEW d,
         \A i \in 1 .. L : Later(d[i - 1].names, d[i].names)
  PROVE  \A i \in 0 .. L : Later(d[i].names, d[L].names)
<1> DEFINE T == {m \in Nat : m <= L => Later(d[L - m].names, d[L].names)}
<1>1. 0 \in T
  BY LaterItself
<1>2. ASSUME NEW m \in T PROVE m + 1 \in T
  <2> SUFFICES ASSUME m + 1 <= L PROVE Later(d[L - (m + 1)].names, d[L].names)
    OBVIOUS
  <2>1. m \in Nat /\ L - m \in 1 .. L /\ (L - m) - 1 = L - (m + 1) /\ m <= L
    OBVIOUS
  <2>2. Later(d[L - m].names, d[L].names)
    BY <2>1
  <2>3. Later(d[L - (m + 1)].names, d[L - m].names)
    BY <2>1
  <2> QED BY <2>2, <2>3, LaterStill
<1>3. T \in SUBSET Nat
  OBVIOUS
<1> HIDE DEF T
<1>4. T = Nat
  BY <1>1, <1>2, <1>3, NumberInduction
<1>5. ASSUME NEW i \in 0 .. L PROVE Later(d[i].names, d[L].names)
  <2>1. L - i \in Nat /\ L - i <= L /\ L - (L - i) = i
    OBVIOUS
  <2>2. L - i \in T
    BY <1>4, <2>1
  <2> QED BY <2>1, <2>2 DEF T
<1> QED BY <1>5

(* One more pair, with a key and a value that are new.                     *)
LEMMA LaterAppend ==
  ASSUME NEW pairs \in Seq(AnyName \X AnyName), NEW k \in AnyName, NEW v \in AnyName,
         ~ Has(pairs, k), OneToOne(pairs), \A i \in DOMAIN pairs : pairs[i][2] # v
  PROVE  /\ Later(pairs, Append(pairs, <<k, v>>))
         /\ OneToOne(Append(pairs, <<k, v>>))
         /\ Has(Append(pairs, <<k, v>>), k)
         /\ Find(Append(pairs, <<k, v>>), k, k) = v
<1> DEFINE S == AnyName \X AnyName
           pair == <<k, v>>
           t == Append(pairs, pair)
           L == Len(pairs)
<1>1. pair \in S /\ pair[1] = k /\ pair[2] = v
  OBVIOUS
<1>2. /\ L \in Nat /\ DOMAIN pairs = 1 .. L /\ DOMAIN t = 1 .. L + 1
      /\ t[L + 1] = pair /\ \A i \in 1 .. L : t[i] = pairs[i]
  BY <1>1
<1>3. \A x : Find(t, x, x) = IF Has(pairs, x) THEN Find(pairs, x, x)
                             ELSE IF x = k THEN v ELSE x
  BY FindAfter DEF Has
<1> HIDE DEF t, pair, L
<1>4. \A i \in 1 .. L + 1 : i \in 1 .. L \/ i = L + 1
  BY <1>2
<1>5. \A x : Has(pairs, x) => Has(t, x)
  <2> SUFFICES ASSUME NEW x, Has(pairs, x) PROVE Has(t, x)
    OBVIOUS
  <2>1. PICK i \in DOMAIN pairs : pairs[i][1] = x
    BY DEF Has
  <2>2. i \in DOMAIN t /\ t[i][1] = x
    BY <1>2, <2>1
  <2> QED BY <2>2 DEF Has
<1>6. Later(pairs, t)
  BY <1>3, <1>5 DEF Later
<1>7. OneToOne(t)
  <2> SUFFICES ASSUME NEW i \in DOMAIN t, NEW j \in DOMAIN t, i # j
               PROVE  t[i][2] # t[j][2]
    BY DEF OneToOne
  <2>1. \A m \in 1 .. L : t[m][2] = pairs[m][2] /\ pairs[m][2] # v
    BY <1>2
  <2>2. t[L + 1][2] = v
    BY <1>1, <1>2
  <2> QED BY <1>2, <1>4, <2>1, <2>2 DEF OneToOne
<1>8. Has(t, k)
  <2>1. L + 1 \in DOMAIN t /\ t[L + 1][1] = k
    BY <1>1, <1>2
  <2> QED BY <2>1 DEF Has
<1>9. Find(t, k, k) = v
  BY <1>3
<1> QED BY <1>6, <1>7, <1>8, <1>9 DEF t, pair

(* A variable.                                                             *)
LEMMA AgainVariable ==
  ASSUME NEW I, NEW lo \in Nat, NEW f \in Records, f.type = "Variable",
         NEW data \in Tables(lo), OneToOne(data.names)
  PROVE  Again(I, f, data, renameAll[f][data][<<>>])
<1> DEFINE r == renameAll[f][data][<<>>]
           new == uniqueName("rvar", data.counter)
<1>0. /\ data \in NamesData /\ data.counter \in Nat
      /\ data.names \in Seq(AnyName \X AnyName) /\ IsList(data.names)
      /\ \A i \in DOMAIN data.names : data.names[i][2][2] \in lo + 1 .. data.counter
  BY TablesAreLists DEF Tables
<1>1. r = RenameAllBody(renameAll, f)[data][<<>>]
  BY RenameAllDef
<1>2. RenamedAgain(f, data, r, lo)
  BY <1>1, RenameVariable
<1>3. FreeVariables[f] = {f.name} /\ f.name \in AnyName
  BY FreeCases, Kids
<1>4. r.f \in Records /\ r.f.type = f.type
  BY <1>2 DEF RenamedAgain
<1>5. \A name : [f EXCEPT !.name = name].name = name
  <2>1. f = Semantic(f.type, f.name, f.kids)
    BY Kids
  <2> QED BY <2>1 DEF Semantic
<1>6. CASE Has(data.names, f.name)
  <2>1. r = [f |-> [f EXCEPT !.name = Find(data.names, f.name, f.name)], data |-> data]
    BY <1>0, <1>1, <1>6 DEF RenameAllBody, Has
  <2> DEFINE h == [f EXCEPT !.name = Find(data.names, f.name, f.name)]
  <2> HIDE DEF r
  <2>2. r.data = data /\ r.f.name = Find(data.names, f.name, f.name)
    <3>1. h.name = Find(data.names, f.name, f.name)
      BY <1>5
    <3>2. r = [f |-> h, data |-> data]
      BY <2>1
    <3> HIDE DEF h
    <3> QED BY <3>1, <3>2
  <2>3. RenamedSays(I, f, r.data.names, r.f)
    BY <1>4, <2>2, RenamedVariable
  <2> QED BY <1>3, <1>6, <2>2, <2>3, LaterItself DEF Again, Knows, r
<1>7. CASE ~ Has(data.names, f.name)
  <2> DEFINE names == Append(data.names, <<f.name, new>>)
  <2>1. r = [f |-> [f EXCEPT !.name = new],
             data |-> [counter |-> data.counter + 1, names |-> names]]
    BY <1>0, <1>1, <1>7 DEF RenameAllBody, Has
  <2>2. new[2] = data.counter + 1
    BY DEF uniqueName
  <2>3. new \in AnyName
    <3>1. "rvar" \in UniquePrefixes
      BY DEF UniquePrefixes
    <3> QED BY <1>0, <3>1, UniqueIsName
  <2> DEFINE h == [f EXCEPT !.name = new]
  <2> HIDE DEF r, new, names
  <2>4. r.data.names = names /\ r.f.name = new
    <3>1. h.name = new
      BY <1>5
    <3>2. r = [f |-> h, data |-> [counter |-> data.counter + 1, names |-> names]]
      BY <2>1
    <3> HIDE DEF h
    <3> QED BY <3>1, <3>2
  <2>5. \A i \in DOMAIN data.names : data.names[i][2] # new
    <3> SUFFICES ASSUME NEW i \in DOMAIN data.names PROVE data.names[i][2] # new
      OBVIOUS
    <3>1. data.names[i][2][2] \in lo + 1 .. data.counter
      BY <1>0
    <3>2. data.names[i][2][2] # data.counter + 1
      BY <1>0, <3>1
    <3> QED BY <2>2, <3>2
  <2>6. /\ Later(data.names, names) /\ OneToOne(names)
        /\ Has(names, f.name) /\ Find(names, f.name, f.name) = new
    BY <1>0, <1>3, <1>7, <2>3, <2>5, LaterAppend DEF names
  <2>7. RenamedSays(I, f, r.data.names, r.f)
    BY <1>4, <2>4, <2>6, RenamedVariable
  <2> QED BY <1>3, <2>4, <2>6, <2>7 DEF Again, Knows, r
<1> QED BY <1>6, <1>7

NoBinder(f) == \A p \in Parts[f] : p.type \notin Quantifiers

(* What has kids.                                                          *)
LEMMA AgainKids ==
  ASSUME NEW I, NEW lo \in Nat, NEW f \in Records,
         f.type \notin Quantifiers \cup {"Variable"},
         NEW data \in Tables(lo), OneToOne(data.names),
         \A i \in DOMAIN f.kids : \A x \in Tables(lo) : OneToOne(x.names) =>
           Again(I, f.kids[i], x, renameAll[f.kids[i]][x][<<>>])
  PROVE  Again(I, f, data, renameAll[f][data][<<>>])
<1> DEFINE r == renameAll[f][data][<<>>]
           L == Len(f.kids)
<1>1. L \in Nat /\ DOMAIN f.kids = 1 .. L /\ f = Semantic(f.type, f.name, f.kids)
  BY Kids
<1>2. r = Traverse(renameAll, f, data, <<>>)
  <2>1. renameAll[f] = RenameAllBody(renameAll, f) /\ data \in NamesData
    BY RenameAllDef, TablesAreLists
  <2> QED BY <2>1 DEF RenameAllBody
<1>3. PICK d : Travels(r, d, renameAll, f, data, <<>>)
  BY <1>1, <1>2, TraverseTravels
<1>4. RenamedAgain(f, data, r, lo)
  BY AllRenamed
<1> HIDE DEF r, L
<1>5. ASSUME NEW i \in 1 .. L
      PROVE  /\ d[i] = renameAll[f.kids[i]][d[i - 1]][<<>>].data
             /\ r.f.kids[i] = renameAll[f.kids[i]][d[i - 1]][<<>>].f
  BY <1>3, Zenon DEF Travels, Threads, L
<1>6. \A i \in 0 .. L : d[i] \in Tables(lo) /\ OneToOne(d[i].names)
  <2> DEFINE D == {x \in Tables(lo) : OneToOne(x.names)}
  <2>1. data \in D
    OBVIOUS
  <2>2. \A i \in 1 .. L : \A x \in D : renameAll[f.kids[i]][x][<<>>].data \in D
    <3> SUFFICES ASSUME NEW i \in 1 .. L, NEW x \in D
                 PROVE  renameAll[f.kids[i]][x][<<>>].data \in D
      OBVIOUS
    <3>1. f.kids[i] \in Records /\ i \in DOMAIN f.kids
      BY <1>1, Kids
    <3>2. RenamedAgain(f.kids[i], x, renameAll[f.kids[i]][x][<<>>], lo)
      BY <3>1, AllRenamed
    <3>3. Again(I, f.kids[i], x, renameAll[f.kids[i]][x][<<>>])
      BY <3>1
    <3> QED BY <3>2, <3>3, Zenon DEF RenamedAgain, Again
  <2> HIDE DEF D
  <2>3. \A i \in 0 .. L : d[i] \in D
    BY <1>1, <1>3, <2>1, <2>2, ThreadWithin, Zenon DEF Travels, L
  <2> QED BY <2>3 DEF D
<1>7. ASSUME NEW i \in 1 .. L
      PROVE  /\ Later(d[i - 1].names, d[i].names) /\ Knows(f.kids[i], d[i].names)
             /\ RenamedSays(I, f.kids[i], d[i].names, r.f.kids[i])
  <2>1. i - 1 \in 0 .. L /\ i \in DOMAIN f.kids
    BY <1>1
  <2>2. Again(I, f.kids[i], d[i - 1], renameAll[f.kids[i]][d[i - 1]][<<>>])
    BY <1>6, <2>1
  <2> QED BY <1>5, <2>2, Zenon DEF Again
<1>8. \A i \in 0 .. L : Later(d[i].names, d[L].names)
  BY <1>1, <1>7, LaterAlong
<1>9. /\ r.data = d[L] /\ r.f.type = f.type /\ r.f.name = f.name
      /\ DOMAIN r.f.kids = 1 .. L /\ d[0] = data
  BY <1>3 DEF Travels, Threads, L
<1>10. Later(data.names, r.data.names) /\ OneToOne(r.data.names)
  BY <1>1, <1>6, <1>8, <1>9
<1>11. ASSUME NEW i \in 1 .. L
       PROVE  /\ Knows(f.kids[i], r.data.names)
              /\ RenamedSays(I, f.kids[i], r.data.names, r.f.kids[i])
  <2>1. Later(d[i].names, d[L].names)
    BY <1>8
  <2> QED BY <1>7, <1>9, <2>1, RenamedLater
<1>12. Knows(f, r.data.names)
  <2>1. FreeVariables[f] = UNION {FreeVariables[f.kids[i]] : i \in DOMAIN f.kids}
    BY FreeCases
  <2> QED BY <1>1, <1>11, <2>1 DEF Knows
<1>13. r.f \in Records
  BY <1>4 DEF RenamedAgain
<1> DEFINE g == r.f
           rs == r.data.names
<1> HIDE DEF g, rs
<1>14. /\ g \in Records /\ g.type = f.type /\ g.name = f.name
       /\ DOMAIN g.kids = DOMAIN f.kids
       /\ \A i \in DOMAIN f.kids : RenamedSays(I, f.kids[i], rs, g.kids[i])
  BY <1>1, <1>9, <1>11, <1>13 DEF g, rs
<1>15. RenamedSays(I, f, rs, g)
  BY <1>14, RenamedOther
<1> QED BY <1>10, <1>12, <1>15 DEF Again, g, rs, r

(* renameAll says, of the renamed variables, what the record said.         *)
LEMMA AgainSays ==
  ASSUME NEW I, NEW lo \in Nat, NEW f0 \in Records, NoBinder(f0)
  PROVE  \A x \in Tables(lo) : OneToOne(x.names) =>
           Again(I, f0, x, renameAll[f0][x][<<>>])
<1> DEFINE T == {f \in Records : NoBinder(f) =>
                   \A x \in Tables(lo) : OneToOne(x.names) =>
                     Again(I, f, x, renameAll[f][x][<<>>])}
<1>1. ASSUME NEW f \in Records, \A i \in DOMAIN f.kids : f.kids[i] \in T
      PROVE  f \in T
  <2> SUFFICES ASSUME NoBinder(f), NEW x \in Tables(lo), OneToOne(x.names)
               PROVE  Again(I, f, x, renameAll[f][x][<<>>])
    OBVIOUS
  <2>1. f \in Parts[f] /\ \A i \in DOMAIN f.kids : Parts[f.kids[i]] \subseteq Parts[f]
    BY PartsDef
  <2>2. f.type \notin Quantifiers /\ \A i \in DOMAIN f.kids : NoBinder(f.kids[i])
    BY <2>1 DEF NoBinder
  <2>3. \A i \in DOMAIN f.kids : \A y \in Tables(lo) : OneToOne(y.names) =>
          Again(I, f.kids[i], y, renameAll[f.kids[i]][y][<<>>])
    BY <1>1, <2>2
  <2> HIDE DEF T
  <2>4. CASE f.type = "Variable"
    BY <2>4, AgainVariable
  <2>5. CASE f.type # "Variable"
    BY <2>2, <2>3, <2>5, AgainKids
  <2> QED BY <2>4, <2>5
<1> HIDE DEF T
<1>2. Records \subseteq T
  BY <1>1, RecordInduction
<1> QED BY <1>2 DEF T

(* Values of the new variables that are those of the old ones.             *)
LEMMA Carries ==
  ASSUME NEW f \in Records, NEW rs \in Seq(AnyName \X AnyName), OneToOne(rs), Knows(f, rs)
  PROVE  /\ \A d \in Envs : \E e \in Envs : Carried(e, d, FreeVariables[f], rs)
         /\ \A e \in Envs : \E d \in Envs : Carried(e, d, FreeVariables[f], rs)
<1> DEFINE V == FreeVariables[f]
           To(x) == Find(rs, x, x)
<1>1. /\ IsList(rs) /\ DOMAIN rs = 1 .. Len(rs) /\ Len(rs) \in Nat
      /\ \A i \in DOMAIN rs : rs[i][2] \in AnyName
  BY DEF IsList
<1>2. V \subseteq AnyName
  BY FreeAreNames
<1>3. \A x \in V : Has(rs, x)
  BY DEF Knows
<1>4. ASSUME NEW x \in V PROVE To(x) \in AnyName
  <2>1. PICK i \in DOMAIN rs : IsFirst(rs, x, i)
    BY <1>1, <1>3, FirstOf DEF Has
  <2>2. Find(rs, x, x) = rs[i][2]
    BY <1>1, <2>1, FindFirst
  <2> QED BY <1>1, <2>2
<1>5. ASSUME NEW x \in V, NEW y \in V, To(x) = To(y) PROVE x = y
  BY <1>1, <1>3, <1>5, FoundApart
<1>6. \A e, d : Carried(e, d, V, rs) <=> \A x \in V : e[x] = d[To(x)]
  BY DEF Carried
<1> HIDE DEF V, To
<1>7. ASSUME NEW d \in Envs PROVE \E e \in Envs : Carried(e, d, V, rs)
  <2> DEFINE e == [x \in AnyName |-> IF x \in V THEN d[To(x)] ELSE d[x]]
  <2>1. e \in Envs /\ \A x \in V : e[x] = d[To(x)]
    BY <1>2, <1>4 DEF Envs
  <2> HIDE DEF e
  <2> QED BY <1>6, <2>1
<1>8. ASSUME NEW e \in Envs PROVE \E d \in Envs : Carried(e, d, V, rs)
  <2> DEFINE From(y) == CHOOSE x \in V : To(x) = y
             d == [y \in AnyName |-> IF \E x \in V : To(x) = y THEN e[From(y)] ELSE e[y]]
  <2>1. ASSUME NEW x \in V PROVE From(To(x)) = x
    <3>1. From(To(x)) \in V /\ To(From(To(x))) = To(x)
      OBVIOUS
    <3> HIDE DEF From
    <3> QED BY <1>5, <3>1
  <2>2. ASSUME NEW y \in AnyName, \E x \in V : To(x) = y PROVE From(y) \in V
    BY <2>2
  <2> HIDE DEF From
  <2>3. d \in Envs
    BY <1>2, <2>2 DEF Envs
  <2>4. ASSUME NEW x \in V PROVE e[x] = d[To(x)]
    BY <1>4, <2>1
  <2> HIDE DEF d
  <2> QED BY <1>6, <2>3, <2>4
<1> QED BY <1>7, <1>8 DEF V

(* renameAgain keeps what is true of all variables.                        *)
LEMMA RenameAgainSays ==
  ASSUME NEW I, NEW n \in Nat, NEW f \in Records, NoBinder(f)
  PROVE  /\ renameAgain(f, n).f \in Records
         /\ AllSat(I, f) <=> AllSat(I, renameAgain(f, n).f)
<1> DEFINE x == [counter |-> n, names |-> <<>>]
           r == renameAgain(f, n)
           rs == r.data.names
           V == FreeVariables[f]
<1>1. x \in Tables(n) /\ OneToOne(x.names)
  <2>1. x.counter = n /\ x.names = <<>> /\ x \in NamesData
    BY DEF NamesData
  <2> QED BY <2>1 DEF Tables, OneToOne
<1>2. r = renameAll[f][x][<<>>]
  BY DEF renameAgain
<1> HIDE DEF r, x
<1>3. RenamedAgain(f, x, r, n)
  BY <1>1, <1>2, AllRenamed
<1>4. /\ r.f \in Records /\ r.f.type = f.type
      /\ rs \in Seq(AnyName \X AnyName)
  BY <1>3, TablesAreLists DEF RenamedAgain
<1>5. Again(I, f, x, r)
  BY <1>1, <1>2, AgainSays
<1>6. OneToOne(rs) /\ Knows(f, rs) /\ RenamedSays(I, f, rs, r.f)
  BY <1>5 DEF Again
<1> DEFINE g == r.f
<1> HIDE DEF rs, V, g
<1>7. /\ \A d \in Envs : \E e \in Envs : Carried(e, d, V, rs)
      /\ \A e \in Envs : \E d \in Envs : Carried(e, d, V, rs)
  BY <1>4, <1>6, Carries DEF V
<1>8. CASE f.type \in TermTypes
  <2>1. g \in Records /\ g.type \in TermTypes
    BY <1>4, <1>8 DEF g
  <2>2. \A e : ~ Sat(I, e, f) /\ ~ Sat(I, e, g)
    BY <1>8, <2>1, TermsAreFalse
  <2> QED BY <1>4, <2>2, SomeEnv DEF AllSat, g, r
<1>9. CASE f.type \notin TermTypes
  <2>1. \A e, d \in Envs : Carried(e, d, V, rs) => (Sat(I, e, f) <=> Sat(I, d, g))
    BY <1>6, <1>9 DEF RenamedSays, Matches, V, g
  <2>2. AllSat(I, f) <=> AllSat(I, g)
    BY <1>7, <2>1 DEF AllSat
  <2> QED BY <1>4, <2>2 DEF g, r
<1> QED BY <1>8, <1>9
-----------------------------------------------------------------------------
(* What a clause says: one of its literals is true, whatever the variables *)
(* are.                                                                    *)
ClauseSat(c, I) == \A e \in Envs : \E k \in DOMAIN c : Sat(I, e, c[k])

(* ClauseTrue, which TLC evaluates, is truth of a disjunct in every        *)
(* environment.                                                            *)
LEMMA ClauseIsTrue ==
  ASSUME NEW I, NEW c \in Seq(Records)
  PROVE  ClauseTrue(c, I) <=> ClauseSat(c, I)
<1>1. \A k \in DOMAIN c : c[k] \in Records /\ FreeVariables[c[k]] \subseteq FreeIn(c)
  BY DEF FreeIn
<1>2. FreeIn(c) \in SUBSET AnyName
  BY <1>1, FreeAreNames DEF FreeIn
<1>3. ASSUME NEW free, NEW e, SameOn(FreeIn(c), free, e), NEW k \in DOMAIN c
      PROVE  Holds(c[k], I, free) <=> Sat(I, e, c[k])
  <2>1. SameOn(FreeVariables[c[k]], free, e)
    BY <1>1, <1>3 DEF SameOn
  <2>2. Sat(I, free, c[k]) <=> Sat(I, e, c[k])
    BY <1>1, <2>1, SatDepends, AgreeItself
  <2> QED BY <2>2 DEF Holds, Sat, Says
<1>4. ASSUME ClauseTrue(c, I), NEW e \in Envs
      PROVE  \E k \in DOMAIN c : Sat(I, e, c[k])
  <2>1. PICK free \in [FreeIn(c) -> Domain] : SameOn(FreeIn(c), free, e)
    BY <1>2, EnvOn
  <2>2. PICK k \in DOMAIN c : Holds(c[k], I, free)
    BY <1>4 DEF ClauseTrue
  <2> QED BY <1>3, <2>1, <2>2
<1>5. ASSUME ClauseSat(c, I), NEW free \in [FreeIn(c) -> Domain]
      PROVE  \E k \in DOMAIN c : Holds(c[k], I, free)
  <2>1. PICK e \in Envs : SameOn(FreeIn(c), free, e)
    BY <1>2, EnvFrom
  <2>2. PICK k \in DOMAIN c : Sat(I, e, c[k])
    BY <1>5 DEF ClauseSat
  <2> QED BY <1>3, <2>1, <2>2
<1> QED BY <1>4, <1>5 DEF ClauseTrue, ClauseSat

(* The clause of a conjunct says what the conjunct says.                   *)
LEMMA ConjunctSays ==
  ASSUME NEW I, NEW n \in Nat, NEW f \in Records, NoBinder(f)
  PROVE  AllSat(I, f) <=> ClauseSat(removeOrs[renameAgain(f, n).f], I)
<1> DEFINE g == renameAgain(f, n).f
<1>1. g \in Records /\ (AllSat(I, f) <=> AllSat(I, g))
  BY RenameAgainSays
<1> HIDE DEF g
<1>2. AllSat(I, g) <=> ClauseSat(removeOrs[g], I)
  BY <1>1, OrsSay DEF AllSat, ClauseSat
<1> QED BY <1>1, <1>2 DEF g

(* The conjuncts up to i, and the clauses that are made of them.           *)
SaysUpTo(I, cs, i, list) ==
  (\A k \in 1 .. i : AllSat(I, cs[k])) <=> \A k \in DOMAIN list : ClauseSat(list[k], I)

(* A conjunct and its clause are added.                                    *)
LEMMA OneClauseMore ==
  ASSUME NEW I, NEW cs, NEW i \in Nat, NEW list \in Seq(Seq(Records)), NEW c \in Seq(Records),
         SaysUpTo(I, cs, i, list), AllSat(I, cs[i + 1]) <=> ClauseSat(c, I)
  PROVE  SaysUpTo(I, cs, i + 1, Append(list, c))
<1> DEFINE t == Append(list, c)
           L == Len(list)
<1>1. /\ L \in Nat /\ DOMAIN list = 1 .. L /\ DOMAIN t = 1 .. L + 1
      /\ t[L + 1] = c /\ \A k \in 1 .. L : t[k] = list[k]
  OBVIOUS
<1> HIDE DEF t, L
<1>2. \A k \in 1 .. L + 1 : k \in 1 .. L \/ k = L + 1
  BY <1>1
<1>3. (\A k \in DOMAIN t : ClauseSat(t[k], I)) <=>
        (\A k \in DOMAIN list : ClauseSat(list[k], I)) /\ ClauseSat(c, I)
  <2>1. ASSUME \A k \in DOMAIN t : ClauseSat(t[k], I)
        PROVE  (\A k \in DOMAIN list : ClauseSat(list[k], I)) /\ ClauseSat(c, I)
    <3>1. L + 1 \in DOMAIN t /\ \A k \in DOMAIN list : k \in DOMAIN t
      BY <1>1
    <3> QED BY <1>1, <2>1, <3>1
  <2>2. ASSUME \A k \in DOMAIN list : ClauseSat(list[k], I), ClauseSat(c, I),
               NEW k \in DOMAIN t
        PROVE  ClauseSat(t[k], I)
    BY <1>1, <1>2, <2>2
  <2> QED BY <2>1, <2>2
<1>4. (\A k \in 1 .. i + 1 : AllSat(I, cs[k])) <=>
        (\A k \in 1 .. i : AllSat(I, cs[k])) /\ AllSat(I, cs[i + 1])
  <2>1. \A k \in 1 .. i + 1 : k \in 1 .. i \/ k = i + 1
    OBVIOUS
  <2>2. i + 1 \in 1 .. i + 1 /\ \A k \in 1 .. i : k \in 1 .. i + 1
    OBVIOUS
  <2> QED BY <2>1, <2>2
<1> QED BY <1>3, <1>4 DEF SaysUpTo, t

(* The clauses of an entry say what the entry says.                        *)
LEMMA ClausesSay ==
  ASSUME NEW I, NEW f \in Records, NoBinder(f), Unmarked(f), NEW n \in Nat
  PROVE  AllSat(I, f) <=>
           \A k \in DOMAIN ClausesOf(f, n).list : ClauseSat(ClausesOf(f, n).list[k], I)
<1> DEFINE cs == removeAnds[f]
           L == Len(cs)
           Well(i, r) == /\ r.counter \in Nat /\ r.list \in Seq(Seq(Records))
                         /\ SaysUpTo(I, cs, i, r.list)
<1>1. cs \in Seq(Records) /\ \A i \in DOMAIN cs : Parts[cs[i]] \subseteq Parts[f]
  BY AndsAreParts
<1>2. PICK v : /\ v = [i \in 0 .. L |-> DoneBody(cs, n, v, i)]
               /\ ClausesOf(f, n) = v[L]
  BY ClausesOfDef
<1>3. L \in Nat /\ DOMAIN cs = 1 .. L /\ \A i \in 1 .. L : cs[i] \in Records
  BY <1>1
<1>4. \A i \in 1 .. L : NoBinder(cs[i]) /\ cs[i].type \notin Markers
  BY <1>1, <1>3 DEF NoBinder, Unmarked
<1>5. \A e : Sat(I, e, f) <=> \A k \in 1 .. L : Sat(I, e, cs[k])
  BY <1>3, AndsSay
<1> HIDE DEF cs, L
<1> DEFINE T == {i \in Nat : i <= L => Well(i, v[i])}
<1>6. 0 \in T
  <2>1. v[0] = [list |-> <<>>, counter |-> n]
    BY <1>2, <1>3 DEF DoneBody
  <2>2. SaysUpTo(I, cs, 0, <<>>)
    BY DEF SaysUpTo
  <2>3. v[0].list = <<>> /\ v[0].counter = n
    BY <2>1
  <2>4. v[0].list \in Seq(Seq(Records))
    BY <2>3
  <2>5. SaysUpTo(I, cs, 0, v[0].list)
    BY <2>2, <2>3
  <2> QED BY <2>3, <2>4, <2>5
<1>7. ASSUME NEW i \in T PROVE i + 1 \in T
  <2> SUFFICES ASSUME i + 1 <= L PROVE Well(i + 1, v[i + 1])
    OBVIOUS
  <2>1. /\ i \in Nat /\ i + 1 \in 1 .. L /\ (i + 1) - 1 = i /\ Well(i, v[i])
        /\ i + 1 \in 0 .. L
    BY <1>3
  <2> DEFINE g == cs[i + 1]
             r == renameAgain(g, v[i].counter)
             c == removeOrs[r.f]
             s == Append(v[i].list, c)
  <2>2. v[i + 1] = [list |-> s, counter |-> r.data.counter]
    <3>1. v[i + 1] = DoneBody(cs, n, v, i + 1)
      BY <1>2, <2>1
    <3>2. g.type \notin Markers /\ i + 1 # 0
      BY <1>4, <2>1
    <3> QED BY <2>1, <3>1, <3>2 DEF DoneBody
  <2>3. g \in Records /\ NoBinder(g)
    BY <1>3, <1>4, <2>1
  <2>4. r.data.counter \in Nat /\ c \in Seq(Records)
    BY <2>1, <2>3, ClauseOfConjunct
  <2>5. AllSat(I, g) <=> ClauseSat(c, I)
    BY <2>1, <2>3, ConjunctSays
  <2> HIDE DEF r, c
  <2>6. SaysUpTo(I, cs, i + 1, s)
    BY <2>1, <2>4, <2>5, OneClauseMore
  <2>7. s \in Seq(Seq(Records))
    BY <2>1, <2>4
  <2> HIDE DEF s
  <2> QED BY <2>2, <2>4, <2>6, <2>7
<1>8. T \in SUBSET Nat
  OBVIOUS
<1> HIDE DEF T
<1>9. T = Nat
  BY <1>6, <1>7, <1>8, NumberInduction
<1>10. SaysUpTo(I, cs, L, v[L].list)
  BY <1>3, <1>9 DEF T
<1>11. AllSat(I, f) <=> \A k \in 1 .. L : AllSat(I, cs[k])
  BY <1>5 DEF AllSat
<1> QED BY <1>2, <1>10, <1>11 DEF SaysUpTo
-----------------------------------------------------------------------------
(* The inductive invariant of the clauses: those that are made say what    *)
(* their entries say, and nothing has been asserted away.                  *)
ClausesMean ==
  /\ phase \in {"clauses", "aborted"} => form = "CNF"
  /\ phase # "aborted"
  /\ Len(clauses) <= Len(normal.list)
  /\ \A i \in DOMAIN clauses :
       LET f == normal.list[i].f
       IN Unmarked(f) =>
            \A I : AllSat(I, f) <=> \A k \in DOMAIN clauses[i] : ClauseSat(clauses[i][k], I)

MeaningInv == ProofInv /\ CopyMeans /\ DoneMeans /\ ClausesMean

(* What Clausify adds.                                                     *)
LEMMA ClausifyMeans ==
  ASSUME ProofInv, ClausesMean, Clausify
  PROVE  ClausesMean'
<1> DEFINE L == Len(clauses)
           f == normal.list[L + 1].f
           r == ClausesOf(f, counter)
<1>1. /\ phase = "clauses" /\ L < Len(normal.list)
      /\ phase' = IF Refused(f) THEN "aborted" ELSE phase
      /\ clauses' = Append(clauses, r.list) /\ UNCHANGED <<form, normal>>
  BY DEF Clausify
<1>2. /\ clauses \in Seq(Seq(Seq(Records))) /\ L \in Nat /\ DOMAIN clauses = 1 .. L
      /\ counter \in Nat /\ normal.list \in Seq(Entries)
  BY DEF ProofInv, ClausesWell, FormInv, ProgramRead, NormalMade
<1>3. L + 1 \in DOMAIN normal.list /\ normal.list[L + 1] \in Entries
  BY <1>1, <1>2
<1>4. f \in Records /\ IsNormal(f)
  BY <1>3 DEF Entries, ProofInv, FormInv, EntriesDone
<1>5. form = "CNF"
  BY <1>1 DEF ClausesMean
<1>6. phase' = "clauses"
  BY <1>1, <1>4, <1>5, NeverRefused
<1>7. NoBinder(f)
  BY <1>4 DEF IsNormal, NoBinder
<1>8. r.list \in Seq(Seq(Records))
  BY <1>2, <1>4, ClausesSplit DEF SplitWell
<1>9. Unmarked(f) =>
        \A I : AllSat(I, f) <=> \A k \in DOMAIN r.list : ClauseSat(r.list[k], I)
  BY <1>2, <1>4, <1>7, ClausesSay
<1> DEFINE list == r.list
<1> HIDE DEF r, list
<1>10. /\ DOMAIN clauses' = 1 .. L + 1 /\ Len(clauses') = L + 1
       /\ clauses'[L + 1] = list /\ \A i \in 1 .. L : clauses'[i] = clauses[i]
  BY <1>1, <1>2, <1>8 DEF list
<1>11. ASSUME NEW i \in DOMAIN clauses', Unmarked(normal.list[i].f), NEW I
       PROVE  AllSat(I, normal.list[i].f) <=>
                \A k \in DOMAIN clauses'[i] : ClauseSat(clauses'[i][k], I)
  <2>1. CASE i = L + 1
    BY <1>9, <1>10, <1>11, <2>1 DEF list
  <2>2. CASE i \in 1 .. L
    <3>1. i \in DOMAIN clauses /\ clauses'[i] = clauses[i]
      BY <1>2, <1>10, <2>2
    <3> QED BY <1>11, <3>1 DEF ClausesMean
  <2> QED BY <1>2, <1>10, <2>1, <2>2
<1>12. \A i : normal'.list[i].f = normal.list[i].f
  BY <1>1
<1>13. Len(clauses') <= Len(normal'.list)
  BY <1>1, <1>2, <1>10
<1> QED BY <1>1, <1>5, <1>6, <1>11, <1>13 DEF ClausesMean

(* The other steps.                                                        *)
LEMMA ClausesStay ==
  ASSUME ProofInv, ClausesMean, Read \/ FormStep
  PROVE  ClausesMean'
<1>1. CASE Clausify
  BY <1>1, ClausifyMeans
<1>2. CASE ~ Clausify
  <2>1. clauses' = <<>>
    BY <1>2, StepsKeepNone
  <2>2. phase' \in {"clauses", "aborted"} => phase' = "clauses" /\ form' = "CNF"
    <3>1. CASE Read
      BY <3>1 DEF Read
    <3>2. CASE StartClauses
      BY <3>2 DEF StartClauses, making
    <3>3. CASE \E nf \in {"CNF", "DNF"} : StartNormal(nf)
      BY <3>3 DEF StartNormal
    <3>4. CASE \/ RemoveBiconditionals \/ RemoveConditionals \/ Demorgans
               \/ RenameVariables \/ Skolemize \/ RemoveUniversals \/ Distribute
               \/ InsertNormal
      <4>1. phase = "normal" /\ phase' = phase
        BY <3>4 DEF RemoveBiconditionals, RemoveConditionals, Demorgans, RenameVariables,
                    Skolemize, RemoveUniversals, Distribute, InsertNormal, Rewrite,
                    RewriteNaming, Working
      <4> QED BY <4>1
    <3> QED BY <1>2, <3>1, <3>2, <3>3, <3>4 DEF FormStep
  <2>3. FormInv'
    <3>1. FormInv /\ clauses \in Seq(Seq(Seq(Records)))
      BY DEF ProofInv, ClausesWell
    <3> QED BY <3>1, ReadKeeps, StartNormalKeeps, CallsKeep, RenameVariablesKeeps,
               SkolemizeKeeps, DistributeKeeps, InsertNormalKeeps, ClausifyKeeps DEF FormStep
  <2>4. Len(normal'.list) \in Nat
    BY <2>3 DEF FormInv, NormalMade
  <2> QED BY <2>1, <2>2, <2>4 DEF ClausesMean
<1> QED BY <1>1, <1>2

(* Every program that is read, in every order of the steps.                *)
THEOREM MeaningInvariant == FormSpec => []MeaningInv
<1>1. FormInit => CopyMeans /\ DoneMeans /\ ClausesMean
  <2> SUFFICES ASSUME FormInit PROVE CopyMeans /\ DoneMeans /\ ClausesMean
    OBVIOUS
  <2>1. /\ phase = "idle" /\ form = "none" /\ clauses = <<>> /\ normal.list = <<>>
    BY DEF FormInit, EmptyProgram
  <2> QED BY <2>1 DEF CopyMeans, DoneMeans, ClausesMean, Working
<1>2. /\ ProofInv /\ CopyMeans /\ DoneMeans /\ ClausesMean
      /\ [Read \/ FormStep]_formVars
      => CopyMeans' /\ DoneMeans' /\ ClausesMean'
  <2> SUFFICES ASSUME ProofInv, CopyMeans, DoneMeans, ClausesMean,
                      [Read \/ FormStep]_formVars
               PROVE  CopyMeans' /\ DoneMeans' /\ ClausesMean'
    OBVIOUS
  <2>1. CASE Read \/ FormStep
    BY <2>1, StepsMean, ClausesStay DEF ProofInv
  <2>2. CASE UNCHANGED formVars
    <3>1. UNCHANGED <<phase, program, form, normal, cur, call, clauses>>
      BY <2>2 DEF formVars, making
    <3>2. Copy(Len(normal.list))' = Copy(Len(normal.list))
      BY <3>1 DEF Copy
    <3>3. CopyMeans'
      BY <3>1, <3>2 DEF CopyMeans, Working
    <3>4. DoneMeans' /\ ClausesMean'
      BY <3>1 DEF DoneMeans, ClausesMean
    <3> QED BY <3>3, <3>4
  <2> QED BY <2>1, <2>2
<1> QED BY <1>1, <1>2, ProofInvariant, PTL DEF FormSpec, MeaningInv

(* From the program that was read to its clauses no step changes what an   *)
(* entry means, up to the skolem symbols, whatever the program, the        *)
(* symbols and the domain are; and the split into clauses never aborts.    *)
THEOREM MeaningAlwaysKept == FormSpec => []MeaningKept
<1>1. ASSUME MeaningInv PROVE EntriesKept
  <2>1. ProofInv /\ FormInv
    BY <1>1 DEF MeaningInv, ProofInv
  <2>2. ASSUME Working, form = "DNF" => call # "distribution"
        PROVE  Expresses(cur, program.list[Len(normal.list) + 1].f)
    <3>1. CopyMeans
      BY <1>1 DEF MeaningInv
    <3>2. /\ cur \in Records /\ Copy(Len(normal.list)) \in Records
          /\ MeansSame(Copy(Len(normal.list)), cur)
      BY <2>1, <2>2, <3>1, CallBegins DEF CopySays
    <3>3. Copy(Len(normal.list)) = program.list[Len(normal.list) + 1].f
      BY <2>2 DEF Copy, Working
    <3> QED BY <3>2, <3>3, MeansSameExpresses
  <2>3. ASSUME form = "CNF" PROVE Kept
    <3> SUFFICES ASSUME NEW i \in DOMAIN normal.list
                 PROVE  Expresses(normal.list[i].f, program.list[i].f)
      BY DEF Kept
    <3>1. /\ normal.list \in Seq(Entries) /\ program.list \in Seq(Written)
          /\ Len(normal.list) <= Len(program.list)
      BY <2>1 DEF FormInv, NormalMade, ProgramRead
    <3>2. normal.list[i] \in Entries /\ program.list[i] \in Written
      BY <3>1
    <3>3. normal.list[i].f \in Records /\ program.list[i].f \in Records
      BY <3>2, WrittenIsDistinct DEF Entries
    <3>4. MeansSame(program.list[i].f, normal.list[i].f)
      BY <1>1, <2>3 DEF MeaningInv, DoneMeans
    <3> QED BY <3>3, <3>4, MeansSameExpresses
  <2> QED BY <2>2, <2>3 DEF EntriesKept
<1>2. ASSUME MeaningInv PROVE ClausesKept
  <2>1. /\ phase # "aborted" /\ Len(clauses) <= Len(normal.list)
        /\ normal.list \in Seq(Entries) /\ clauses \in Seq(Seq(Seq(Records)))
    BY <1>2 DEF MeaningInv, ClausesMean, ProofInv, FormInv, NormalMade, ClausesWell
  <2>2. ASSUME NEW i \in DOMAIN clauses, Unmarked(normal.list[i].f), NEW I
        PROVE  True(normal.list[i].f, I) <=>
                 \A k \in DOMAIN clauses[i] : ClauseTrue(clauses[i][k], I)
    <3>1. normal.list[i] \in Entries /\ clauses[i] \in Seq(Seq(Records))
      BY <2>1
    <3>2. normal.list[i].f \in Records
      BY <3>1 DEF Entries
    <3>3. AllSat(I, normal.list[i].f) <=>
            \A k \in DOMAIN clauses[i] : ClauseSat(clauses[i][k], I)
      BY <1>2, <2>2 DEF MeaningInv, ClausesMean
    <3>4. \A k \in DOMAIN clauses[i] :
            ClauseTrue(clauses[i][k], I) <=> ClauseSat(clauses[i][k], I)
      BY <3>1, ClauseIsTrue
    <3> QED BY <3>2, <3>3, <3>4, TrueIs
  <2> QED BY <2>1, <2>2 DEF ClausesKept
<1> QED BY <1>1, <1>2, MeaningInvariant, PTL DEF MeaningKept

(* Whatever the symbols and the free variables stand for, a formula and    *)
(* what the calls that drop no quantifier make of it are both true or both *)
(* false.                                                                  *)
THEOREM TruthAlwaysKept == FormSpec => TruthKept
<1>1. ASSUME MeaningInv, Rewriting PROVE SameTruth(cur, cur')
  <2>1. FormInv /\ CopyMeans
    BY <1>1 DEF MeaningInv, ProofInv
  <2>2. Working
    BY <1>1 DEF Rewriting, RemoveBiconditionals, RemoveConditionals, Demorgans,
                RenameVariables, Rewrite, RewriteNaming, Distribute
  <2>3. cur \in Records
    BY <2>1, <2>2 DEF FormInv, CopyReached
  <2>4. ASSUME NEW I, NEW free PROVE Sat(I, free, cur) <=> Sat(I, free, cur')
    <3>1. CASE RenameVariables
      BY <2>1, <3>1, RenameVariablesMeans
    <3>2. ASSUME Same(I, free, cur, cur') PROVE Sat(I, free, cur) <=> Sat(I, free, cur')
      BY <3>2, NoScope DEF Same, Sat
    <3>3. CASE RemoveBiconditionals
      BY <2>3, <3>2, <3>3, BiconditionalsSame DEF RemoveBiconditionals, Rewrite
    <3>4. CASE RemoveConditionals
      BY <2>3, <3>2, <3>4, ConditionalsSame DEF RemoveConditionals, Rewrite
    <3>5. CASE Demorgans
      BY <2>3, <3>2, <3>5, DemorgansSame DEF Demorgans, Rewrite
    <3>6. CASE form = "CNF" /\ Distribute
      <4>1. cur' = distributeOrs[cur] /\ distributeOrs[cur] \in Records
        BY <3>6 DEF Distribute, Pass
      <4> QED BY <2>3, <3>2, <4>1, OrsSame
    <3> QED BY <1>1, <3>1, <3>3, <3>4, <3>5, <3>6 DEF Rewriting
  <2> QED BY <2>4 DEF SameTruth, Sat, Says, Holds
<1> QED BY <1>1, MeaningInvariant, PTL DEF TruthKept
=============================================================================
