----------------------------- MODULE Recursion ------------------------------
(***************************************************************************)
(* The functions of Semantic, NormalForms and Meaning that are defined by  *)
(* recursion, for the proofs about them: the right-hand side of each as an *)
(* operator, and the measure along which it recurs.                        *)
(***************************************************************************)
EXTENDS NormalForms, FiniteSets

(* The right-hand sides, of the value at f (n, t, S); the function itself  *)
(* (op, g, truth, value, of) is only applied below that.                   *)
LevelBody(g, n) ==
  IF n = 0 THEN {}
  ELSE {f \in [type : RecordTypes, name : AnyName, kids : Seq(g[n - 1])] :
          /\ Shaped(f)
          /\ f.type = "And" => n > 3 /\ f.kids \in Seq(g[n - 3])}

(* The height of a record: the first level it is on.                       *)
Height(f) == CHOOSE n \in 1 .. MaxHeight :
               /\ f \in Level[n]
               /\ \A m \in 1 .. MaxHeight : f \in Level[m] => n <= m

PartsBody(g, f) == {f} \cup UNION {g[f.kids[i]] : i \in DOMAIN f.kids}

BiconditionalsBody(op, f) ==
  LET g == OnBranches(op, f)
  IN IF g.type = "Biconditional"
     THEN Join("And", Join("Conditional", g.kids[2], g.kids[1]),
                      Join("Conditional", g.kids[1], g.kids[2]))
     ELSE g

ConditionalsBody(op, f) ==
  LET g == OnBranches(op, f)
  IN IF g.type = "Conditional"
     THEN Join("Or", Not(g.kids[1]), g.kids[2])
     ELSE g

ExtraNotsBody(op, f) ==
  IF f.type = "Negation" /\ f.kids[1].type = "Negation"
  THEN op[f.kids[1].kids[1]]
  ELSE f

(* What demorgans does to f before it goes below.                          *)
Pushed(f) ==
  LET g == removeExtraNots[f]
  IN IF g.type = "Negation" THEN PushNot(g) ELSE g

DemorgansBody(op, f) == OnBranches(op, Pushed(f))

UniversalsBody(op, f) ==
  LET g == OnBranches(op, f)
  IN IF g.type = "Universal" THEN g.kids[1] ELSE g

AndsBody(op, f) ==
  IF f.type = "And" THEN op[f.kids[1]] \o op[f.kids[2]] ELSE <<f>>

OrsBody(op, f) ==
  IF f.type = "Or" THEN op[f.kids[1]] \o op[f.kids[2]] ELSE <<f>>

RenameBody(op, f) ==
  [n \in Nat |-> [renames \in Seq(AnyName \X AnyName) |->
     IF f.type \in Quantifiers
     THEN LET new == uniqueName(IF f.type = "Universal" THEN "uvar"
                                ELSE "xvar", n)
          IN Traverse(op, [f EXCEPT !.name = new], n + 1,
                      <<<<f.name, new>>>> \o renames)
     ELSE Traverse(op, [f EXCEPT !.name = Find(renames, @, @)], n, renames)]]

SkolemizeBody(op, f) ==
  [data \in SkolemData |-> [uvars \in Seq(AnyName) |->
     CASE f.type = "Universal" ->
            Traverse(op, f, data, Append(uvars, f.name))
       [] f.type = "Existential" ->
            LET term == SkolemTerm(uniqueName("skolem", data.counter), uvars)
            IN op[f.kids[1]]
                 [[counter |-> data.counter + 1,
                   fns |-> Append(data.fns, <<f.name, term>>)]][uvars]
       [] f.type = "Variable" ->
            [f |-> Find(data.fns, f.name, f), data |-> data]
       [] OTHER -> Traverse(op, f, data, uvars)]]

RenameAllBody(op, f) ==
  [data \in NamesData |-> [env \in {<<>>} |->
     IF f.type # "Variable" THEN Traverse(op, f, data, env)
     ELSE IF \E i \in DOMAIN data.names : data.names[i][1] = f.name
     THEN [f |-> [f EXCEPT !.name = Find(data.names, @, @)], data |-> data]
     ELSE LET new == uniqueName("rvar", data.counter)
          IN [f |-> [f EXCEPT !.name = new],
              data |-> [counter |-> data.counter + 1,
                        names |-> Append(data.names, <<f.name, new>>)]]]]

(* The number of records on the branches of f.                             *)
Size[f \in Records] ==
  IF f.type \in Binary THEN 1 + Size[f.kids[1]] + Size[f.kids[2]]
  ELSE IF f.type \in Quantifiers \cup {"Negation"} THEN 1 + Size[f.kids[1]]
  ELSE 1

SizeBody(g, f) ==
  IF f.type \in Binary THEN 1 + g[f.kids[1]] + g[f.kids[2]]
  ELSE IF f.type \in Quantifiers \cup {"Negation"} THEN 1 + g[f.kids[1]]
  ELSE 1

SizeOf(f) == Size[f]

DistributeOrsBody(op, f) == OnBranches(op, Lift(f, "Or", "And", "Or"))

DistributeAndsBody(op, f) == OnBranches(op, Lift(f, "And", "Or", "Or"))

BindOnceBody(op, f) ==
  /\ \A i \in DOMAIN f.kids : op[f.kids[i]]
  /\ f.type \in Quantifiers => f.name \notin BinderNames(f.kids[1])
  /\ \A i, j \in DOMAIN f.kids :
       i # j => BinderNames(f.kids[i]) \cap BinderNames(f.kids[j]) = {}

TruthBody(I, free, truth, f) ==
  [scope \in Valuations |->
    LET Sub(i) == truth[f.kids[i]][scope]
        Of(d) == truth[f.kids[1]][<<<<f.name, d>>>> \o scope]
    IN CASE f.type \in Predicates -> Value(I, free)[f][scope] = TRUE
         [] f.type = "LogicalConstant" -> f.name = <<"true", 0>>
         [] f.type = "Equal" ->
              Value(I, free)[f.kids[1]][scope] = Value(I, free)[f.kids[2]][scope]
         [] f.type = "Negation" -> ~ Sub(1)
         [] f.type = "And" -> Sub(1) /\ Sub(2)
         [] f.type = "Or" -> Sub(1) \/ Sub(2)
         [] f.type = "Conditional" -> Sub(1) => Sub(2)
         [] f.type = "Biconditional" -> Sub(1) <=> Sub(2)
         [] f.type = "Universal" -> \A d \in Domain : Of(d)
         [] f.type = "Existential" -> \E d \in Domain : Of(d)
         [] OTHER -> FALSE]

ValueBody(I, free, value, t) ==
  [scope \in Valuations |->
     IF t.type = "Variable" THEN Find(scope, t.name, free[t.name])
     ELSE I[Symbol(t)][[i \in DOMAIN t.kids |-> value[t.kids[i]][scope]]]]

FreeBody(g, f) ==
  IF f.type = "Variable" THEN {f.name}
  ELSE (UNION {g[f.kids[i]] : i \in DOMAIN f.kids})
         \ (IF f.type \in Quantifiers THEN {f.name} ELSE {})

AnySymbol == {Symbol(g) : g \in Records}

(* The finite sets of symbols, over which Interpretations recurs.          *)
SomeSymbols == {S \in SUBSET AnySymbol : IsFiniteSet(S)}
Chosen(S) == CHOOSE s \in S : TRUE
Extensions(M, s) == {With(m, s, t) : m \in M, t \in Denotations(s)}
InterpretationsBody(of, S) ==
  IF S = {} THEN {<<>>} ELSE Extensions(of[S \ {Chosen(S)}], Chosen(S))
SizeOfSet(S) == Cardinality(S)

-----------------------------------------------------------------------------
(* What function w is defined on, what gets smaller, and its value at x as *)
(* a function g below x gives it; p is what else the value depends on.     *)
Over(w) ==
  CASE w = "Level" -> 0 .. MaxHeight
    [] w = "Interpretations" -> SomeSymbols
    [] OTHER -> Records

Measure(w, x) ==
  CASE w = "Level" -> x
    [] w = "Interpretations" -> SizeOfSet(x)
    [] w = "distributeOrs" -> SizeOf(x)
    [] OTHER -> Height(x)

Body(w, p, g, x) ==
  CASE w = "Level" -> LevelBody(g, x)
    [] w = "Parts" -> PartsBody(g, x)
    [] w = "removeBiconditionals" -> BiconditionalsBody(g, x)
    [] w = "removeConditionals" -> ConditionalsBody(g, x)
    [] w = "removeExtraNots" -> ExtraNotsBody(g, x)
    [] w = "demorgans" -> DemorgansBody(g, x)
    [] w = "renameWith" -> RenameBody(g, x)
    [] w = "skolemizeIn" -> SkolemizeBody(g, x)
    [] w = "removeUniversals" -> UniversalsBody(g, x)
    [] w = "distributeOrs" -> DistributeOrsBody(g, x)
    [] w = "distributeAnds" -> DistributeAndsBody(g, x)
    [] w = "removeAnds" -> AndsBody(g, x)
    [] w = "removeOrs" -> OrsBody(g, x)
    [] w = "renameAll" -> RenameAllBody(g, x)
    [] w = "BindOnce" -> BindOnceBody(g, x)
    [] w = "Size" -> SizeBody(g, x)
    [] w = "Truth" -> TruthBody(p[1], p[2], g, x)
    [] w = "Value" -> ValueBody(p[1], p[2], g, x)
    [] w = "FreeVariables" -> FreeBody(g, x)
    [] w = "Interpretations" -> InterpretationsBody(g, x)

(* The value at x depends on the values at elements of a smaller measure.  *)
IsRecursive(w, p) ==
  /\ \A x \in Over(w) : Measure(w, x) \in Nat
  /\ \A x \in Over(w) : \A g, h :
       (\A y \in Over(w) : Measure(w, y) < Measure(w, x) => g[y] = h[y])
         => Body(w, p, g, x) = Body(w, p, h, x)

(* The elements of a measure below n, and the function on these.           *)
Below(w, n) == {x \in Over(w) : Measure(w, x) < n}
IsPart(w, p, n, g) == g = [x \in Below(w, n) |-> Body(w, p, g, x)]
=============================================================================
