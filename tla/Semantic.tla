------------------------------ MODULE Semantic ------------------------------
(***************************************************************************)
(* The semantic records of logic/src/Semantic.cpp and the functions that   *)
(* bring an expression into conjunctive or disjunctive normal form.  A     *)
(* record is [type, name, kids]: kids stands for left_ and right_ of a     *)
(* connective or an equality, for right_ of a negation or a quantifier,    *)
(* and for arguments_ of a predicate or a function.  The functions of the  *)
(* code change a record in place; here they return the changed one.  A     *)
(* name is a pair of a prefix and a number, 0 for what the user wrote, so  *)
(* that uniqueName can be translated with its counter.                     *)
(***************************************************************************)
EXTENDS Naturals, Sequences

CONSTANTS
  Identifiers,     \* the words that the user writes as names
  MaxHeight        \* bound on the height of a record

(* Room for a function of variables, which skolemize makes.                *)
ASSUME HeightAssumption == MaxHeight \in Nat /\ MaxHeight >= 2

Binary == {"And", "Or", "Conditional", "Biconditional", "Equal"}
Quantifiers == {"Universal", "Existential"}
Logical == {"And", "Or", "Conditional", "Biconditional", "Negation"}
             \cup Quantifiers

(* The types whose kids are left_ and right_, the others have arguments_.  *)
Branching == Binary \cup Quantifiers \cup {"Negation"}

TermTypes == {"Constant", "Function", "Number", "QuotedString", "Variable"}

RecordTypes == Branching \cup TermTypes \cup
  {"PredicateConstant", "PredicateFunction", "LogicalConstant", "Option",
   "StartArgument", "EndArgument", "Unknown"}

(* With what uniqueName is called.                                         *)
UniquePrefixes == {"uvar", "xvar", "skolem", "rvar"}

AnyName == (Identifiers \cup UniquePrefixes \cup {"", "true", "false"}) \X Nat
NoName == <<"", 0>>

Semantic(type, name, kids) == [type |-> type, name |-> name, kids |-> kids]
Leaf(type, name) == Semantic(type, name, <<>>)
Join(type, left, right) == Semantic(type, NoName, <<left, right>>)
Not(f) == Semantic("Negation", NoName, <<f>>)
Bind(type, name, body) == Semantic(type, name, <<body>>)
Mark(type) == Leaf(type, NoName)

(* Logical join formulas, all others have terms below them, and of the     *)
(* terms only a function has arguments.                                    *)
Shaped(f) ==
  /\ f.type \in Binary => Len(f.kids) = 2
  /\ f.type \in Quantifiers \cup {"Negation"} => Len(f.kids) = 1
  /\ f.type \in TermTypes \ {"Function"} => f.kids = <<>>
  /\ \A i \in DOMAIN f.kids :
       (f.kids[i].type \in TermTypes) = (f.type \notin Logical)

(* The records of a height up to n.  An And counts for three: the          *)
(* distribution over it makes its operands higher by up to two.            *)
Level[n \in 0 .. MaxHeight] ==
  IF n = 0 THEN {}
  ELSE {f \in [type : RecordTypes, name : AnyName, kids : Seq(Level[n - 1])] :
          /\ Shaped(f)
          /\ f.type = "And" => n > 3 /\ f.kids \in Seq(Level[n - 3])}

Records == Level[MaxHeight]

(* The records in f, itself included.                                      *)
Parts[f \in Records] ==
  {f} \cup UNION {Parts[f.kids[i]] : i \in DOMAIN f.kids}

(* An entry of a program: the record and the flags of its root.            *)
Entry(f, flag, sos) == [f |-> f, flag |-> flag, sos |-> sos]

Names(f) == {p.name : p \in Parts[f]}
Variables(f) == {p.name : p \in {q \in Parts[f] : q.type = "Variable"}}
-----------------------------------------------------------------------------
(* left_ and right_ of f replaced by what the function op gives for them.  *)
OnBranches(op, f) ==
  IF f.type \in Branching
  THEN [f EXCEPT !.kids = [i \in DOMAIN f.kids |-> op[f.kids[i]]]]
  ELSE f

(* A <--> B becomes (B --> A) && (A --> B), innermost first.               *)
removeBiconditionals[f \in Records] ==
  LET g == OnBranches(removeBiconditionals, f)
  IN IF g.type = "Biconditional"
     THEN Join("And", Join("Conditional", g.kids[2], g.kids[1]),
                      Join("Conditional", g.kids[1], g.kids[2]))
     ELSE g

(* A --> B becomes ~A || B, innermost first.                               *)
removeConditionals[f \in Records] ==
  LET g == OnBranches(removeConditionals, f)
  IN IF g.type = "Conditional"
     THEN Join("Or", Not(g.kids[1]), g.kids[2])
     ELSE g

removeExtraNots[f \in Records] ==
  IF f.type = "Negation" /\ f.kids[1].type = "Negation"
  THEN removeExtraNots[f.kids[1].kids[1]]
  ELSE f

(* Mutant: a negated quantifier keeps its kind.                            *)
PushNot_SameQuantifier(g) ==
  LET k == g.kids[1]
  IN CASE k.type = "Or" -> Join("And", Not(k.kids[1]), Not(k.kids[2]))
       [] k.type = "And" -> Join("Or", Not(k.kids[1]), Not(k.kids[2]))
       [] k.type \in Quantifiers -> Bind(k.type, k.name, Not(k.kids[1]))
       [] OTHER -> g

(* The negation g moved below the operator that it negates.                *)
PushNot(g) ==
  LET k == g.kids[1]
  IN CASE k.type = "Or" -> Join("And", Not(k.kids[1]), Not(k.kids[2]))
       [] k.type = "And" -> Join("Or", Not(k.kids[1]), Not(k.kids[2]))
       [] k.type = "Universal" ->
            Bind("Existential", k.name, Not(k.kids[1]))
       [] k.type = "Existential" ->
            Bind("Universal", k.name, Not(k.kids[1]))
       [] OTHER -> g

demorgans[f \in Records] ==
  LET g == removeExtraNots[f]
      h == IF g.type = "Negation" THEN PushNot(g) ELSE g
  IN OnBranches(demorgans, h)
-----------------------------------------------------------------------------
(* uniqueName: the prefix and the next value of a static counter.          *)
uniqueName(prefix, counter) == <<prefix, counter + 1>>

(* The kids of f from left to right, each given what the one before has    *)
(* left of data; env is the same for all.  op[kid][data][env] is [f, data].*)
Traverse(op, f, data, env) ==
  LET visited[i \in 0 .. Len(f.kids)] ==
        IF i = 0 THEN [kids |-> <<>>, data |-> data]
        ELSE LET before == visited[i - 1]
                 r == op[f.kids[i]][before.data][env]
             IN [kids |-> Append(before.kids, r.f), data |-> r.data]
      all == visited[Len(f.kids)]
  IN [f |-> [f EXCEPT !.kids = all.kids], data |-> all.data]

(* What the first pair of key has with it, default if there is none.       *)
Find(pairs, key, default) ==
  IF \E i \in DOMAIN pairs : pairs[i][1] = key
  THEN LET i == CHOOSE i \in DOMAIN pairs :
                  /\ pairs[i][1] = key
                  /\ \A j \in 1 .. i - 1 : pairs[j][1] # key
       IN pairs[i][2]
  ELSE default

(* Every quantifier gets a variable of its own.  renames is the stack of   *)
(* the quantifiers around f, innermost first.                              *)
renameWith[f \in Records] ==
  [counter \in Nat |-> [renames \in Seq(AnyName \X AnyName) |->
     IF f.type \in Quantifiers
     THEN LET new == uniqueName(IF f.type = "Universal" THEN "uvar"
                                ELSE "xvar", counter)
          IN Traverse(renameWith, [f EXCEPT !.name = new], counter + 1,
                      <<<<f.name, new>>>> \o renames)
     ELSE Traverse(renameWith, [f EXCEPT !.name = Find(renames, @, @)],
                   counter, renames)]]

renameVariables(f, counter) == renameWith[f][counter][<<>>]

(* What an existential variable is replaced by: a constant, or a function  *)
(* of the universal variables in scope.                                    *)
SkolemTerm(name, uvars) ==
  IF uvars = <<>>
  THEN Leaf("Constant", name)
  ELSE Semantic("Function", name,
                [i \in DOMAIN uvars |-> Leaf("Variable", uvars[i])])

(* data is [counter, fns], fns the skolem_fns of the code: of a variable   *)
(* that it holds already, the first entry counts.                          *)
SkolemData == [counter : Nat, fns : Seq(AnyName \X Records)]

skolemizeIn[f \in Records] ==
  [data \in SkolemData |-> [uvars \in Seq(AnyName) |->
     CASE f.type = "Universal" ->
            Traverse(skolemizeIn, f, data, Append(uvars, f.name))
       [] f.type = "Existential" ->
            LET term == SkolemTerm(uniqueName("skolem", data.counter), uvars)
            IN skolemizeIn[f.kids[1]]
                 [[counter |-> data.counter + 1,
                   fns |-> Append(data.fns, <<f.name, term>>)]][uvars]
       [] f.type = "Variable" ->
            [f |-> Find(data.fns, f.name, f), data |-> data]
       [] OTHER -> Traverse(skolemizeIn, f, data, uvars)]]

skolemize(f, counter) ==
  skolemizeIn[f][[counter |-> counter, fns |-> <<>>]][<<>>]

removeUniversals[f \in Records] ==
  LET g == OnBranches(removeUniversals, f)
  IN IF g.type = "Universal" THEN g.kids[1] ELSE g
-----------------------------------------------------------------------------
(* Mutant: only the left operand is looked at.                             *)
Lift_LeftOnly(f, out, in, new) ==
  IF f.type = out /\ f.kids[1].type = in
  THEN Join(in, Join(new, f.kids[1].kids[1], f.kids[2]),
                Join(new, f.kids[1].kids[2], f.kids[2]))
  ELSE f

(* Mutant: both halves get the first of the two operands.                  *)
Lift_SameHalf(f, out, in, new) ==
  LET half == Join(new, f.kids[1].kids[1], f.kids[2])
  IN IF f.type = out /\ f.kids[1].type = in THEN Join(in, half, half) ELSE f

(* f, of the form (A in B) out C or A out (B in C), with the operator in   *)
(* on top; the operator of the two halves is new.                          *)
Lift(f, out, in, new) ==
  LET Left(g) == IF g.kids[1].type = in
                 THEN Join(in, Join(new, g.kids[1].kids[1], g.kids[2]),
                               Join(new, g.kids[1].kids[2], g.kids[2]))
                 ELSE g
      Right(g) == IF g.kids[2].type = in
                  THEN Join(in, Join(new, g.kids[1], g.kids[2].kids[1]),
                                Join(new, g.kids[1], g.kids[2].kids[2]))
                  ELSE g
  IN IF f.type = out THEN Right(Left(f)) ELSE f

(* One pass over the expression.                                           *)
distributeOrs[f \in Records] ==
  OnBranches(distributeOrs, Lift(f, "Or", "And", "Or"))

(* The halves of a distributed And are made with Or, as the code does.     *)
distributeAnds[f \in Records] ==
  OnBranches(distributeAnds, Lift(f, "And", "Or", "Or"))
-----------------------------------------------------------------------------
(* The conjuncts of f, the disjuncts of f, from left to right.             *)
removeAnds[f \in Records] ==
  IF f.type = "And"
  THEN removeAnds[f.kids[1]] \o removeAnds[f.kids[2]]
  ELSE <<f>>

removeOrs[f \in Records] ==
  IF f.type = "Or"
  THEN removeOrs[f.kids[1]] \o removeOrs[f.kids[2]]
  ELSE <<f>>

(* The types that removeAnds and removeOrs assert never to meet.           *)
NeverConjunct == Quantifiers \cup {"Conditional", "Biconditional"}
NeverDisjunct == NeverConjunct \cup {"And"}

(* Every variable of a conjunct gets a new name, the same wherever it      *)
(* stands.  data is [counter, names], names the pairs of old and new.      *)
NamesData == [counter : Nat, names : Seq(AnyName \X AnyName)]

renameAll[f \in Records] ==
  [data \in NamesData |-> [env \in {<<>>} |->
     IF f.type # "Variable" THEN Traverse(renameAll, f, data, env)
     ELSE IF \E i \in DOMAIN data.names : data.names[i][1] = f.name
     THEN [f |-> [f EXCEPT !.name = Find(data.names, @, @)], data |-> data]
     ELSE LET new == uniqueName("rvar", data.counter)
          IN [f |-> [f EXCEPT !.name = new],
              data |-> [counter |-> data.counter + 1,
                        names |-> Append(data.names, <<f.name, new>>)]]]]

(* Mutant: the conjuncts keep the variables they share.                    *)
renameAgain_Keep(f, counter) ==
  [f |-> f, data |-> [counter |-> counter, names |-> <<>>]]

renameAgain(f, counter) ==
  renameAll[f][[counter |-> counter, names |-> <<>>]][<<>>]
=============================================================================
