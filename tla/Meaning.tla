------------------------------ MODULE Meaning -------------------------------
(***************************************************************************)
(* What a semantic record of first-order logic with equality means: its    *)
(* truth in an interpretation over a domain.  This is the reference that   *)
(* the normal forms of Semantic.tla are compared with; it models no code.  *)
(***************************************************************************)
EXTENDS Semantic, TLC

CONSTANT Domain      \* the elements that terms denote

ASSUME DomainAssumption == Domain # {}

Predicates == {"PredicateConstant", "PredicateFunction"}
Functions_ == TermTypes \ {"Variable"}

(* A symbol of f: its role, its name and its number of arguments.          *)
Symbol(g) == <<g.type, g.name, Len(g.kids)>>
Symbols(f) == {Symbol(g) :
                 g \in {p \in Parts[f] : p.type \in Predicates \cup Functions_}}

Denotations(symbol) ==
  [[1 .. symbol[3] -> Domain] ->
     IF symbol[1] \in Predicates THEN BOOLEAN ELSE Domain]

(* m, and the meaning t for the symbol s; the meanings of both I and J.     *)
With(m, s, t) == [y \in DOMAIN m \cup {s} |-> IF y = s THEN t ELSE m[y]]
Joined(I, J) ==
  [y \in DOMAIN I \cup DOMAIN J |-> IF y \in DOMAIN I THEN I[y] ELSE J[y]]

(* Every way to give the symbols a meaning.                                *)
Interpretations(symbols) ==
  LET of[S \in SUBSET symbols] ==
        IF S = {} THEN {<<>>}
        ELSE LET s == CHOOSE s \in S : TRUE
             IN {With(m, s, t) : m \in of[S \ {s}], t \in Denotations(s)}
  IN of[symbols]

(* The values of the quantified variables in scope, innermost first.       *)
Valuations == Seq(AnyName \X Domain)

(* The element that a term denotes, I being the meanings of the symbols    *)
(* and free the values of the variables that are not in scope.             *)
Value(I, free) ==
  LET value[t \in Records] == [scope \in Valuations |->
        IF t.type = "Variable" THEN Find(scope, t.name, free[t.name])
        ELSE I[Symbol(t)][[i \in DOMAIN t.kids |-> value[t.kids[i]][scope]]]]
  IN value

Truth(I, free) ==
  LET truth[f \in Records] == [scope \in Valuations |->
        LET Sub(i) == truth[f.kids[i]][scope]
            Of(d) == truth[f.kids[1]][<<<<f.name, d>>>> \o scope]
        IN CASE f.type \in Predicates -> Value(I, free)[f][scope] = TRUE
             [] f.type = "LogicalConstant" -> f.name = <<"true", 0>>
             [] f.type = "Equal" ->
                  Value(I, free)[f.kids[1]][scope] = Value(I, free)[f.kids[2]][scope]
             [] f.type = "Negation" -> ~ Sub(1)
             [] f.type = "And" -> Sub(1) /\ Sub(2)
             [] f.type = "Or" -> Sub(1) \/ Sub(2)
             [] f.type = "Conditional" -> Sub(1) => Sub(2)
             [] f.type = "Biconditional" -> Sub(1) <=> Sub(2)
             [] f.type = "Universal" -> \A d \in Domain : Of(d)
             [] f.type = "Existential" -> \E d \in Domain : Of(d)
             [] OTHER -> FALSE]
  IN truth

Holds(f, I, free) == Truth(I, free)[f][<<>>]

FreeVariables[f \in Records] ==
  IF f.type = "Variable" THEN {f.name}
  ELSE (UNION {FreeVariables[f.kids[i]] : i \in DOMAIN f.kids})
         \ (IF f.type \in Quantifiers THEN {f.name} ELSE {})

(* Truth of f, its free variables being universal.                         *)
True(f, I) == \A free \in [FreeVariables[f] -> Domain] : Holds(f, I, free)

(* g says what f says: over every interpretation of the symbols of f the   *)
(* two agree, when the symbols that only g has are chosen well.            *)
Expresses(g, f) ==
  LET own == Symbols(f)
      new == Symbols(g) \ own
  IN \A I \in Interpretations(own) :
       True(f, I) <=> \E J \in Interpretations(new) : True(g, Joined(I, J))
=============================================================================
