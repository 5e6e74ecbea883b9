---------------------------- MODULE SymbolTable -----------------------------
(***************************************************************************)
(* logic/src/Symbol.cpp and the semantic checks that the parser makes with *)
(* it (semantic_checks_ok of EqualityPredCalcParser.cpp).  table_ maps a   *)
(* name to its type and number of arguments; scope_ is the stack of the    *)
(* quantifiers being parsed, innermost first, with the number of uses of   *)
(* each variable.  Both are fields of the parser's state st.               *)
(***************************************************************************)
EXTENDS ParserKit, Semantic, SequencesExt, TLC

VariableTypes == {"Variable", "UniversalVariable", "ExistentialVariable"}

Known(st, name) == name \in DOMAIN st.table
Insert(st, name, type, args) ==
  [st EXCEPT !.table = @ @@ (name :> [type |-> type, args |-> args])]

InScope(st, name) == \E i \in DOMAIN st.scope : st.scope[i].name = name
Push(st, name, type) ==
  [st EXCEPT !.scope = <<[name |-> name, type |-> type, used |-> 0]>> \o @]
Pop(st) == [st EXCEPT !.scope = Tail(@)]
Increment(st, name) ==
  LET i == CHOOSE i \in DOMAIN st.scope :
             /\ st.scope[i].name = name
             /\ \A j \in 1 .. i - 1 : st.scope[j].name # name
  IN [st EXCEPT !.scope[i].used = @ + 1]

(* number_of_arguments_ of a record that the parser has made: no           *)
(* constructor and no parse function counts the arguments.                 *)
NumberOfArguments(f) == 0

(* An identifier keeps the one type, and number of arguments, it was first *)
(* seen with.                                                              *)
CheckSymbol(st, f, type, args) ==
  IF ~ Known(st, f.name)
  THEN Match(Insert(st, f.name, type, args), f)
  ELSE IF st.table[f.name] = [type |-> type, args |-> args]
  THEN Match(st, f)
  ELSE Fail("SemanticError", st)

(* Mutant: a variable that was bound once is a variable ever after.        *)
CheckVariable_Known(st, f) ==
  IF Known(st, f.name) /\ st.table[f.name].type \in VariableTypes
  THEN Match(IF InScope(st, f.name) THEN Increment(st, f.name) ELSE st, f)
  ELSE CheckSymbol(st, [f EXCEPT !.type = "Constant"], "Constant", 0)

(* A term without arguments: a variable when a quantifier around it binds  *)
(* it, a constant otherwise.                                               *)
CheckVariable(st, f) ==
  IF InScope(st, f.name)
  THEN IF /\ Known(st, f.name)
          /\ st.table[f.name].type \in VariableTypes \ {"Variable"}
       THEN Match(Increment(st, f.name), f)
       ELSE Fail("SemanticError", st)
  ELSE CheckSymbol(st, [f EXCEPT !.type = "Constant"], "Constant", 0)

(* The start of a quantifier: its variable is new or known as a variable,  *)
(* and not bound around it.                                                *)
BeginQuantifier(st, type, name) ==
  LET symbol == IF type = "Universal" THEN "UniversalVariable"
                ELSE "ExistentialVariable"
      s == IF Known(st, name) THEN st ELSE Insert(st, name, symbol, 0)
  IN IF \/ s.table[name].type \notin VariableTypes
        \/ InScope(s, name)
     THEN Fail("SemanticError", s)
     ELSE Match(Push(s, name, symbol), name)

(* The end of a quantifier: its variable is on top of the scope, and used. *)
EndQuantifier(st, type, name) ==
  LET symbol == IF type = "Universal" THEN "UniversalVariable"
                ELSE "ExistentialVariable"
  IN IF /\ st.scope # <<>>
        /\ Head(st.scope).name = name
        /\ Head(st.scope).type = symbol
        /\ Head(st.scope).used > 0
     THEN Match(Pop(st), name)
     ELSE Fail("SemanticError", st)

(* semantic_checks_ok, unless the semantics are switched off.              *)
Checked(st, f) ==
  CASE ~ st.semantics -> Match(st, f)
    [] f.type = "Variable" -> CheckVariable(st, f)
    [] f.type = "Function" ->
         CheckSymbol(st, f, "Function", NumberOfArguments(f))
    [] f.type = "PredicateFunction" ->
         CheckSymbol(st, f, "PredicateFunction", NumberOfArguments(f))
    [] f.type = "PredicateConstant" ->
         CheckSymbol(st, f, "PredicateConstant", 0)
    [] OTHER -> Match(st, f)

Begin(st, type, name) ==
  IF st.semantics THEN BeginQuantifier(st, type, name) ELSE Match(st, name)
End(st, type, name) ==
  IF st.semantics THEN EndQuantifier(st, type, name) ELSE Match(st, name)
=============================================================================
