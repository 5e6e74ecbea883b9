--------------------------- MODULE EqualityParser ---------------------------
(***************************************************************************)
(* EqualityPredCalcParser.cpp, one operator per parse function, with its   *)
(* name.  The state st is the tokens still to be read (toks), the symbol   *)
(* table and scope, the records inserted into program_ so far (list), the  *)
(* logic type (logic), quit_ and enable_semantics_ (semantics).            *)
(***************************************************************************)
EXTENDS SymbolTable

InsertEntry(st, f, flag, sos) ==
  IF st.semantics
  THEN [st EXCEPT !.list = Append(@, Entry(f, flag, sos))]
  ELSE st

RaiseLogic(st, logic) ==
  IF st.semantics THEN [st EXCEPT !.logic = logic] ELSE st

RECURSIVE Call(_, _)

parse_separator(st) == Accept(st, "Comma")
parse_linesynch(st) == Accept(st, "Semicolon")

(* Identifiers, strings and numbers; a call of a function.                 *)
parse_constant(st) ==
  IF AtEnd(st) THEN Fail("EndOfProgram", st)
  ELSE CASE CurrentType(st) = "String" ->
              Match(Advance(st), Leaf("QuotedString", CurrentValue(st)))
         [] CurrentType(st) = "Number" ->
              Match(Advance(st), Leaf("Number", CurrentValue(st)))
         [] OTHER -> NoMatch(st)

parse_arg(st) == Call("term", st)

parse_arglist(st) ==
  Then(parse_arg(st), LAMBDA s, arg :
    LET rest == Call("arglist_tail", s)
    IN Then(Else(rest, LAMBDA s1 : Match(s1, <<>>)),
            LAMBDA s2, args : Match(s2, <<arg>> \o args)))

parse_arglist_tail(st) ==
  Then(parse_separator(st), LAMBDA s, comma :
  Then(Need(parse_arg(s)), LAMBDA s1, arg :
    IF AtEnd(s1) THEN Fail("EndOfProgram", s1)
    ELSE Then(Else(Call("arglist_tail", s1), LAMBDA s2 : Match(s2, <<>>)),
              LAMBDA s3, args : Match(s3, <<arg>> \o args))))

parse_variable_function_tail(st) ==
  Then(Shift(st, "LeftParenthesis"), LAMBDA s, paren :
  Then(Need(Call("arglist", s)), LAMBDA s1, args :
  Then(Need(Accept(s1, "RightParenthesis")), LAMBDA s2, close :
    Match(s2, args))))

parse_variable_function(st) ==
  Then(Shift(st, "Identifier"), LAMBDA s, name :
    LET call == parse_variable_function_tail(s)
    IN IF call.ret = "NoMatch" THEN Checked(s, Leaf("Variable", name))
       ELSE Then(call, LAMBDA s1, args :
                   Checked(s1, Semantic("Function", name, args))))

parse_term(st) ==
  Else(parse_constant(st), LAMBDA s : parse_variable_function(s))

(* PIDENTIFIER with or without arguments; two terms and = or its negation. *)
parse_predicate_identifier_tail(st) ==
  Then(Shift(st, "LeftParenthesis"), LAMBDA s, paren :
  Then(IF AllowEmptyArglist
       THEN Else(Call("arglist", s), LAMBDA s0 : Match(s0, <<>>))
       ELSE Need(Call("arglist", s)), LAMBDA s1, args :
  Then(Need(Accept(s1, "RightParenthesis")), LAMBDA s2, close :
    Match(s2, args))))

parse_predicate_term_tail(st) ==
  LET Side(type) ==
        Then(Shift(st, type), LAMBDA s, op :
        Then(Need(Call("term", s)), LAMBDA s1, right :
          Match(RaiseLogic(s1, "PredicateWithEquality"),
                [op |-> type, right |-> right])))
  IN Else(Side("Equal"), LAMBDA s : Side("NotEqual"))

parse_predicate(st) ==
  IF AtEnd(st) THEN Fail("EndOfProgram", st)
  ELSE IF CurrentType(st) = "PIdentifier"
  THEN Then(Shift(st, "PIdentifier"), LAMBDA s, name :
         LET call == parse_predicate_identifier_tail(s)
         IN IF call.ret = "NoMatch"
            THEN Checked(s, Leaf("PredicateConstant", name))
            ELSE Then(call, LAMBDA s1, args :
                   Checked(s1, Semantic("PredicateFunction", name, args))))
  ELSE Then(Call("term", st), LAMBDA s, left :
       Then(Need(parse_predicate_term_tail(s)), LAMBDA s1, tail :
         LET equal == Join("Equal", left, tail.right)
         IN Match(s1, IF tail.op = "Equal" THEN equal ELSE Not(equal))))

parse_atom(st) ==
  LET Other(s) ==
        CASE CurrentType(s) = "True" ->
               Match(Advance(s), Leaf("LogicalConstant", <<"true", 0>>))
          [] CurrentType(s) = "False" ->
               Match(Advance(s), Leaf("LogicalConstant", <<"false", 0>>))
          [] OTHER ->
               Then(Shift(s, "LeftParenthesis"), LAMBDA s1, paren :
               Then(Need(Call("expression", s1)), LAMBDA s2, f :
               Then(Need(Accept(s2, "RightParenthesis")), LAMBDA s3, close :
                 Match(s3, f))))
  IN Else(parse_predicate(st), Other)
-----------------------------------------------------------------------------
(* A quantifier: its brackets, or its word and parentheses, around a name. *)
QuantifierName(st, open, close) ==
  Then(Shift(st, open), LAMBDA s, left :
  Then(Need(Shift(s, "Identifier")), LAMBDA s1, name :
  Then(Need(Accept(s1, close)), LAMBDA s2, right :
    Match(IF s2.logic \in {"Unknown", "Propositional"}
          THEN RaiseLogic(s2, "Predicate") ELSE s2, name))))

QuantifierWord(st, word) ==
  Then(Shift(st, word), LAMBDA s, w :
    Need(QuantifierName(s, "LeftParenthesis", "RightParenthesis")))

parse_universal(st) ==
  Else(QuantifierName(st, "LeftUniversal", "RightUniversal"),
       LAMBDA s : QuantifierWord(s, "Universal"))

parse_existential(st) ==
  Else(QuantifierName(st, "LeftExistential", "RightExistential"),
       LAMBDA s : QuantifierWord(s, "Existential"))

(* The record of a quantifier is made and checked before its body is       *)
(* parsed, and checked once more when the body is there.                   *)
parse_unary(st) ==
  LET Quantified(r, type) ==
        Then(r, LAMBDA s, name :
        Then(Begin(s, type, name), LAMBDA s1, n1 :
        Then(Need(Call("unary", s1)), LAMBDA s2, body :
        Then(End(s2, type, name), LAMBDA s3, n2 :
          Match(s3, Bind(type, name, body))))))
      Negated(s) ==
        Then(Shift(s, "Negation"), LAMBDA s1, op :
        Then(Need(Call("unary", s1)), LAMBDA s2, f : Match(s2, Not(f))))
  IN Else(Call("atom", st), LAMBDA t :
     Else(Negated(t), LAMBDA t1 :
     Else(Quantified(parse_universal(t1), "Universal"), LAMBDA t2 :
       Quantified(parse_existential(t2), "Existential"))))

(* Mutant: the operands change places.                                     *)
Chain_Swapped(type, left, s, tail) ==
  IF tail.ret = "NoMatch" THEN Match(s, left)
  ELSE Then(tail, LAMBDA s1, right : Match(s1, Join(type, right, left)))

(* Mutant: the record of the operator does not get its left operand.       *)
Chain_LeftLost(type, left, s, tail) ==
  IF tail.ret = "NoMatch" THEN Match(s, left)
  ELSE Then(tail, LAMBDA s1, right : Match(s1, Semantic(type, NoName, <<right>>)))

(* left, or the operator `type` between left and what its tail has found.  *)
Chain(type, left, s, tail) ==
  IF tail.ret = "NoMatch" THEN Match(s, left)
  ELSE Then(tail, LAMBDA s1, right : Match(s1, Join(type, left, right)))

Unless(s, r) == IF AtEnd(s) THEN Fail("EndOfProgram", s) ELSE r

parse_and(st) ==
  Then(Call("unary", st), LAMBDA s, left :
    Chain("And", left, s, Call("and_tail", s)))
parse_and_tail(st) ==
  Then(Shift(st, "And"), LAMBDA s, op :
  Then(Need(Call("unary", s)), LAMBDA s1, left :
    Unless(s1, Chain("And", left, s1, Call("and_tail", s1)))))

parse_or(st) ==
  Then(Call("and", st), LAMBDA s, left :
    Chain("Or", left, s, Call("or_tail", s)))
parse_or_tail(st) ==
  Then(Shift(st, "Or"), LAMBDA s, op :
  Then(Need(Call("and", s)), LAMBDA s1, left :
    Chain("Or", left, s1, Call("or_tail", s1))))

parse_implication(st) ==
  Then(Call("or", st), LAMBDA s, left :
    Unless(s, Chain("Conditional", left, s, Call("implication_tail", s))))
parse_implication_tail(st) ==
  Then(Shift(st, "Implication"), LAMBDA s, op :
  Then(Need(Call("or", s)), LAMBDA s1, left :
    Unless(s1, Chain("Conditional", left, s1, Call("implication_tail", s1)))))

parse_biconditional(st) ==
  Then(Call("implication", st), LAMBDA s, left :
    Unless(s, Chain("Biconditional", left, s, Call("biconditional_tail", s))))
parse_biconditional_tail(st) ==
  Then(Shift(st, "Biconditional"), LAMBDA s, op :
  Then(Need(Call("implication", s)), LAMBDA s1, left :
    Chain("Biconditional", left, s1, Call("biconditional_tail", s1))))

parse_expression(st) ==
  Unless(st, Call("biconditional", st))
-----------------------------------------------------------------------------
(* Then(...) with NoMatch of the rest counted as a match.                  *)
Optional(r) == Else(r, LAMBDA s : Match(s, <<>>))

parse_option_types(st) ==
  Else(Accept(st, "String"), LAMBDA s :
  Else(Accept(s, "Number"), LAMBDA s1 : Accept(s1, "NegativeNumber")))

parse_options(st) ==
  Then(Shift(st, "Options"), LAMBDA s, word : Need(Shift(s, "LeftBrace")))

parse_optionslist_tail(st) == Call("optionslist", st)

parse_optionslist(st) ==
  Then(Shift(st, "Identifier"), LAMBDA s, name :
  Then(Need(Shift(s, "Equal")), LAMBDA s1, op :
  Then(Need(parse_option_types(s1)), LAMBDA s2, value :
    LET s3 == InsertEntry(s2, Leaf("Option", name), "none", FALSE)
    IN Then(Need(parse_linesynch(s3)), LAMBDA s4, sync :
         Optional(parse_optionslist_tail(s4))))))

parse_argument(st) ==
  Then(Shift(st, "Argument"), LAMBDA s, word : Need(Accept(s, "LeftBrace")))

parse_sos_option(st) == Accept(st, "SetOfSupport")

(* Mutant: only a conclusion is looked for, not a query.                   *)
parse_conclusiontype_NoQuery(st) ==
  Then(Shift(st, "Therefore"), LAMBDA s, op :
  Then(Need(Call("expression", s)), LAMBDA s1, f :
    Match(s1, [f |-> f, flag |-> "conclusion"])))

parse_conclusiontype(st) ==
  LET Side(type, flag) ==
        Then(Shift(st, type), LAMBDA s, op :
        Then(Need(Call("expression", s)), LAMBDA s1, f :
          Match(s1, [f |-> f, flag |-> flag])))
  IN Else(Side("Therefore", "conclusion"), LAMBDA s : Side("Query", "query"))

(* A set-of-support mark that no conclusion follows is read, and lost.     *)
parse_sosconclusionlist(st) ==
  LET mark == parse_sos_option(st)
      sos == mark.ret = "Match"
  IN Then(Optional(mark), LAMBDA s, m :
     Then(parse_conclusiontype(s), LAMBDA s1, c :
     Then(Need(parse_linesynch(InsertEntry(s1, c.f, c.flag, sos))),
          LAMBDA s2, sync : Optional(Call("sosconclusionlist", s2)))))

parse_separator_expressionlist_tail(st) ==
  Then(parse_separator(st), LAMBDA s, comma :
  Then(Need(Call("expression", s)), LAMBDA s1, f :
    Optional(Call("separator_expressionlist_tail",
         InsertEntry(s1, f, "none", FALSE)))))

parse_separator_expressionlist(st) ==
  Then(Call("expression", st), LAMBDA s, f :
    Optional(Call("separator_expressionlist_tail",
         InsertEntry(s, f, "none", FALSE))))

parse_expressionlist_tail(st) ==
  Then(Call("separator_expressionlist", st), LAMBDA s, l :
  Then(Need(parse_linesynch(s)), LAMBDA s1, sync :
    Optional(Call("expressionlist_tail", s1))))

parse_expressionlist(st) ==
  Then(Call("separator_expressionlist", st), LAMBDA s, l :
  Then(Need(parse_linesynch(s)), LAMBDA s1, sync :
    Optional(Call("expressionlist_tail", s1))))

(* QUIT and its semicolon; quit_ stays set when the semicolon is missing.  *)
Quit(st) ==
  LET s == [Advance(st) EXCEPT !.quit = TRUE]
  IN IF AtEnd(s) THEN Fail("EndOfProgram", s) ELSE Need(parse_linesynch(s))

Argument(st) ==
  LET s0 == InsertEntry(st, Mark("StartArgument"), "none", FALSE)
  IN Then(Optional(Call("expressionlist", s0)), LAMBDA s, l :
     Then(Optional(Call("sosconclusionlist", s)), LAMBDA s1, c :
     Then(Need(Shift(s1, "RightBrace")), LAMBDA s2, close :
       Optional(Call("start",
         InsertEntry(s2, Mark("EndArgument"), "none", FALSE))))))

OptionBlock(st) ==
  Then(Optional(Call("optionslist", st)), LAMBDA s, l :
  Then(Need(Accept(s, "RightBrace")), LAMBDA s1, close :
    Optional(Call("start", s1))))

parse_start(st) ==
  IF AtEnd(st) THEN Fail("EndOfProgram", st)
  ELSE IF CurrentType(st) = "Quit" THEN Quit(st)
  ELSE LET argument == parse_argument(st)
       IN IF argument.ret = "NoMatch"
          THEN Then(parse_options(argument.st),
                    LAMBDA s, l : OptionBlock(s))
          ELSE Then(argument, LAMBDA s, l : Argument(s))

(* The parse functions that call each other, by the name after parse_.     *)
Call(f, st) ==
  CASE f = "arglist" -> parse_arglist(st)
    [] f = "arglist_tail" -> parse_arglist_tail(st)
    [] f = "term" -> parse_term(st)
    [] f = "atom" -> parse_atom(st)
    [] f = "unary" -> parse_unary(st)
    [] f = "and" -> parse_and(st)
    [] f = "and_tail" -> parse_and_tail(st)
    [] f = "or" -> parse_or(st)
    [] f = "or_tail" -> parse_or_tail(st)
    [] f = "implication" -> parse_implication(st)
    [] f = "implication_tail" -> parse_implication_tail(st)
    [] f = "biconditional" -> parse_biconditional(st)
    [] f = "biconditional_tail" -> parse_biconditional_tail(st)
    [] f = "expression" -> parse_expression(st)
    [] f = "optionslist" -> parse_optionslist(st)
    [] f = "sosconclusionlist" -> parse_sosconclusionlist(st)
    [] f = "separator_expressionlist" -> parse_separator_expressionlist(st)
    [] f = "separator_expressionlist_tail" ->
         parse_separator_expressionlist_tail(st)
    [] f = "expressionlist" -> parse_expressionlist(st)
    [] f = "expressionlist_tail" -> parse_expressionlist_tail(st)
    [] f = "start" -> parse_start(st)

(* parse_start until it fails or has read QUIT.                            *)
RECURSIVE UntilQuit(_)
UntilQuit(st) ==
  LET r == Call("start", [st EXCEPT !.quit = FALSE])
  IN IF r.ret = "Match" /\ ~ r.st.quit THEN UntilQuit(r.st) ELSE r

(* Mutant: Symbol::clear_scope is forgotten.                               *)
Cleared_KeepScope(st) ==
  [st EXCEPT !.list = <<>>, !.table = <<>>, !.logic = "Unknown",
             !.quit = FALSE]

(* parse clears program_, Symbol's table and its scope, whatever the last  *)
(* call has left in them.  It succeeds when QUIT was read.                 *)
Cleared(st) ==
  [st EXCEPT !.list = <<>>, !.table = <<>>, !.scope = <<>>,
             !.logic = "Unknown", !.quit = FALSE]

parse(st) ==
  LET s == Cleared(st)
  IN IF AtEnd(s) THEN Fail("EndOfProgram", s) ELSE UntilQuit(s)

NewParser(semantics) ==
  [toks |-> <<>>, list |-> <<>>, table |-> <<>>, scope |-> <<>>,
   logic |-> "Unknown", quit |-> FALSE, semantics |-> semantics]
=============================================================================
