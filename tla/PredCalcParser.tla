--------------------------- MODULE PredCalcParser ---------------------------
(***************************************************************************)
(* PredCalcParser.cpp: the recognizer for predicate calculus without       *)
(* equality, one operator per parse function, with its name.  It keeps no  *)
(* records, only the tokens still to be read and quit_.                    *)
(***************************************************************************)
EXTENDS ParserKit

Done(st) == Match(st, <<>>)
Optional(r) == Else(r, LAMBDA s : Done(s))
Seq2(r, K(_)) == Then(r, LAMBDA s, v : K(s))
NotAtEnd(st, r) == IF AtEnd(st) THEN Fail("EndOfProgram", st) ELSE r

RECURSIVE Call(_, _)

parse_separator(st) == Accept(st, "Comma")
parse_newline(st) == Accept(st, "NewLine")
(* Mutant: the line need not end after its semicolon.                      *)
parse_linesynch_NoLine(st) == Accept(st, "Semicolon")

parse_linesynch(st) ==
  Seq2(Shift(st, "Semicolon"), LAMBDA s : Need(parse_newline(s)))

parse_constant(st) ==
  Else(Accept(st, "String"), LAMBDA s : Accept(s, "Number"))

parse_arg(st) == Call("term", st)

parse_arglist(st) ==
  Seq2(parse_arg(st), LAMBDA s : Optional(Call("arglist_tail", s)))
parse_arglist_tail(st) ==
  Seq2(parse_separator(st), LAMBDA s :
  Seq2(Need(parse_arg(s)), LAMBDA s1 :
    NotAtEnd(s1, Optional(Call("arglist_tail", s1)))))

parse_variable_function_tail(st) ==
  Seq2(Shift(st, "LeftParenthesis"), LAMBDA s :
  Seq2(Need(Call("arglist", s)), LAMBDA s1 :
    Need(Accept(s1, "RightParenthesis"))))

parse_variable_function(st) ==
  Seq2(Shift(st, "Identifier"),
       LAMBDA s : Optional(parse_variable_function_tail(s)))

parse_term(st) ==
  Else(parse_constant(st), LAMBDA s : parse_variable_function(s))

parse_predicate_suffix(st) ==
  Seq2(Shift(st, "LeftParenthesis"), LAMBDA s :
  Seq2(IF AllowEmptyArglist THEN Optional(Call("arglist", s))
       ELSE Need(Call("arglist", s)), LAMBDA s1 :
    Need(Accept(s1, "RightParenthesis"))))

parse_predicate(st) ==
  Seq2(Shift(st, "PIdentifier"),
       LAMBDA s : Optional(parse_predicate_suffix(s)))

parse_atom(st) ==
  LET Group(s) ==
        Seq2(Shift(s, "LeftParenthesis"), LAMBDA s1 :
        Seq2(Need(Call("expression", s1)), LAMBDA s2 :
          Need(Shift(s2, "RightParenthesis"))))
  IN Else(parse_predicate(st), LAMBDA t :
     Else(Shift(t, "True"), LAMBDA t1 :
     Else(Shift(t1, "False"), LAMBDA t2 : Group(t2))))

QuantifierName(st, open, close) ==
  Seq2(Shift(st, open), LAMBDA s :
  Seq2(Need(Shift(s, "Identifier")), LAMBDA s1 : Need(Shift(s1, close))))

parse_universal(st) == QuantifierName(st, "LeftUniversal", "RightUniversal")
parse_existential(st) ==
  QuantifierName(st, "LeftExistential", "RightExistential")

parse_unary(st) ==
  LET Prefixed(r) == Seq2(r, LAMBDA s : Need(Call("unary", s)))
  IN Else(Call("atom", st), LAMBDA t :
     Else(Prefixed(Shift(t, "Negation")), LAMBDA t1 :
     Else(Prefixed(parse_universal(t1)), LAMBDA t2 :
       Prefixed(parse_existential(t2)))))

(* An operator and its right side, then the rest of the chain.             *)
Rest(st, op, side, tail) ==
  Seq2(Shift(st, op), LAMBDA s :
  Seq2(Need(Call(side, s)), LAMBDA s1 :
    NotAtEnd(s1, Optional(Call(tail, s1)))))

parse_and_tail(st) == Rest(st, "And", "unary", "and_tail")
parse_and(st) ==
  Seq2(Call("unary", st),
       LAMBDA s : NotAtEnd(s, Optional(Call("and_tail", s))))

parse_or_tail(st) == Rest(st, "Or", "and", "or_tail")
parse_or(st) ==
  Seq2(Call("and", st), LAMBDA s : NotAtEnd(s, Optional(Call("or_tail", s))))

parse_implication_tail(st) ==
  Rest(st, "Implication", "or", "implication_tail")
parse_implication(st) ==
  Seq2(Call("or", st),
       LAMBDA s : NotAtEnd(s, Optional(Call("implication_tail", s))))

parse_biconditional_tail(st) ==
  Rest(st, "Biconditional", "implication", "biconditional_tail")
parse_biconditional(st) ==
  Seq2(Call("implication", st),
       LAMBDA s : NotAtEnd(s, Optional(Call("biconditional_tail", s))))

parse_expression(st) == NotAtEnd(st, Call("biconditional", st))
-----------------------------------------------------------------------------
parse_separator_expressionlist_tail(st) ==
  Seq2(parse_separator(st), LAMBDA s :
  Seq2(Need(Call("expression", s)), LAMBDA s1 :
    NotAtEnd(s1, Optional(Call("separator_expressionlist_tail", s1)))))
parse_separator_expressionlist(st) ==
  Seq2(Call("expression", st), LAMBDA s :
    NotAtEnd(s, Optional(Call("separator_expressionlist_tail", s))))

parse_expressionlist_tail(st) ==
  Seq2(Call("separator_expressionlist", st), LAMBDA s :
  Seq2(Need(parse_linesynch(s)), LAMBDA s1 :
    NotAtEnd(s1, Optional(Call("expressionlist_tail", s1)))))
parse_expressionlist(st) ==
  Seq2(Call("separator_expressionlist", st), LAMBDA s :
  Seq2(Need(parse_linesynch(s)), LAMBDA s1 :
    NotAtEnd(s1, Optional(Call("expressionlist_tail", s1)))))

parse_conclusion(st) ==
  Seq2(Shift(st, "Therefore"), LAMBDA s : Need(Call("expression", s)))

parse_start_quit_tail(st) ==
  Else(parse_newline(st), LAMBDA s : parse_linesynch(s))

(* A conclusion, expressions and a conclusion, an empty line, or QUIT.     *)
parse_start(st) ==
  LET Ended(r) == Seq2(r, LAMBDA s : Need(parse_linesynch(s)))
      Argued(s) == Seq2(Call("expressionlist", s),
                        LAMBDA s1 : Ended(Need(parse_conclusion(s1))))
      Quit(s) ==
        Seq2(Shift(s, "Quit"), LAMBDA s1 :
          Need(parse_start_quit_tail([s1 EXCEPT !.quit = TRUE])))
  IN NotAtEnd(st,
       Else(Ended(parse_conclusion(st)), LAMBDA t :
       Else(Argued(t), LAMBDA t1 :
       Else(parse_newline(t1), LAMBDA t2 : Quit(t2)))))

(* The parse functions that call each other, by the name after parse_.     *)
Call(f, st) ==
  CASE f = "arglist" -> parse_arglist(st)
    [] f = "arglist_tail" -> parse_arglist_tail(st)
    [] f = "term" -> parse_term(st)
    [] f = "atom" -> parse_atom(st)
    [] f = "unary" -> parse_unary(st)
    [] f = "and" -> parse_and(st)
    [] f = "and_tail" -> parse_and_tail(st)
    [] f = "or" -> parse_or(st)
    [] f = "or_tail" -> parse_or_tail(st)
    [] f = "implication" -> parse_implication(st)
    [] f = "implication_tail" -> parse_implication_tail(st)
    [] f = "biconditional" -> parse_biconditional(st)
    [] f = "biconditional_tail" -> parse_biconditional_tail(st)
    [] f = "expression" -> parse_expression(st)
    [] f = "separator_expressionlist" -> parse_separator_expressionlist(st)
    [] f = "separator_expressionlist_tail" ->
         parse_separator_expressionlist_tail(st)
    [] f = "expressionlist" -> parse_expressionlist(st)
    [] f = "expressionlist_tail" -> parse_expressionlist_tail(st)
    [] f = "start" -> parse_start(st)

RECURSIVE UntilQuit(_)
UntilQuit(st) ==
  LET r == Call("start", [st EXCEPT !.quit = FALSE])
  IN IF r.ret = "Match" /\ ~ r.st.quit THEN UntilQuit(r.st) ELSE r

(* parse takes an empty text for a program; any other must come to QUIT.   *)
parse(toks) ==
  LET st == [toks |-> toks, quit |-> FALSE]
  IN IF toks = <<>> THEN Done([st EXCEPT !.quit = TRUE]) ELSE UntilQuit(st)
=============================================================================
