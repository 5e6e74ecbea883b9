----------------------------- MODULE ParserKit ------------------------------
(***************************************************************************)
(* How the recursive-descent parsers of logic/src put their functions      *)
(* together.  A parse function takes the parser's state and returns        *)
(* [ret, st, val]: the ReturnType of the code, the state it leaves and     *)
(* what it hands back in its ParseFrame.  The switch on the ReturnType     *)
(* that follows every call is one of Then, Need and Else.                  *)
(***************************************************************************)
EXTENDS Naturals, Sequences

CONSTANT AllowEmptyArglist      \* allow_empty_arglist_: P() is a predicate

Token(type, value) == [type |-> type, value |-> value]

Match(st, val) == [ret |-> "Match", st |-> st, val |-> val]
NoMatch(st) == [ret |-> "NoMatch", st |-> st, val |-> <<>>]
Fail(error, st) == [ret |-> error, st |-> st, val |-> <<>>]

(* case NoMatch: return NoMatch; default: return retval.                   *)
Then(r, K(_, _)) == IF r.ret = "Match" THEN K(r.st, r.val) ELSE r

(* case NoMatch: ERRORRETURN(SyntaxError).                                 *)
Need(r) == IF r.ret = "NoMatch" THEN Fail("SyntaxError", r.st) ELSE r

(* case NoMatch: go on with what else it can be.                           *)
Else(r, K(_)) == IF r.ret = "NoMatch" THEN K(r.st) ELSE r

(* is_end_of_program, currentType, currentValue, advanceToNextToken.       *)
AtEnd(st) == st.toks = <<>>
CurrentType(st) == IF AtEnd(st) THEN "EndOfProgram" ELSE Head(st.toks).type
CurrentValue(st) == Head(st.toks).value
Advance(st) == [st EXCEPT !.toks = IF AtEnd(st) THEN @ ELSE Tail(@)]

(* The token `type` here, or NoMatch; the end of the program is an error   *)
(* before it and, when more must follow, after it.                         *)
Accept(st, type) ==
  IF AtEnd(st) THEN Fail("EndOfProgram", st)
  ELSE IF CurrentType(st) # type THEN NoMatch(st)
  ELSE Match(Advance(st), CurrentValue(st))

Shift(st, type) ==
  Then(Accept(st, type),
       LAMBDA s, v : IF AtEnd(s) THEN Fail("EndOfProgram", s)
                     ELSE Match(s, v))
=============================================================================
