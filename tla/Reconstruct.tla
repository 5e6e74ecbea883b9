---------------------------- MODULE Reconstruct -----------------------------
(***************************************************************************)
(* Semantic::reconstruct: the text of a record, as the tokens it is read   *)
(* back with.  Only expressions: the text of the records that mark an      *)
(* argument or give an option is not that of any token sequence the parser *)
(* accepts.                                                                *)
(***************************************************************************)
EXTENDS EqualityParser

T(type) == Token(type, NoName)
Parens(toks) == <<T("LeftParenthesis")>> \o toks \o <<T("RightParenthesis")>>

Operator(type) ==
  CASE type = "Conditional" -> "Implication"
    [] OTHER -> type

RECURSIVE reconstruct(_)
reconstruct(f) ==
  CASE f.type \in Binary ->
         Parens(reconstruct(f.kids[1]) \o <<T(Operator(f.type))>>
                  \o reconstruct(f.kids[2]))
    [] f.type = "Negation" -> <<T("Negation")>> \o reconstruct(f.kids[1])
    [] f.type \in Quantifiers ->
         <<T(f.type)>> \o Parens(<<Token("Identifier", f.name)>>)
           \o Parens(reconstruct(f.kids[1]))
    [] f.type \in {"Function", "PredicateFunction"} ->
         LET AddArg(toks, kid) ==
               IF toks = <<>> THEN reconstruct(kid)
               ELSE toks \o <<T("Comma")>> \o reconstruct(kid)
             name == Token(IF f.type = "Function" THEN "Identifier"
                           ELSE "PIdentifier", f.name)
         IN <<name>> \o Parens(FoldLeft(AddArg, <<>>, f.kids))
    [] f.type = "PredicateConstant" -> <<Token("PIdentifier", f.name)>>
    [] f.type \in {"Constant", "Variable"} -> <<Token("Identifier", f.name)>>
    [] f.type = "LogicalConstant" ->
         <<T(IF f.name = <<"true", 0>> THEN "True" ELSE "False")>>
    [] f.type \in {"Number", "QuotedString"} ->
         <<Token(IF f.type = "Number" THEN "Number" ELSE "String", f.name)>>
    [] OTHER -> <<>>
=============================================================================
