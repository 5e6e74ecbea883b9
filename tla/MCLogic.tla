------------------------------ MODULE MCLogic -------------------------------
(***************************************************************************)
(* Texts for LogicProgram.  With semantics: arguments over a constant A    *)
(* and predicates P and R, with no, one and two quantifiers under every    *)
(* connective, and texts that the semantic checks refuse.  Without, and    *)
(* for the plain parser: every short sequence over a few kinds of token.   *)
(***************************************************************************)
EXTENDS LogicProgram

MCIdentifiers == {"A", "P", "R", "x", "y", "f", "c", "n"}

Name(n) == <<n, 0>>
A == Leaf("PredicateConstant", Name("A"))
Var(v) == Leaf("Variable", Name(v))
P(t) == Semantic("PredicateFunction", Name("P"), <<t>>)
R(t, u) == Semantic("PredicateFunction", Name("R"), <<t, u>>)
For(q, v, f) == Bind(q, Name(v), f)

Connected(F, G) == {Join(op, f, g) : op \in Binary \ {"Equal"}, f \in F, g \in G}
Over(v, F) == {For(q, v, f) : q \in Quantifiers, f \in F}

OneVariable == {P(Var("x")), Not(P(Var("x")))} \cup Connected({P(Var("x"))}, {A})

Nested == Over("x", Over("y", {R(Var("x"), Var("y"))})) \cup
          Over("x", Connected({P(Var("x"))}, Over("y", {R(Var("x"), Var("y"))})))

Small == {A} \cup Over("x", {P(Var("x"))})

Constants ==
  {Leaf("LogicalConstant", Name("true")), Leaf("LogicalConstant", Name("false"))}

Equations ==
  Over("x", Over("y", {Join("Equal", Var("x"), Var("y"))})) \cup
  Over("x", {Join("Equal", Semantic("Function", Name("f"), <<Var("x")>>),
                  Leaf("Constant", Name("c")))})

Formulas ==
  LET base == Over("x", OneVariable) \cup Nested \cup Equations
              \cup Connected(Small, Small) \cup Connected(Constants, {A})
              \cup Connected(Small, Connected(Small, {A}))
  IN base \cup {Not(f) : f \in base}

Ident(n) == Token("Identifier", Name(n))
PIdent(n) == Token("PIdentifier", Name(n))
AllX == <<T("LeftUniversal"), Ident("x"), T("RightUniversal")>>
PX == <<PIdent("P")>> \o Parens(<<Ident("x")>>)

Goal == <<T("SetOfSupport"), T("Therefore"), PIdent("A")>>
Asked == <<T("Query"), PIdent("A")>>
Argue(toks, goal) == WrapTokens(toks \o <<T("Semicolon")>> \o goal)

WithOption ==
  <<T("Options"), T("LeftBrace"), Ident("n"), T("Equal"), T("Number"),
    T("Semicolon"), T("RightBrace")>> \o Argue(AllX \o PX, Asked)

(* A variable unused, bound twice, or free; a name in two roles, or with   *)
(* two numbers of arguments; a quantifier broken off.                      *)
Doubtful ==
  {AllX \o <<PIdent("A")>>,
   AllX \o AllX \o PX,
   AllX \o PX \o <<T("And")>> \o PX,
   PX \o <<T("And")>> \o AllX \o PX,
   PX \o <<T("And"), PIdent("P")>>,
   AllX \o Parens(PX \o <<T("And"), PIdent("P")>> \o
                  Parens(<<Ident("x"), T("Comma"), Ident("x")>>)),
   AllX \o <<PIdent("P")>> \o Parens(<<T("And")>>)}

Sequences_(tokens, n) == UNION {[1 .. k -> tokens] : k \in 0 .. n}

ExprTokens == {PIdent("A"), T("Negation"), T("And"), T("LeftParenthesis"),
               T("RightParenthesis"), Ident("x"), T("Equal")}
LineTokens == {PIdent("A"), T("Comma"), T("Semicolon"), T("Therefore"), T("Query")}
PlainTokens == {PIdent("A"), T("Negation"), T("LeftParenthesis"),
                T("RightParenthesis"), T("Comma"), Ident("x")}
PlainLineTokens == {PIdent("A"), T("Comma"), T("Semicolon"), T("NewLine"),
                    T("Therefore")}

Bare(toks) == <<T("Argument"), T("LeftBrace")>> \o toks
                \o <<T("RightBrace"), T("Quit"), T("Semicolon")>>

MCTexts ==
  TRUE :> ({Argue(reconstruct(f), Goal) : f \in Formulas} \cup {WithOption}
             \cup {WrapTokens(toks) : toks \in Doubtful})
  @@ FALSE :> ({Bare(s) : s \in Sequences_(LineTokens, 4)}
                 \cup {WrapTokens(s) : s \in Sequences_(ExprTokens, 4)})

MCLaterTexts ==
  TRUE :> {Argue(AllX \o PX, Goal)} \cup {WrapTokens(AllX \o <<PIdent("A")>>)}
  @@ FALSE :> {}

MCPlainTexts ==
  LET Close == <<T("Quit"), T("NewLine")>>
  IN {<<T("Therefore")>> \o s \o <<T("Semicolon"), T("NewLine")>> \o Close :
        s \in Sequences_(PlainTokens, 4)}
     \cup {s \o Close : s \in Sequences_(PlainLineTokens, 5)}

(* Characters: what the symbols are made of, what tells words, numbers and *)
(* spaces apart, and the words of the language with a neighbour.           *)
SymbolChars == {"<", "-", ">", "|", "&", "1"}
WordChars == {"a", "A", "1", "-", "!", "=", "?", " ", "#", "\n"}
Spellings == {w[1] : w \in ToSet(Words(TRUE)) \cup ToSet(Words(FALSE))}
Capital(w) == <<Upper[CHOOSE i \in 1 .. 26 : Lower[i] = tolower(w[1])]>> \o Tail(w)

MCCharTexts ==
  Sequences_(SymbolChars, 5) \cup Sequences_(WordChars, 4)
    \cup {<<c>> \o w : c \in {" ", "1"}, w \in Spellings}
    \cup {Capital(w) \o <<c>> : c \in {" ", "x", ";"}, w \in Spellings}
    \cup {<<"a">> \o w \o <<"(", "a", ",", "A", ")", "~", "[", "]", "{", "}">> :
             w \in Spellings}
=============================================================================
