---------------------------- MODULE LogicGrammar ----------------------------
(***************************************************************************)
(* The languages of the two parsers of logic/src, as the grammars at the   *)
(* head of EqualityPredCalcParser.h and PredCalcParser.h give them: which  *)
(* sequences of token types are a program; P() is one of the predicates    *)
(* when the parser is told to allow it.  A rule with left recursion is  *)
(* a split of the sequence at some token.  This is the reference that the  *)
(* parse functions are compared with; it models no code.                   *)
(* The lexicon is that of the comments in the two Tokenizer.h, where two   *)
(* things are as the code has them: a word of the language begins wherever *)
(* its letters stand, and strings are left out.                            *)
(***************************************************************************)
EXTENDS ParserKit, Tokenizer

(* s is parts that Part accepts, with the tokens sep between them.         *)
Separated(s, sep, Part(_)) ==
  \E cuts \in SUBSET {i \in DOMAIN s :
                       IsPrefix(sep, SubSeq(s, i, Len(s)))} :
    LET b == <<1 - Len(sep)>> \o SetToSortSeq(cuts, <) \o <<Len(s) + 1>>
    IN \A i \in 1 .. Len(b) - 1 :
         Part(SubSeq(s, b[i] + Len(sep), b[i + 1] - 1))

(* Zero or more lines that Line accepts, the tokens end after each.        *)
AreLines(s, end, Line(_)) ==
  \/ s = <<>>
  \/ /\ IsSuffix(end, s)
     /\ Separated(SubSeq(s, 1, Len(s) - Len(end)), end, Line)

Between(s, open, close, Inner(_)) ==
  /\ Len(s) >= 2
  /\ s[1] = open
  /\ s[Len(s)] = close
  /\ Inner(SubSeq(s, 2, Len(s) - 1))

RECURSIVE IsTerm(_)
IsArguments(s) == Separated(s, <<"Comma">>, IsTerm)
IsTerm(s) ==
  \/ s \in {<<"String">>, <<"Number">>, <<"Identifier">>}
  \/ /\ s # <<>>
     /\ s[1] = "Identifier"
     /\ Between(Tail(s), "LeftParenthesis", "RightParenthesis", IsArguments)

IsEquation(s, op) ==
  \E i \in DOMAIN s : /\ s[i] = op
                      /\ IsTerm(SubSeq(s, 1, i - 1))
                      /\ IsTerm(SubSeq(s, i + 1, Len(s)))

IsPredicate(s, equality) ==
  \/ s = <<"PIdentifier">>
  \/ /\ s # <<>>
     /\ s[1] = "PIdentifier"
     /\ Between(Tail(s), "LeftParenthesis", "RightParenthesis",
                LAMBDA p : \/ AllowEmptyArglist /\ p = <<>>
                           \/ IsArguments(p))
  \/ /\ equality
     /\ \/ IsEquation(s, "Equal")
        \/ IsEquation(s, "NotEqual")

(* The quantifiers: in brackets, and with equality also as a word.         *)
QuantifierForms(equality) ==
  {<<"LeftUniversal", "Identifier", "RightUniversal">>,
   <<"LeftExistential", "Identifier", "RightExistential">>} \cup
  IF equality
  THEN {<<w, "LeftParenthesis", "Identifier", "RightParenthesis">> :
          w \in {"Universal", "Existential"}}
  ELSE {}

Connectives == <<<<"Biconditional">>, <<"Implication">>, <<"Or">>, <<"And">>>>

(* An expression whose loosest operator is Connectives[level] or binds     *)
(* more tightly; level 5 is unary.                                         *)
RECURSIVE IsLevel(_, _, _)
IsLevel(s, level, equality) ==
  IF level <= 4
  THEN Separated(s, Connectives[level],
                 LAMBDA p : IsLevel(p, level + 1, equality))
  ELSE \/ IsPredicate(s, equality)
       \/ s \in {<<"True">>, <<"False">>}
       \/ Between(s, "LeftParenthesis", "RightParenthesis",
                  LAMBDA p : IsLevel(p, 1, equality))
       \/ /\ s # <<>>
          /\ s[1] = "Negation"
          /\ IsLevel(Tail(s), 5, equality)
       \/ \E q \in QuantifierForms(equality) :
            /\ IsPrefix(q, s)
            /\ IsLevel(SubSeq(s, Len(q) + 1, Len(s)), 5, equality)

IsExpression(s, equality) == IsLevel(s, 1, equality)

IsExpressions(s, equality) ==
  Separated(s, <<"Comma">>, LAMBDA p : IsExpression(p, equality))

(* A conclusion or a query, with or without a mark of its set of support.  *)
IsConclusion(s, equality) ==
  /\ s # <<>>
  /\ \/ /\ s[1] = "Therefore"
        /\ IsExpression(Tail(s), equality)
     \/ /\ equality
        /\ \/ /\ s[1] = "Query"
              /\ IsExpression(Tail(s), equality)
           \/ /\ s[1] = "SetOfSupport"
              /\ Len(s) > 1
              /\ s[2] \in {"Therefore", "Query"}
              /\ IsExpression(SubSeq(s, 3, Len(s)), equality)

(* What stands between the braces of an argument.                          *)
IsArgumentBody(s) ==
  \E i \in 0 .. Len(s) :
    /\ AreLines(SubSeq(s, 1, i), <<"Semicolon">>,
                LAMBDA p : IsExpressions(p, TRUE))
    /\ AreLines(SubSeq(s, i + 1, Len(s)), <<"Semicolon">>,
                LAMBDA p : IsConclusion(p, TRUE))

(* A program of the plain calculus before its QUIT: empty lines, and       *)
(* arguments of expressions and one conclusion.                            *)
LineEnd == <<"Semicolon", "NewLine">>

RECURSIVE IsPlainBody(_)
IsPlainBody(s) ==
  \/ s = <<>>
  \/ s[1] = "NewLine" /\ IsPlainBody(Tail(s))
  \/ \E i, j \in 0 .. Len(s) :
       /\ i < j
       /\ AreLines(SubSeq(s, 1, i), LineEnd,
                   LAMBDA p : IsExpressions(p, FALSE))
       /\ j + 1 < Len(s)
       /\ SubSeq(s, j + 1, j + 2) = LineEnd
       /\ IsConclusion(SubSeq(s, i + 1, j), FALSE)
       /\ IsPlainBody(SubSeq(s, j + 3, Len(s)))

(* The spellings of the symbols of each tokenizer.                         *)
PlainSymbols ==
  <<"|", "-">> :> "Therefore" @@ <<"<", "-", "-", ">">> :> "Biconditional" @@
  <<"-", "-", ">">> :> "Implication" @@ <<"|", "|">> :> "Or" @@
  <<"&", "&">> :> "And" @@ <<"~">> :> "Negation" @@
  <<"(">> :> "LeftParenthesis" @@ <<")">> :> "RightParenthesis" @@
  <<",">> :> "Comma" @@ <<";">> :> "Semicolon" @@
  <<"<">> :> "LeftUniversal" @@ <<">">> :> "RightUniversal" @@
  <<"[">> :> "LeftExistential" @@ <<"]">> :> "RightExistential"

EqualitySymbols ==
  PlainSymbols @@ <<"?", "-">> :> "Query" @@ <<"!">> :> "Negation" @@
  <<"!", "=">> :> "NotEqual" @@ <<"=">> :> "Equal" @@
  <<"{">> :> "LeftBrace" @@ <<"}">> :> "RightBrace"

(* The types of which w is a lexeme.                                       *)
LexemeTypes(w, equality) ==
  LET symbols == IF equality THEN EqualitySymbols
                 ELSE <<"\n">> :> "NewLine" @@ PlainSymbols
      AllIn(S) == \A i \in DOMAIN w : w[i] \in S
  IN {symbols[x] : x \in DOMAIN symbols \cap {w}}
       \cup {type \in {"Identifier"} :
               w[1] \in ToSet(Lower) /\ AllIn(Alphanumeric)}
       \cup {type \in {"PIdentifier"} :
               w[1] \in ToSet(Upper) /\ AllIn(Alphanumeric)}
       \cup {type \in {"Number"} : AllIn(Digits)}
       \cup {type \in {"NegativeNumber"} :
               /\ equality
               /\ w[1] = "-"
               /\ Len(w) > 1
               /\ \A i \in 2 .. Len(w) : w[i] \in Digits}

(* The token that begins at i: a word of the language, or else the longest *)
(* lexeme, or one character that is no lexeme.  A dash alone is something  *)
(* the comments do not speak of.                                           *)
IsNextToken(chars, i, j, type, equality) ==
  LET Spelled(w) == IF equality THEN [k \in DOMAIN w |-> tolower(w[k])] ELSE w
      words == ToSet(Words(equality))
      wordsHere == {w \in words : IsPrefix(w[1], Spelled(SubSeq(chars, i, Len(chars))))}
      ends == {k \in i .. Len(chars) :
                 LexemeTypes(SubSeq(chars, i, k), equality) # {}}
  IN CASE wordsHere # {} ->
            \E w \in wordsHere : j = i + Len(w[1]) - 1 /\ type = w[2]
       [] wordsHere = {} /\ ends # {} ->
            /\ j \in ends
            /\ \A k \in ends : k <= j
            /\ type \in LexemeTypes(SubSeq(chars, i, j), equality)
       [] OTHER ->
            /\ j = i
            /\ type \in {"Unknown"} \cup {t \in {"Negation"} : chars[i] = "-"}

(* What may stand between two tokens.                                      *)
RECURSIVE IsSpace(_, _)
IsSpace(s, equality) ==
  \/ s = <<>>
  \/ s[1] \in {" ", "\t"} /\ IsSpace(Tail(s), equality)
  \/ s[1] = "\n" /\ equality /\ IsSpace(Tail(s), equality)
  \/ /\ s[1] = "#"
     /\ LET ends == {i \in DOMAIN s : s[i] = "\n"}
        IN \/ ends = {}
           \/ \E i \in ends : /\ \A k \in ends : i <= k
                             /\ IsSpace(SubSeq(s, i + 1, Len(s)), equality)
=============================================================================
