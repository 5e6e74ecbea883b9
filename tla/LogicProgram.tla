---------------------------- MODULE LogicProgram ----------------------------
(***************************************************************************)
(* A client of libsrc/logic: texts are parsed with one parser object into  *)
(* one Program, a CNFProgram or a DNFProgram is made of it, and a          *)
(* ClausesProgram of a CNFProgram (NormalForms).  A second parser, the     *)
(* PredCalcParser, only recognizes texts.                                  *)
(***************************************************************************)
EXTENDS NormalForms, Reconstruct, LogicGrammar

CONSTANTS
  Texts,           \* the token sequences offered, for each enable_semantics_
  LaterTexts,      \* those offered to a parser object used before
  PlainTexts,      \* the token sequences offered to PredCalcParser
  CharTexts,       \* the character sequences offered to the tokenizers
  MaxParses        \* bound on the calls of parse with one parser object

VARIABLES
  parser,   \* the EqualityPredCalcParser and the static tables of Symbol
  text,     \* the text that was parsed last
  parses,   \* the calls of parse so far
  scanner   \* a tokenizer, used by itself

vars == <<parser, text, parses, scanner, formVars>>

Plain == INSTANCE PredCalcParser

-----------------------------------------------------------------------------
(* Assignment of the parser's program_: everything is inserted anew.       *)
Assigned(list, logic) ==
  [FoldLeft(insert, EmptyProgram, list) EXCEPT !.logic = logic]

Init ==
  /\ FormInit
  /\ parser \in {NewParser(semantics) : semantics \in BOOLEAN}
  /\ text = <<>>
  /\ parses = 0
  /\ scanner = setProgram(<<>>, TRUE)

(* parse: the output program loses its list, and only its list, before     *)
(* anything is read, and is assigned when QUIT was read.                   *)
Parse(t) ==
  LET r == parse([parser EXCEPT !.toks = t])
      logic == IF r.st.logic = "Unknown" THEN "Propositional" ELSE r.st.logic
  IN /\ parser' = r.st
     /\ program' = IF r.st.quit THEN Assigned(r.st.list, logic)
                   ELSE [program EXCEPT !.list = <<>>]
     /\ phase' = IF r.st.quit THEN "parsed" ELSE "rejected"
     /\ text' = t
     /\ parses' = parses + 1
     /\ UNCHANGED <<making, scanner>>

(* PredCalcParser::parse of t, once.                                       *)
Recognize(t) ==
  LET r == Plain!parse(t)
  IN /\ phase' = IF r.st.quit THEN "recognized" ELSE "unrecognized"
     /\ text' = t
     /\ UNCHANGED <<parser, program, parses, making, scanner>>

(* A tokenizer that somebody else reads from: setProgram, and              *)
(* advanceToNextToken to the end of the text.                              *)
Scan ==
  /\ phase = "idle"
  /\ \E chars \in CharTexts, equality \in BOOLEAN :
       scanner' = setProgram(chars, equality)
  /\ phase' = "scanning"
  /\ UNCHANGED <<parser, program, text, parses, making>>

ScanOn ==
  /\ phase = "scanning"
  /\ scanner.type # "EndOfProgram"
  /\ scanner' = advanceToNextToken(scanner)
  /\ UNCHANGED <<parser, text, parses, formVars>>

(* A parsed program is brought into normal form, and into clauses.         *)
Normalize ==
  /\ parser.semantics
  /\ FormStep
  /\ UNCHANGED <<parser, text, parses, scanner>>

Next ==
  \/ /\ phase \in {"idle", "parsed", "rejected"}
     /\ parses < MaxParses
     /\ \E t \in (IF parses = 0 THEN Texts ELSE LaterTexts)[parser.semantics] :
          Parse(t)
  \/ phase = "idle" /\ \E t \in PlainTexts : Recognize(t)
  \/ Scan \/ ScanOn
  \/ Normalize

Spec == Init /\ [][Next]_vars
-----------------------------------------------------------------------------
(* The disjunctive form says what the entry says ("replace (A || B) && C   *)
(* with (A && C) || (B && C)", at distributionAndsOverOrs).                *)
DisjunctionKept == form = "DNF" => Kept

(* Whatever is parsed is a program as NormalForms supposes it, and the     *)
(* normal forms are made as it says.                                       *)
MakesNormalForms == FormSpec

(* The text that reconstruct gives for an entry is read back as the same   *)
(* entry.                                                                  *)
WrapTokens(toks) ==
  <<T("Argument"), T("LeftBrace")>> \o toks
    \o <<T("Semicolon"), T("RightBrace"), T("Quit"), T("Semicolon")>>

ReadBack(f) ==
  parse([NewParser(TRUE) EXCEPT !.toks = WrapTokens(reconstruct(f))]).st.list

RoundTrip ==
  phase = "parsed" /\ parser.semantics =>
    \A i \in DOMAIN program.list :
      LET f == program.list[i].f
      IN f.type \notin Markers \cup {"Option"} =>
           /\ Len(ReadBack(f)) = 3
           /\ ReadBack(f)[2].f = f

(* In an accepted program every variable is bound by a quantifier around   *)
(* it, every quantifier binds something, none is inside another of its     *)
(* name, and no name of a predicate, function, constant or variable has    *)
(* two roles.                                                              *)
RECURSIVE WellBound(_, _)
WellBound(f, bound) ==
  CASE f.type = "Variable" -> f.name \in bound
    [] f.type \in Quantifiers ->
         /\ f.name \notin bound
         /\ f.name \in FreeVariables[f.kids[1]]
         /\ WellBound(f.kids[1], bound \cup {f.name})
    [] OTHER -> \A i \in DOMAIN f.kids : WellBound(f.kids[i], bound)

Role(p) == IF p.type \in Quantifiers THEN "Variable" ELSE p.type

Roled == Predicates \cup Functions_ \cup Quantifiers \cup {"Variable"}

AllParts == UNION {Parts[program.list[i].f] : i \in DOMAIN program.list}

BoundAndTyped ==
  phase = "parsed" =>
    /\ \A i \in DOMAIN program.list : WellBound(program.list[i].f, {})
    /\ \A p, q \in {r \in AllParts : r.type \in Roled} :
         p.name = q.name => Role(p) = Role(q)

(* A parser that has read another text before, well formed or not, reads a *)
(* text as a new one does.                                                 *)
ParseFresh ==
  phase \in {"parsed", "rejected"} =>
    LET r == parse([NewParser(parser.semantics) EXCEPT !.toks = text])
    IN /\ r.st.quit = (phase = "parsed")
       /\ phase = "parsed" => program = Assigned(r.st.list, program.logic)
       /\ r.st = parser

(* Each parser accepts exactly the language of the grammar in its header:  *)
(* the first a text of one argument and QUIT, its semantic checks off, the *)
(* second a text that ends in QUIT and an empty line.                      *)
Types(toks) == [i \in DOMAIN toks |-> toks[i].type]

AcceptsGrammar ==
  phase \in {"parsed", "rejected"} /\ ~ parser.semantics =>
    (phase = "parsed") = IsArgumentBody(Types(SubSeq(text, 3, Len(text) - 3)))

RecognizesGrammar ==
  phase \in {"recognized", "unrecognized"} =>
    (phase = "recognized") =
      IsPlainBody(Types(SubSeq(text, 1, Len(text) - 2)))

LanguageOfGrammar == AcceptsGrammar /\ RecognizesGrammar

(* Every call of advanceToNextToken passes over blanks, comments and empty *)
(* lines only and stops at the next token the lexicon of the headers gives *)
(* there, the longest one, or at the end when no more is left.             *)
NextLexeme ==
  [][phase = "scanning" =>
       LET s == scanner'
       IN /\ IsSpace(SubSeq(s.chars, scanner.end + 1, s.start - 1), s.equality)
          /\ \/ s.type = "EndOfProgram" /\ IsSpace(
                   SubSeq(s.chars, scanner.end + 1, Len(s.chars)), s.equality)
             \/ IsNextToken(s.chars, s.start, s.end, s.type, s.equality)]_vars
=============================================================================
