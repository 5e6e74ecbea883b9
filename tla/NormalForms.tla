---------------------------- MODULE NormalForms -----------------------------
(***************************************************************************)
(* The constructors of CNFProgram, DNFProgram and ClausesProgram: a copy   *)
(* of every entry of a program is brought into normal form, one call of    *)
(* Semantic at a time, and the entries of a CNFProgram are split into      *)
(* clauses.  Where the program comes from is left open here; LogicProgram  *)
(* has it parsed from texts.                                               *)
(***************************************************************************)
EXTENDS Meaning

VARIABLES
  phase,    \* what the client is doing, or how the last parse ended
  program,  \* the Program that was read
  form,     \* the normal form being made
  normal,   \* program_ of the CNFProgram or DNFProgram
  cur,      \* the copy of an entry that is being brought into normal form
  call,     \* the next call of Semantic on cur
  counter,  \* the static counter of uniqueName
  clauses   \* clauses_ of the ClausesProgram, with the index of its entry

making == <<form, normal, cur, call, counter, clauses>>
formVars == <<phase, program, making>>

(* The entries of a program: a record and the flags of its root.           *)
Entries == [f : Records, flag : {"none", "conclusion", "query"}, sos : BOOLEAN]

Binders(f) == {p \in Parts[f] : p.type \in Quantifiers}
BinderNames(f) == {p.name : p \in Binders(f)}
OtherNames(f) ==
  {p.name : p \in {q \in Parts[f] : q.type \notin Quantifiers \cup {"Variable"}}}

(* Those that the parser accepts: the names are the user's, every variable *)
(* is bound, and no name of a variable is one of anything else.            *)
Written ==
  {e \in Entries :
     /\ \A name \in Names(e.f) : name[2] = 0
     /\ FreeVariables[e.f] = {}
     /\ BinderNames(e.f) \cap OtherNames(e.f) = {}}

EmptyProgram ==
  [list |-> <<>>, options |-> <<>>, goals |-> <<>>, queries |-> <<>>,
   logic |-> "Unknown"]

(* insert: the list, and one more container that the entry belongs to.     *)
insert(p, e) ==
  LET q == [p EXCEPT !.list = Append(@, e)]
  IN CASE e.f.type = "Option" ->
            [q EXCEPT !.options = @ @@ (e.f.name :> e)]
       [] e.flag = "conclusion" -> [q EXCEPT !.goals = Append(@, e)]
       [] e.flag = "query" -> [q EXCEPT !.queries = Append(@, e)]
       [] OTHER -> q

Nothing == Mark("Unknown")

FormInit ==
  /\ phase = "idle"
  /\ program = EmptyProgram
  /\ form = "none"
  /\ normal = EmptyProgram
  /\ cur = Nothing
  /\ call = "none"
  /\ counter = 0
  /\ clauses = <<>>

(* What comes before: a program may be read, again and again.              *)
Read ==
  /\ {phase, phase'} \cap {"normal", "clauses", "aborted"} = {}
  /\ program'.list \in Seq(Written)
  /\ UNCHANGED making
-----------------------------------------------------------------------------
(* The entry of the program that comes after the n that are done.          *)
Copy(n) == IF n < Len(program.list) THEN program.list[n + 1].f ELSE Nothing

Calls == <<"removeBiconditionals", "removeConditionals", "demorgans",
           "renameVariables", "skolemize", "removeUniversals",
           "distribution">>

After(c) ==
  LET i == CHOOSE i \in DOMAIN Calls : Calls[i] = c
  IN IF i = Len(Calls) THEN Calls[1] ELSE Calls[i + 1]

(* CNFProgram(const Program &) and DNFProgram(const Program &).            *)
StartNormal(f) ==
  /\ phase = "parsed"
  /\ phase' = "normal"
  /\ form' = f
  /\ normal' = [EmptyProgram EXCEPT !.logic = program.logic]
  /\ cur' = Copy(0)
  /\ call' = Calls[1]
  /\ UNCHANGED <<program, counter, clauses>>

Working == phase = "normal" /\ Len(normal.list) < Len(program.list)

(* A call that returns a record, and one that also moves the counter.  The *)
(* records are bounded by their height.                                    *)
Rewrite(c, f) ==
  /\ Working
  /\ call = c
  /\ f \in Records
  /\ cur' = f
  /\ call' = After(c)
  /\ UNCHANGED <<phase, program, form, normal, counter, clauses>>

RewriteNaming(c, f, n) ==
  /\ Working
  /\ call = c
  /\ f \in Records
  /\ cur' = f
  /\ counter' = n
  /\ call' = After(c)
  /\ UNCHANGED <<phase, program, form, normal, clauses>>

RemoveBiconditionals == Rewrite("removeBiconditionals", removeBiconditionals[cur])
RemoveConditionals == Rewrite("removeConditionals", removeConditionals[cur])
Demorgans == Rewrite("demorgans", demorgans[cur])
RemoveUniversals == Rewrite("removeUniversals", removeUniversals[cur])

RenameVariables ==
  LET r == renameVariables(cur, counter)
  IN RewriteNaming("renameVariables", r.f, r.data)

Skolemize ==
  LET r == skolemize(cur, counter)
  IN RewriteNaming("skolemize", r.f, r.data.counter)

(* One pass of distributionOrsOverAnds or distributionAndsOverOrs.         *)
Pass == IF form = "CNF" THEN distributeOrs[cur] ELSE distributeAnds[cur]

(* The passes go on as long as one changes something.                      *)
Distribute ==
  /\ Working
  /\ call = "distribution"
  /\ Pass # cur
  /\ Pass \in Records
  /\ cur' = Pass
  /\ UNCHANGED <<phase, program, form, normal, call, counter, clauses>>

(* The last call has returned: the entry is inserted, the next is copied.  *)
InsertNormal ==
  LET e == program.list[Len(normal.list) + 1]
  IN /\ Working
     /\ call = "distribution"
     /\ Pass = cur
     /\ normal' = insert(normal, [e EXCEPT !.f = cur])
     /\ cur' = Copy(Len(normal'.list))
     /\ call' = Calls[1]
     /\ UNCHANGED <<phase, program, form, counter, clauses>>
-----------------------------------------------------------------------------
Markers == {"StartArgument", "EndArgument"}

(* removeAnds and removeOrs assert that they never meet these types.       *)
Refused(f) ==
  \E i \in DOMAIN removeAnds[f] :
    LET c == removeAnds[f][i]
    IN \/ c.type \in NeverConjunct
       \/ \E j \in DOMAIN removeOrs[c] : removeOrs[c][j].type \in NeverDisjunct

(* The clauses of one entry: its conjuncts but for the markers, each with  *)
(* variables of its own, each split into its disjuncts.                    *)
ClausesOf(f, n) ==
  LET conjuncts == removeAnds[f]
      done[i \in 0 .. Len(conjuncts)] ==
        IF i = 0 THEN [list |-> <<>>, counter |-> n]
        ELSE LET before == done[i - 1]
                 r == renameAgain(conjuncts[i], before.counter)
             IN IF conjuncts[i].type \in Markers THEN before
                ELSE [list |-> Append(before.list, removeOrs[r.f]),
                      counter |-> r.data.counter]
  IN done[Len(conjuncts)]

(* ClausesProgram(const CNFProgram &).                                     *)
StartClauses ==
  /\ phase = "normal"
  /\ ~ Working
  /\ form = "CNF"
  /\ phase' = "clauses"
  /\ UNCHANGED <<program, making>>

Clausify ==
  LET f == normal.list[Len(clauses) + 1].f
      r == ClausesOf(f, counter)
  IN /\ phase = "clauses"
     /\ Len(clauses) < Len(normal.list)
     /\ phase' = IF Refused(f) THEN "aborted" ELSE phase
     /\ clauses' = Append(clauses, r.list)
     /\ counter' = r.counter
     /\ UNCHANGED <<program, form, normal, cur, call>>

FormStep ==
  \/ \E f \in {"CNF", "DNF"} : StartNormal(f)
  \/ RemoveBiconditionals \/ RemoveConditionals \/ Demorgans
  \/ RenameVariables \/ Skolemize \/ RemoveUniversals
  \/ Distribute \/ InsertNormal
  \/ StartClauses \/ Clausify

FormSpec == FormInit /\ [][Read \/ FormStep]_formVars
-----------------------------------------------------------------------------
(* No two variables are confused.  From renameVariables on no two          *)
(* quantifiers of an entry bind the same variable, nor one of an entry     *)
(* that is done already; and no two clauses share a variable.              *)
BindOnce[f \in Records] ==
  /\ \A i \in DOMAIN f.kids : BindOnce[f.kids[i]]
  /\ f.type \in Quantifiers => f.name \notin BinderNames(f.kids[1])
  /\ \A i, j \in DOMAIN f.kids :
       i # j => BinderNames(f.kids[i]) \cap BinderNames(f.kids[j]) = {}

BindersApart ==
  /\ BindOnce[cur]
  /\ \A i \in DOMAIN normal.list :
       BinderNames(cur) \cap Names(normal.list[i].f) = {}

VariablesOf(c) == UNION {Variables(c[k]) : k \in DOMAIN c}

ClausesApart ==
  \A i, j \in DOMAIN clauses :
    \A k \in DOMAIN clauses[i], l \in DOMAIN clauses[j] :
      <<i, k>> # <<j, l>> =>
        VariablesOf(clauses[i][k]) \cap VariablesOf(clauses[j][l]) = {}

VariablesApart ==
  /\ Working /\ call = "skolemize" => BindersApart
  /\ ClausesApart

(* What is inserted is in normal form: no quantifier, no conditional,      *)
(* negations on atoms only, and no outer operator below an inner one.      *)
Outer == IF form = "CNF" THEN "And" ELSE "Or"
Inner == IF form = "CNF" THEN "Or" ELSE "And"

IsNormal(f) ==
  \A p \in Parts[f] :
    /\ p.type \notin Quantifiers \cup {"Conditional", "Biconditional"}
    /\ p.type = "Negation" =>
         p.kids[1].type \notin {"And", "Or", "Negation"}
    /\ p.type = Inner => \A k \in DOMAIN p.kids : p.kids[k].type # Outer

NormalForm == \A i \in DOMAIN normal.list : IsNormal(normal.list[i].f)

(* The calls that drop no quantifier keep the truth of the copy, whatever  *)
(* the symbols and the variables stand for.                                *)
Rewriting ==
  \/ RemoveBiconditionals \/ RemoveConditionals \/ Demorgans \/ RenameVariables
  \/ form = "CNF" /\ Distribute

SameTruth(f, g) ==
  \A I \in Interpretations(Symbols(f)) :
    \A free \in [FreeVariables[f] -> Domain] : Holds(f, I, free) <=> Holds(g, I, free)

TruthKept == [][Rewriting => SameTruth(cur, cur')]_formVars

(* Every call on the copy of an entry keeps its meaning, up to new skolem  *)
(* symbols; of the disjunctive form this is said of the calls it shares    *)
(* with the conjunctive one.                                               *)
Kept ==
  \A i \in DOMAIN normal.list : Expresses(normal.list[i].f, program.list[i].f)

EntriesKept ==
  /\ Working /\ (form = "DNF" => call # "distribution") =>
       Expresses(cur, program.list[Len(normal.list) + 1].f)
  /\ phase = "normal" /\ ~ Working /\ form = "CNF" => Kept

(* The split into clauses never meets a type it asserts away, and the      *)
(* clauses of an entry, taken together, say what its normal form says,     *)
(* unless a marker, which is skipped, is among its conjuncts.  A clause is *)
(* true when one of its literals is, whatever its variables are.           *)
FreeIn(c) == UNION {FreeVariables[c[k]] : k \in DOMAIN c}

ClauseTrue(c, I) ==
  \A free \in [FreeIn(c) -> Domain] : \E k \in DOMAIN c : Holds(c[k], I, free)

Unmarked(f) == \A k \in DOMAIN removeAnds[f] : removeAnds[f][k].type \notin Markers

ClausesKept ==
  phase # "aborted" /\ \A i \in DOMAIN clauses :
    LET f == normal.list[i].f
    IN Unmarked(f) =>
         \A I \in Interpretations(Symbols(f)) :
           True(f, I) <=> \A k \in DOMAIN clauses[i] : ClauseTrue(clauses[i][k], I)

(* Nothing between the program that was read and its clauses changes a     *)
(* meaning.                                                                *)
MeaningKept == EntriesKept /\ ClausesKept
=============================================================================
