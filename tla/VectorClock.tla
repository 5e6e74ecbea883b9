---------------------------- MODULE VectorClock ----------------------------
(***************************************************************************)
(* vectorclock/src/vectorclock.cpp: version vectors of a replicated file,  *)
(* kept as sorted maps from a node's name to its version, in which a node  *)
(* without an entry is at version 0.  compare() merges two of these maps   *)
(* with two iterators; a step of this module is one turn of its loops.     *)
(*                                                                         *)
(* Node names are numbers, in the order of the strings they stand for.  An *)
(* iterator is represented by the keys it has not passed yet: its key() is *)
(* the least of them, and there are none left at constEnd().               *)
(***************************************************************************)
EXTENDS Integers, Sequences

CONSTANTS
  Objects,      \* the VectorClock objects of the program
  Nodes,        \* the file nodes, ordered like their names
  MaxVersion,   \* bound: no node is incremented further
  Blank         \* the empty name or value of a field "name=value"

ASSUME NodesAssumption == Nodes \subseteq Int
ASSUME MaxVersionAssumption == MaxVersion \in Nat
ASSUME BlankAssumption == Blank \notin Int

VARIABLES
  clock,    \* clock_ of each object: a function from some of the nodes
  pc,       \* "idle" outside compare, "loop" inside, "returned" at its end
  A, B,     \* the objects that are compared
  restA,    \* the keys that iterator vcAcit has not passed
  restB,    \* the keys that iterator vcBcit has not passed
  result    \* compare's result

loopVars == <<pc, A, B, restA, restB, result>>
vars == <<clock, loopVars>>

Versions == 0 .. MaxVersion
Clocks == UNION {[keys -> Versions] : keys \in SUBSET Nodes}
Results == {"AEqualB", "APrefixOfB", "BPrefixOfA", "Conflict", "Unknown"}

Init ==
  /\ clock = [o \in Objects |-> [n \in {} |-> 0]]
  /\ pc = "idle"
  /\ A \in Objects /\ B = A
  /\ restA = {} /\ restB = {}
  /\ result = "Unknown"

(* getValue: a node without an entry is at version 0.                      *)
Value(vc, n) == IF n \in DOMAIN vc THEN vc[n] ELSE 0
-----------------------------------------------------------------------------
(* incrementClock: the entry is incremented, or entered with version 1.    *)
IncrementClock(o, n) ==
  /\ pc = "idle"
  /\ Value(clock[o], n) < MaxVersion
  /\ clock' = [clock EXCEPT ![o] =
       [m \in DOMAIN @ \cup {n} |-> IF m = n THEN Value(@, n) + 1 ELSE @[m]]]
  /\ UNCHANGED loopVars

Assign(o, p) ==
  /\ pc = "idle"
  /\ clock' = [clock EXCEPT ![o] = clock[p]]
  /\ UNCHANGED loopVars

(* build: fields with an empty name or value are skipped, and the last one *)
(* of a name counts.                                                       *)
Taken(fields, n) == {i \in DOMAIN fields : fields[i].name = n /\ fields[i].value # Blank}
Last(is) == CHOOSE i \in is : \A j \in is : j <= i
Entries(fields) ==
  [n \in {m \in Nodes : Taken(fields, m) # {}} |-> fields[Last(Taken(fields, n))].value]

Build(o, fields) ==
  /\ pc = "idle"
  /\ clock' = [clock EXCEPT ![o] = Entries(fields)]
  /\ UNCHANGED loopVars
-----------------------------------------------------------------------------
(* Mutant: iterator vcBcit is taken from the other clock.                  *)
Compare_SameClock(o, p) ==
  /\ pc = "idle"
  /\ pc' = "loop"
  /\ A' = o /\ B' = p
  /\ restA' = DOMAIN clock[o] /\ restB' = DOMAIN clock[o]
  /\ result' = "Unknown"
  /\ UNCHANGED clock

(* compare is called: the iterators are at the begin of the two maps.      *)
Compare(o, p) ==
  /\ pc = "idle"
  /\ pc' = "loop"
  /\ A' = o /\ B' = p
  /\ restA' = DOMAIN clock[o] /\ restB' = DOMAIN clock[p]
  /\ result' = "Unknown"
  /\ UNCHANGED clock

First(n, keys) == n \in keys /\ \A m \in keys : n <= m

(* How the versions a and b of one node change the result.                 *)
Judge(a, b) ==
  CASE a = b -> IF result = "Unknown" THEN "AEqualB" ELSE result
    [] a < b -> IF result \in {"BPrefixOfA", "Conflict"} THEN "Conflict" ELSE "APrefixOfB"
    [] a > b -> IF result \in {"APrefixOfB", "Conflict"} THEN "Conflict" ELSE "BPrefixOfA"

(* The verdict on one node, after which compare returns if it is Conflict. *)
Decide(a, b) ==
  /\ result' = Judge(a, b)
  /\ pc' = IF result' = "Conflict" THEN "returned" ELSE "loop"
  /\ UNCHANGED <<clock, A, B>>

(* Both clocks have an entry.                                              *)
InBoth(n) ==
  /\ pc = "loop"
  /\ First(n, restA) /\ First(n, restB)
  /\ Decide(clock[A][n], clock[B][n])
  /\ restA' = restA \ {n} /\ restB' = restB \ {n}

(* Only A has one: B's next key, if there is one, is larger.               *)
OnlyInA(n) ==
  /\ pc = "loop"
  /\ First(n, restA) /\ \A m \in restB : n < m
  /\ Decide(clock[A][n], 0)
  /\ restA' = restA \ {n}
  /\ UNCHANGED restB

(* Mutants: entries after the end of A are not looked at; the iterator is  *)
(* not advanced over an entry of version 0.                                *)
OnlyInB_NoTail(n) ==
  /\ pc = "loop"
  /\ First(n, restB) /\ \A m \in restA : n < m
  /\ IF restA = {} THEN UNCHANGED <<result, pc, clock, A, B>>
                   ELSE Decide(0, clock[B][n])
  /\ restB' = restB \ {n}
  /\ UNCHANGED restA
OnlyInB_Stuck(n) ==
  /\ pc = "loop"
  /\ First(n, restB) /\ \A m \in restA : n < m
  /\ Decide(0, clock[B][n])
  /\ restB' = IF clock[B][n] = 0 THEN restB ELSE restB \ {n}
  /\ UNCHANGED restA

OnlyInB(n) ==
  /\ pc = "loop"
  /\ First(n, restB) /\ \A m \in restA : n < m
  /\ Decide(0, clock[B][n])
  /\ restB' = restB \ {n}
  /\ UNCHANGED restA

(* Both iterators are at the end.                                          *)
LoopsEnd ==
  /\ pc = "loop"
  /\ restA = {} /\ restB = {}
  /\ pc' = "returned"
  /\ UNCHANGED <<clock, A, B, restA, restB, result>>

(* The program has the result; the locals of compare are gone.             *)
Return ==
  /\ pc = "returned"
  /\ pc' = "idle"
  /\ B' = A /\ restA' = {} /\ restB' = {} /\ result' = "Unknown"
  /\ UNCHANGED <<clock, A>>
-----------------------------------------------------------------------------
CompareStep ==
  \/ \E n \in Nodes : InBoth(n) \/ OnlyInA(n) \/ OnlyInB(n)
  \/ LoopsEnd

Fields == [name : Nodes \cup {Blank}, value : Versions \cup {Blank}]

Next ==
  \/ \E o \in Objects, n \in Nodes : IncrementClock(o, n)
  \/ \E o, p \in Objects : Assign(o, p) \/ Compare(o, p)
  \/ \E o \in Objects, f, g \in Fields : Build(o, <<f, g>>)
  \/ CompareStep
  \/ Return

Spec == Init /\ [][Next]_vars

(* compare runs once it is called; the program need not call anything.     *)
FairSpec == Spec /\ WF_vars(CompareStep)
-----------------------------------------------------------------------------
TypeOK ==
  /\ clock \in [Objects -> Clocks]
  /\ pc \in {"idle", "loop", "returned"}
  /\ A \in Objects /\ B \in Objects
  /\ restA \subseteq DOMAIN clock[A] \/ pc = "idle"
  /\ restB \subseteq DOMAIN clock[B] \/ pc = "idle"
  /\ result \in Results

(* The order of the vectors that the clocks stand for.                     *)
NoLater(vc, wc) == \A n \in Nodes : Value(vc, n) <= Value(wc, n)
Relation(vc, wc) ==
  CASE NoLater(vc, wc) /\ NoLater(wc, vc) -> "AEqualB"
    [] NoLater(vc, wc) /\ ~NoLater(wc, vc) -> "APrefixOfB"
    [] ~NoLater(vc, wc) /\ NoLater(wc, vc) -> "BPrefixOfA"
    [] ~NoLater(vc, wc) /\ ~NoLater(wc, vc) -> "Conflict"

NoEntries == DOMAIN clock[A] = {} /\ DOMAIN clock[B] = {}

(* compare returns how the two vectors are related, whatever entries are   *)
(* missing on either side.  Two clocks without entries are left out: they  *)
(* compare as Unknown, even a clock with itself.                           *)
CompareCorrect ==
  pc = "returned" /\ ~NoEntries => result = Relation(clock[A], clock[B])

(* compare comes to its end.                                               *)
CompareReturns == pc = "loop" ~> pc = "returned"
-----------------------------------------------------------------------------
(* The loop invariant.  Seen are the nodes that have been judged: they come*)
(* before all that are left, and result is the verdict on them.            *)
Seen == (DOMAIN clock[A] \ restA) \cup (DOMAIN clock[B] \ restB)
SomeLess == \E n \in Seen : Value(clock[A], n) < Value(clock[B], n)
SomeMore == \E n \in Seen : Value(clock[A], n) > Value(clock[B], n)

InOrder == pc # "idle" => \A n \in Seen, m \in restA \cup restB : n < m

Verdict ==
  pc # "idle" =>
    /\ result = "Unknown" <=> Seen = {}
    /\ result = "AEqualB" <=> Seen # {} /\ ~SomeLess /\ ~SomeMore
    /\ result = "APrefixOfB" <=> SomeLess /\ ~SomeMore
    /\ result = "BPrefixOfA" <=> ~SomeLess /\ SomeMore
    /\ result = "Conflict" <=> SomeLess /\ SomeMore

Finished ==
  pc = "returned" => result = "Conflict" \/ (restA = {} /\ restB = {})

IInv == TypeOK /\ InOrder /\ Verdict /\ Finished
=============================================================================
