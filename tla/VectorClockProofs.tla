------------------------- MODULE VectorClockProofs -------------------------
(***************************************************************************)
(* For any number of nodes and of clocks and any versions: compare returns *)
(* how the vectors are related that the two maps stand for.  The proof is  *)
(* the one of a merge: what the iterators have passed has been judged, and *)
(* comes before what they have not.                                        *)
(***************************************************************************)
EXTENDS VectorClock, TLAPS

USE NodesAssumption, MaxVersionAssumption, BlankAssumption

(* getValue yields a version, for a node with an entry and for any other.  *)
LEMMA ValueType ==
  ASSUME NEW vc \in Clocks, NEW n
  PROVE  Value(vc, n) \in Versions
<1>1. PICK keys \in SUBSET Nodes : vc \in [keys -> Versions]
  BY DEF Clocks
<1>2. CASE n \in DOMAIN vc
  <2>1. vc[n] \in Versions
    BY <1>1, <1>2
  <2> QED
    BY <1>2, <2>1 DEF Value
<1>3. CASE n \notin DOMAIN vc
  BY <1>3 DEF Value, Versions
<1> QED
  BY <1>2, <1>3

(* A clock that gets an entry is a clock.                                  *)
LEMMA ClockType ==
  ASSUME NEW vc, DOMAIN vc \subseteq Nodes, vc = [n \in DOMAIN vc |-> vc[n]],
         \A n \in DOMAIN vc : vc[n] \in Versions
  PROVE  vc \in Clocks
<1>1. vc \in [DOMAIN vc -> Versions]
  OBVIOUS
<1> QED
  BY <1>1 DEF Clocks

(* The nodes and versions of a clock.                                      *)
LEMMA DomainOfClock ==
  ASSUME NEW vc \in Clocks
  PROVE  /\ DOMAIN vc \subseteq Nodes
         /\ \A n \in DOMAIN vc : vc[n] \in Versions /\ Value(vc, n) = vc[n]
<1>1. PICK keys \in SUBSET Nodes : vc \in [keys -> Versions]
  BY DEF Clocks
<1> QED
  BY <1>1 DEF Value

(* The entries of a built clock are versions: the last field of a name is  *)
(* one of its fields, and no blank one.                                    *)
LEMMA EntriesType ==
  ASSUME NEW f \in Fields, NEW g \in Fields
  PROVE  Entries(<<f, g>>) \in Clocks
<1> DEFINE s == <<f, g>>
           keys == {m \in Nodes : Taken(s, m) # {}}
<1>1. DOMAIN s = 1 .. 2 /\ s[1] = f /\ s[2] = g
  OBVIOUS
<1>2. ASSUME NEW n \in keys
      PROVE  s[Last(Taken(s, n))].value \in Versions
  <2> DEFINE is == Taken(s, n)
  <2>1. is # {} /\ is \subseteq 1 .. 2
    BY <1>1 DEF Taken
  <2>2. \E i \in is : \A j \in is : j <= i
    <3>1. CASE 2 \in is
      BY <2>1, <3>1
    <3>2. CASE 2 \notin is
      BY <2>1, <3>2
    <3> QED
      BY <3>1, <3>2
  <2>3. Last(is) \in is
    BY <2>2 DEF Last
  <2>4. s[Last(is)].value # Blank /\ Last(is) \in 1 .. 2
    BY <2>1, <2>3, <1>1 DEF Taken
  <2>5. s[Last(is)].value \in Versions \cup {Blank}
    BY <2>4, <1>1 DEF Fields
  <2> QED
    BY <2>4, <2>5
<1>3. Entries(s) = [n \in keys |-> s[Last(Taken(s, n))].value]
  BY DEF Entries
<1>4. Entries(s) \in [keys -> Versions]
  BY <1>2, <1>3
<1> QED
  BY <1>4 DEF Clocks
-----------------------------------------------------------------------------
(* Every state of the clocks and of compare is well typed.                 *)
LEMMA JudgeType ==
  ASSUME NEW a \in Int, NEW b \in Int, result \in Results
  PROVE  Judge(a, b) \in Results
BY DEF Judge, Results

(* Every step keeps the types.                                             *)
LEMMA TypeStep ==
  ASSUME TypeOK, [Next]_vars
  PROVE  TypeOK'
<1> USE DEF TypeOK, loopVars
<1>1. ASSUME NEW o \in Objects, NEW n \in Nodes, IncrementClock(o, n)
      PROVE  TypeOK'
  <2> DEFINE vc == clock[o]
             wc == [m \in DOMAIN vc \cup {n} |-> IF m = n THEN Value(vc, n) + 1 ELSE vc[m]]
  <2>1. Value(vc, n) \in Versions /\ Value(vc, n) + 1 \in Versions
    BY <1>1, ValueType DEF IncrementClock, Versions
  <2>2. wc \in Clocks
    BY <2>1, DomainOfClock, ClockType
  <2>3. clock' = [clock EXCEPT ![o] = wc]
    BY <1>1 DEF IncrementClock
  <2> QED
    BY <1>1, <2>2, <2>3 DEF IncrementClock
<1>2. ASSUME NEW o \in Objects, NEW p \in Objects, Assign(o, p)
      PROVE  TypeOK'
  BY <1>2 DEF Assign
<1>3. ASSUME NEW o \in Objects, NEW p \in Objects, Compare(o, p)
      PROVE  TypeOK'
  BY <1>3 DEF Compare, Results
<1>4. ASSUME NEW o \in Objects, NEW f \in Fields, NEW g \in Fields, Build(o, <<f, g>>)
      PROVE  TypeOK'
  <2>1. Entries(<<f, g>>) \in Clocks
    BY EntriesType
  <2> QED
    BY <1>4, <2>1 DEF Build
<1>5. ASSUME NEW n \in Nodes, InBoth(n) \/ OnlyInA(n) \/ OnlyInB(n)
      PROVE  TypeOK'
  <2>1. restA' \subseteq restA /\ restB' \subseteq restB
    BY <1>5 DEF InBoth, OnlyInA, OnlyInB
  <2>2. PICK a \in Int, b \in Int : Decide(a, b)
    <3>1. n \in restA => clock[A][n] \in Int
      BY <1>5, DomainOfClock DEF Versions, InBoth, OnlyInA, OnlyInB
    <3>2. n \in restB => clock[B][n] \in Int
      BY <1>5, DomainOfClock DEF Versions, InBoth, OnlyInA, OnlyInB
    <3> QED
      BY <1>5, <3>1, <3>2 DEF InBoth, OnlyInA, OnlyInB, First
  <2>3. result' \in Results
    BY <2>2, JudgeType DEF Decide
  <2>4. pc = "loop"
    BY <1>5 DEF InBoth, OnlyInA, OnlyInB
  <2> QED
    BY <2>1, <2>2, <2>3, <2>4 DEF Decide
<1>6. CASE LoopsEnd
  BY <1>6 DEF LoopsEnd
<1>7. CASE Return
  BY <1>7 DEF Return, Results
<1>8. CASE UNCHANGED vars
  BY <1>8 DEF vars
<1> QED
  BY <1>1, <1>2, <1>3, <1>4, <1>5, <1>6, <1>7, <1>8 DEF Next, CompareStep
-----------------------------------------------------------------------------
(* A turn of the loops judges one node with the versions that both vectors *)
(* have for it, and that node comes before all that are left.              *)
LEMMA TurnJudges ==
  ASSUME TypeOK, InOrder, NEW n \in Nodes, InBoth(n) \/ OnlyInA(n) \/ OnlyInB(n)
  PROVE  /\ Decide(Value(clock[A], n), Value(clock[B], n))
         /\ Seen' = Seen \cup {n}
         /\ \A m \in (restA \cup restB)' : m \in restA \cup restB /\ n < m
<1>1. /\ DOMAIN clock[A] \subseteq Nodes /\ DOMAIN clock[B] \subseteq Nodes
      /\ pc = "loop" /\ restA \subseteq DOMAIN clock[A] /\ restB \subseteq DOMAIN clock[B]
  BY DomainOfClock DEF TypeOK, InBoth, OnlyInA, OnlyInB
<1>2. clock' = clock /\ A' = A /\ B' = B
  BY DEF InBoth, OnlyInA, OnlyInB, Decide
<1>3. n \in Int /\ ~(n < n) /\ \A m \in restA \cup restB : m \in Int
  <2>1. \A m \in Nodes : m \in Int
    OBVIOUS
  <2>2. \A m \in restA \cup restB : m \in Nodes
    BY <1>1
  <2>3. n \in Int
    BY <2>1
  <2>4. ~(n < n)
    BY <2>3
  <2>5. \A m \in restA \cup restB : m \in Int
    BY <2>1, <2>2
  <2> QED
    BY <2>3, <2>4, <2>5
<1>4. \A m \in restA \cup restB : n <= m
  <2>1. CASE InBoth(n)
    BY <2>1, <1>3 DEF InBoth, First
  <2>2. CASE OnlyInA(n)
    BY <2>2, <1>3 DEF OnlyInA, First
  <2>3. CASE OnlyInB(n)
    BY <2>3, <1>3 DEF OnlyInB, First
  <2> QED
    BY <2>1, <2>2, <2>3
<1>5. n \notin Seen
  BY <1>1 DEF InOrder, InBoth, OnlyInA, OnlyInB, First
<1>6. CASE InBoth(n)
  BY <1>1, <1>2, <1>4, <1>6 DEF InBoth, First, Value, Seen
<1>7. CASE OnlyInA(n)
  <2>1. n \notin restB
    BY <1>7, <1>3 DEF OnlyInA
  <2>2. n \notin DOMAIN clock[B]
    BY <1>5, <2>1 DEF Seen
  <2>3. restA' = restA \ {n} /\ restB' = restB /\ n \in restA
    BY <1>7 DEF OnlyInA, First
  <2>4. Decide(clock[A][n], 0)
    BY <1>7 DEF OnlyInA
  <2>5. Value(clock[A], n) = clock[A][n] /\ Value(clock[B], n) = 0
    BY <1>1, <2>2, <2>3 DEF Value
  <2>6. Seen' = Seen \cup {n}
    BY <1>1, <1>2, <2>3 DEF Seen
  <2>7. \A m \in (restA \cup restB)' : m \in restA \cup restB /\ n < m
    BY <1>4, <1>3, <2>1, <2>3
  <2> QED
    BY <2>4, <2>5, <2>6, <2>7
<1>8. CASE OnlyInB(n)
  <2>1. n \notin restA
    BY <1>8, <1>3 DEF OnlyInB
  <2>2. n \notin DOMAIN clock[A]
    BY <1>5, <2>1 DEF Seen
  <2>3. restB' = restB \ {n} /\ restA' = restA /\ n \in restB
    BY <1>8 DEF OnlyInB, First
  <2>4. Decide(0, clock[B][n])
    BY <1>8 DEF OnlyInB
  <2>5. Value(clock[B], n) = clock[B][n] /\ Value(clock[A], n) = 0
    BY <1>1, <2>2, <2>3 DEF Value
  <2>6. Seen' = Seen \cup {n}
    BY <1>1, <1>2, <2>3 DEF Seen
  <2>7. \A m \in (restA \cup restB)' : m \in restA \cup restB /\ n < m
    BY <1>4, <1>3, <2>1, <2>3
  <2> QED
    BY <2>4, <2>5, <2>6, <2>7
<1> QED
  BY <1>6, <1>7, <1>8

(* The verdict on the nodes seen, extended by one.                         *)
LEMMA VerdictExtends ==
  ASSUME TypeOK, Verdict, pc = "loop", NEW n \in Nodes,
         Decide(Value(clock[A], n), Value(clock[B], n)), Seen' = Seen \cup {n}
  PROVE  Verdict'
<1> DEFINE a == Value(clock[A], n)
           b == Value(clock[B], n)
<1>1. a \in Int /\ b \in Int
  BY ValueType DEF TypeOK, Versions
<1>2. clock' = clock /\ A' = A /\ B' = B /\ result' = Judge(a, b)
  BY DEF Decide
<1>3. SomeLess' <=> SomeLess \/ a < b
  BY <1>2 DEF SomeLess, Value
<1>4. SomeMore' <=> SomeMore \/ a > b
  BY <1>2 DEF SomeMore, Value
<1>5. SomeLess \/ SomeMore => Seen # {}
  BY DEF SomeLess, SomeMore
<1>6. result \in Results
  BY DEF TypeOK
<1> HIDE DEF a, b
<1>7. Seen' # {}
  OBVIOUS
<1>8. CASE a = b
  BY <1>1, <1>2, <1>3, <1>4, <1>5, <1>6, <1>7, <1>8 DEF Judge, Verdict, Results
<1>9. CASE a < b
  BY <1>1, <1>2, <1>3, <1>4, <1>5, <1>6, <1>7, <1>9 DEF Judge, Verdict, Results
<1>10. CASE a > b
  BY <1>1, <1>2, <1>3, <1>4, <1>5, <1>6, <1>7, <1>10 DEF Judge, Verdict, Results
<1> QED
  BY <1>1, <1>8, <1>9, <1>10
-----------------------------------------------------------------------------
(* The loop invariant is inductive.                                        *)
LEMMA InvStep ==
  ASSUME IInv, [Next]_vars
  PROVE  IInv'
<1> USE DEF IInv
<1>1. TypeOK'
  BY TypeStep
<1>2. CASE pc' = "idle"
  BY <1>1, <1>2 DEF InOrder, Verdict, Finished
<1>3. ASSUME NEW o \in Objects, NEW p \in Objects, Compare(o, p)
      PROVE  IInv'
  <2>1. Seen' = {} /\ pc' = "loop" /\ result' = "Unknown"
    BY <1>3 DEF Compare, Seen
  <2>2. ~SomeLess' /\ ~SomeMore'
    BY <2>1 DEF SomeLess, SomeMore
  <2> QED
    BY <1>1, <2>1, <2>2 DEF InOrder, Verdict, Finished
<1>4. ASSUME NEW n \in Nodes, InBoth(n) \/ OnlyInA(n) \/ OnlyInB(n)
      PROVE  IInv'
  <2>1. /\ Decide(Value(clock[A], n), Value(clock[B], n))
        /\ Seen' = Seen \cup {n}
        /\ \A m \in (restA \cup restB)' : m \in restA \cup restB /\ n < m
    BY <1>4, TurnJudges
  <2>2. pc = "loop"
    BY <1>4 DEF InBoth, OnlyInA, OnlyInB
  <2>3. InOrder'
    BY <2>1, <2>2 DEF InOrder
  <2>4. Verdict'
    BY <2>1, <2>2, VerdictExtends
  <2>5. Finished'
    BY <2>1 DEF Finished, Decide
  <2> QED
    BY <1>1, <2>3, <2>4, <2>5
<1>5. ASSUME LoopsEnd \/ UNCHANGED vars
      PROVE  IInv'
  <2>1. /\ Seen' = Seen /\ (restA \cup restB)' = restA \cup restB /\ result' = result
        /\ clock' = clock /\ A' = A /\ B' = B
    BY <1>5 DEF LoopsEnd, Seen, vars, loopVars
  <2>2. SomeLess' = SomeLess /\ SomeMore' = SomeMore
    BY <2>1 DEF SomeLess, SomeMore, Value
  <2>3. pc' # "idle" => pc # "idle"
    BY <1>5 DEF LoopsEnd, vars, loopVars
  <2>4. InOrder' /\ Verdict'
    BY <2>1, <2>2, <2>3 DEF InOrder, Verdict
  <2>5. Finished'
    BY <1>5 DEF Finished, LoopsEnd, vars, loopVars
  <2> QED
    BY <1>1, <2>4, <2>5
<1>6. CASE Return
  BY <1>2, <1>6 DEF Return
<1>7. ASSUME NEW o \in Objects, NEW n \in Nodes, IncrementClock(o, n) PROVE IInv'
  BY <1>2, <1>7 DEF IncrementClock, loopVars
<1>8. ASSUME NEW o \in Objects, NEW p \in Objects, Assign(o, p) PROVE IInv'
  BY <1>2, <1>8 DEF Assign, loopVars
<1>9. ASSUME NEW o \in Objects, NEW f \in Fields, NEW g \in Fields, Build(o, <<f, g>>)
      PROVE  IInv'
  BY <1>2, <1>9 DEF Build, loopVars
<1> QED
  BY <1>3, <1>4, <1>5, <1>6, <1>7, <1>8, <1>9 DEF Next, CompareStep

(* The loop invariant: the state is well typed, the iterators have passed  *)
(* the nodes in order, result is the verdict on those, and nothing is left *)
(* when compare returns, unless it returns a conflict.                     *)
THEOREM LoopInvariant == Spec => []IInv
<1>1. Init => IInv
  <2> SUFFICES ASSUME Init PROVE IInv
    OBVIOUS
  <2>1. [n \in {} |-> 0] \in Clocks
    BY DEF Clocks
  <2>2. TypeOK
    BY <2>1 DEF Init, TypeOK, Results
  <2> QED
    BY <2>2 DEF Init, IInv, InOrder, Verdict, Finished
<1>2. IInv /\ [Next]_vars => IInv'
  BY InvStep
<1> QED
  BY <1>1, <1>2, PTL DEF Spec
-----------------------------------------------------------------------------
(* What the loop invariant says at the end: the nodes that were not seen   *)
(* are at version 0 on both sides, or a conflict is already certain.       *)
LEMMA CorrectAtEnd ==
  ASSUME IInv
  PROVE  CompareCorrect
<1> SUFFICES ASSUME pc = "returned", ~NoEntries
             PROVE  result = Relation(clock[A], clock[B])
  BY DEF CompareCorrect
<1> DEFINE vc == clock[A]
           wc == clock[B]
<1>1. /\ vc \in Clocks /\ wc \in Clocks /\ result \in Results
      /\ DOMAIN vc \subseteq Nodes /\ DOMAIN wc \subseteq Nodes
  BY DomainOfClock DEF IInv, TypeOK
<1>2. \A n \in Nodes : Value(vc, n) \in Int /\ Value(wc, n) \in Int
  BY <1>1, ValueType DEF Versions
<1>3. Seen \subseteq Nodes
  BY <1>1 DEF Seen
<1>4. (SomeMore => ~NoLater(vc, wc)) /\ (SomeLess => ~NoLater(wc, vc))
  BY <1>2, <1>3 DEF SomeMore, SomeLess, NoLater
<1>5. CASE result = "Conflict"
  BY <1>4, <1>5 DEF IInv, Verdict, Relation
<1>6. CASE result # "Conflict"
  <2>1. restA = {} /\ restB = {}
    BY <1>6 DEF IInv, Finished
  <2>2. Seen = DOMAIN vc \cup DOMAIN wc /\ Seen # {}
    BY <2>1 DEF Seen, NoEntries
  <2>3. \A n \in Nodes \ Seen : Value(vc, n) = 0 /\ Value(wc, n) = 0
    BY <2>2 DEF Value
  <2>4. (~SomeMore => NoLater(vc, wc)) /\ (~SomeLess => NoLater(wc, vc))
    BY <1>2, <2>3 DEF SomeMore, SomeLess, NoLater
  <2> QED
    BY <1>1, <1>4, <1>6, <2>2, <2>4 DEF IInv, Verdict, Relation, Results
<1> QED
  BY <1>5, <1>6

(* compare returns how the two vectors are related, whatever entries are   *)
(* missing on either side, unless there are none at all.                   *)
THEOREM CompareIsCorrect == Spec => []CompareCorrect
BY LoopInvariant, CorrectAtEnd, PTL

(* The verdict of compare is at any time the one on the nodes it has seen. *)
THEOREM VerdictIsCorrect == Spec => []Verdict
<1>1. IInv => Verdict
  BY DEF IInv
<1> QED
  BY LoopInvariant, <1>1, PTL
=============================================================================
