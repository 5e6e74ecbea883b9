-------------------------- MODULE SupervisorProofs --------------------------
(***************************************************************************)
(* The servers that restart their processes know all of them, and run no   *)
(* service in two but those that a pid used again has mixed up, for any    *)
(* services, pids and bounds: IInv is inductive.                           *)
(***************************************************************************)
EXTENDS Supervisor, TLAPS

USE NamesAssumption, BoundsAssumption
USE DEF Live, Children, Names, ToSet, InControl, None, system

(* The invariant holds at the start.                                       *)
LEMMA Inits == Init => IInv
  BY DEF Init, IInv, Typed, Known, Apart, OneProcess, NoneLeftBehind,
         ServicesOf, Owned, Later

(* The services of the next process are no longer to be started.           *)
LEMMA NextGroupStep ==
  ASSUME IInv, NextGroup
  PROVE  IInv'
<1> USE DEF IInv, NextGroup, Starting, Group, Data
<1>a. PerProcess \in Nat
  <2>1. Len(Services) \in Nat /\ Len(Services) \div MaxProcs \in Nat
    OBVIOUS
  <2> QED BY <2>1 DEF PerProcess
<1>b. due = {} /\ forked = None /\ ServicesOf(due)' = Group
  <2>1. /\ due' = {Data(s, 1) : s \in Group}
        /\ \A s \in Group : Data(s, 1).service = s
    OBVIOUS
  <2>2. \A d \in due' : d.service \in Group
    BY <2>1
  <2>3. \A s \in Group : \E d \in due' : d.service = s
    BY <2>1
  <2> HIDE DEF Group, Data, NextGroup
  <2>4. ServicesOf(due)' = Group
    BY <2>2, <2>3 DEF ServicesOf
  <2> QED BY <2>4 DEF NextGroup
<1>c. Group \subseteq Later /\ Later' \cap Group = {} /\ Later' \subseteq Later
  <2>1. Len(Services) \in Nat /\ DOMAIN Services = 1 .. Len(Services)
    OBVIOUS
  <2>2. next \in Int /\ PerProcess \in Int
    BY <1>a DEF Typed
  <2>3. \A j \in DOMAIN Services : next' <= j => next + PerProcess <= j
    BY <2>1, <2>2
  <2>4. \A j \in DOMAIN Services : Services[j] \in Later' => next' <= j
    BY DEF Later
  <2>5. \A j \in DOMAIN Services :
          Services[j] \in Group => j < next + PerProcess
    OBVIOUS
  <2>6. Later' \subseteq {Services[j] : j \in DOMAIN Services}
    BY DEF Later
  <2>7. Later' \cap Group = {}
    <3> HIDE DEF Group, NextGroup
    <3> QED BY <2>1, <2>2, <2>3, <2>4, <2>5, <2>6
  <2>8. Group \subseteq Later
    BY DEF Later
  <2>9. \A j \in DOMAIN Services : next' <= j => next <= j
    BY <1>a, <2>1, <2>2, <2>3
  <2>10. Later' \subseteq Later
    <3> HIDE DEF Group, NextGroup
    <3> QED BY <2>9 DEF Later
  <2> QED BY <2>7, <2>8, <2>10
<1>d. \A q \in Pids : Owned(q)' = Owned(q)
  BY DEF Owned, Entries, ServicesOf
<1>e. /\ Group \subseteq Names
      /\ ServicesOf(forked.data)' = ServicesOf(forked.data)
  <2>1. Group \subseteq Names
    OBVIOUS
  <2> QED BY <2>1 DEF ServicesOf
<1>1. Typed'
  BY <1>a, <1>b, <1>e DEF Typed
<1>2. Known'
  BY DEF Known, Typed
<1>3. Apart'
  <2> HIDE DEF NextGroup, Group
  <2>1. UNCHANGED <<phase, state, runs, mixed, table, forked>>
    BY DEF NextGroup
  <2>2. InControl /\ forked' = forked /\ (InControl') = InControl
    BY <2>1 DEF NextGroup
  <2>3. \A q \in Children : Owned(q) \cap Later \subseteq mixed
    BY <2>2 DEF Apart
  <2>4. \A q \in Children :
          Owned(q)' \cap (ServicesOf(due)' \cup Later') \subseteq mixed
    BY <1>b, <1>c, <1>d, <2>3
  <2>5. \A q \in Pids : Live(q) =>
          runs[q] \subseteq Owned(q)' /\ Owned(q)' \subseteq runs[q] \cup mixed
    BY <1>d, <2>2 DEF Apart
  <2>6. \A q, u \in Children : q # u => Owned(q)' \cap Owned(u)' \subseteq mixed
    BY <1>d, <2>2 DEF Apart
  <2> QED BY <1>b, <1>c, <2>1, <2>2, <2>4, <2>5, <2>6 DEF Apart
<1>4. OneProcess'
  BY DEF OneProcess, Typed
<1>5. NoneLeftBehind'
  BY DEF NoneLeftBehind, Typed
<1> QED BY <1>1, <1>2, <1>3, <1>4, <1>5

(* Steps that only move phase, or give up.                                 *)
LEMMA QuietStep ==
  ASSUME IInv,
         BadService \/ StartWaiting \/ NoChildren \/ Emptied \/ ForkFails \/ BadCopy
  PROVE  IInv'
<1> USE DEF IInv, BadService, StartWaiting, NoChildren, Emptied, ForkFails,
            BadCopy, Waiting, Starting
<1>a. /\ \A q \in Pids : Owned(q)' = Owned(q)
      /\ Later' = Later
  BY DEF Owned, Entries, ServicesOf, Later
<1>b. InControl' => ServicesOf(due)' = ServicesOf(due)
  BY DEF ServicesOf
<1>c. ServicesOf(due)' \subseteq ServicesOf(due) /\ forked' = forked
  BY DEF ServicesOf
<1>d. ServicesOf(forked.data)' = ServicesOf(forked.data)
  BY <1>c DEF ServicesOf
<1>1. Typed'
  BY <1>c, <1>d DEF Typed
<1>2. Known'
  BY DEF Known, Typed
<1>3. Apart'
  BY <1>a, <1>b DEF Apart, Known, Typed
<1>4. OneProcess'
  BY DEF OneProcess, Typed
<1>5. NoneLeftBehind'
  BY DEF NoneLeftBehind, Typed
<1> QED BY <1>1, <1>2, <1>3, <1>4, <1>5

(* What a new process owns is what was due; what is in the table under its *)
(* pid was left by a process that it has no more to do with.               *)
LEMMA ForkStep ==
  ASSUME IInv, NEW p \in Pids, Fork(p)
  PROVE  IInv'
<1> USE DEF IInv, Fork, Available
<1>a. /\ forked = None /\ InControl /\ p \notin Children /\ p # 0
      /\ forked' = [pid |-> p, data |-> due] /\ due' = {}
      /\ mixed \subseteq mixed'
  BY DEF Typed, Known
<1>b. Owned(p)' = ServicesOf(due) /\ ServicesOf(due)' = {}
  BY <1>a DEF Owned, ServicesOf
<1>c. \A q \in Pids \ {p} : Owned(q)' = Owned(q)
  BY <1>a DEF Owned, Entries
<1>d. runs' = [runs EXCEPT ![p] = ServicesOf(due)] /\ Later' = Later
  BY DEF ServicesOf, Later
<1>e. ServicesOf(forked.data)' = ServicesOf(due)
  BY <1>a DEF ServicesOf
<1>1. Typed'
  <2>1. /\ state' = [state EXCEPT ![p] = "live"]
        /\ UNCHANGED <<next, procs, pids, table>>
    OBVIOUS
  <2>2. ServicesOf(due) \subseteq Names
    BY DEF Typed
  <2> HIDE DEF Fork
  <2> QED BY <1>a, <1>b, <1>d, <1>e, <2>1, <2>2 DEF Typed
<1>2. Known'
  BY DEF Known, Typed
<1>3. Apart'
  <2>1. state' = [state EXCEPT ![p] = "live"] /\ phase' = phase
    OBVIOUS
  <2>2. ServicesOf(due)' = {}
    BY <1>b
  <2>3. \A e \in table' : e.pid = p => e.data.service \in mixed'
    BY DEF Entries
  <2>4. /\ \A q \in Pids : q \in Children' <=> q \in Children \/ q = p
        /\ \A q \in Pids : Live(q)' <=> Live(q) \/ q = p
    BY <2>1 DEF Typed
  <2>5. /\ runs'[p] = ServicesOf(due)
        /\ \A q \in Pids \ {p} : runs'[q] = runs[q]
    BY <1>d DEF Typed
  <2> HIDE DEF Fork
  <2>6. \A q \in Pids : Live(q)' =>
          runs'[q] \subseteq Owned(q)' /\ Owned(q)' \subseteq runs'[q] \cup mixed'
    BY <1>a, <1>b, <1>c, <2>4, <2>5 DEF Apart
  <2>7. \A q, u \in Children' : q # u => Owned(q)' \cap Owned(u)' \subseteq mixed'
    BY <1>a, <1>b, <1>c, <2>4 DEF Apart
  <2>8. \A q \in Children' :
          Owned(q)' \cap (ServicesOf(due)' \cup Later') \subseteq mixed'
    BY <1>a, <1>b, <1>c, <1>d, <2>2, <2>4 DEF Apart
  <2> QED BY <1>a, <2>2, <2>3, <2>6, <2>7, <2>8 DEF Apart
<1>4. OneProcess'
  <2>1. \A q \in Pids \ {p} : Live(q)' => Live(q) /\ q \in Children
    BY DEF Typed
  <2>2. /\ runs'[p] = ServicesOf(due)
        /\ \A q \in Pids \ {p} : runs'[q] = runs[q]
    BY <1>d DEF Typed
  <2> HIDE DEF Fork
  <2>3. \A q \in Pids \ {p} : Live(q)' =>
          runs'[q] \cap runs'[p] \subseteq mixed'
    BY <1>a, <2>1, <2>2 DEF Apart
  <2> QED BY <1>a, <2>1, <2>2, <2>3 DEF OneProcess
<1>5. NoneLeftBehind'
  BY DEF NoneLeftBehind, Typed
<1> QED BY <1>1, <1>2, <1>3, <1>4, <1>5

(* When a new process is entered, it owns what it owned before, and what   *)
(* is mixed.                                                               *)
LEMMA TrackOwned ==
  ASSUME IInv, Track
  PROVE  /\ \A q \in Pids : Owned(q) \subseteq Owned(q)'
         /\ \A q \in Pids : Owned(q)' \subseteq Owned(q) \cup mixed
<1> USE DEF IInv, Track
<1>a. PICK p \in Pids : p = forked.pid /\ p # 0 /\ InControl
  BY DEF Typed
<1>b. Entries(p)' = Entries(p) \cup {[pid |-> p, data |-> d] : d \in forked.data}
  BY <1>a DEF Entries
<1>c. /\ Owned(p)' = {e.data.service : e \in Entries(p)'}
      /\ Owned(p) = ServicesOf(forked.data)
  BY <1>a DEF Owned
<1>d. \A e \in Entries(p) : e.data.service \in mixed
  BY <1>a DEF Apart, Entries
<1>e. Owned(p) \subseteq Owned(p)' /\ Owned(p)' \subseteq Owned(p) \cup mixed
  <2>1. ASSUME NEW e \in Entries(p)'
        PROVE  e.data.service \in ServicesOf(forked.data) \cup mixed
    <3>1. CASE e \in Entries(p)
      BY <1>d, <3>1
    <3>2. CASE e \in {[pid |-> p, data |-> d] : d \in forked.data}
      BY <3>2 DEF ServicesOf
    <3> QED BY <1>b, <2>1, <3>1, <3>2
  <2>2. ASSUME NEW d \in forked.data
        PROVE  \E e \in Entries(p)' : e.data.service = d.service
    <3>1. [pid |-> p, data |-> d] \in Entries(p)'
      BY <1>b
    <3> WITNESS [pid |-> p, data |-> d] \in Entries(p)'
    <3> QED OBVIOUS
  <2> HIDE DEF Track
  <2> QED BY <1>c, <2>1, <2>2 DEF ServicesOf
<1>f. \A q \in Pids \ {p} : Owned(q)' = Owned(q)
  <2>1. ASSUME NEW q \in Pids \ {p} PROVE Entries(q)' = Entries(q)
    BY <1>a DEF Entries
  <2>2. \A q \in Pids \ {p} : q # forked.pid /\ q # forked'.pid
    BY <1>a
  <2> QED BY <2>1, <2>2 DEF Owned
<1> QED BY <1>e, <1>f

(* The new process is entered.                                             *)
LEMMA TrackStep ==
  ASSUME IInv, Track
  PROVE  IInv'
<1> USE DEF IInv, Track
<1>a. PICK p \in Pids : p = forked.pid /\ p # 0
  BY DEF Typed
<1>b. /\ \A q \in Pids : Owned(q) \subseteq Owned(q)'
      /\ \A q \in Pids : Owned(q)' \subseteq Owned(q) \cup mixed
  BY TrackOwned
<1>e. /\ Later' = Later /\ ServicesOf(due)' = ServicesOf(due)
      /\ ServicesOf(forked.data)' = {}
  BY DEF Later, ServicesOf
<1>f. \A e \in table' : e \in table \/ (e.pid = p /\ e.data \in forked.data)
  <2>1. table' = table \cup {[pid |-> p, data |-> d] : d \in forked.data}
    BY <1>a
  <2> HIDE DEF Track
  <2>2. ASSUME NEW e \in {[pid |-> p, data |-> d] : d \in forked.data}
        PROVE  e.pid = p /\ e.data \in forked.data
    <3>1. PICK d \in forked.data : e = [pid |-> p, data |-> d]
      OBVIOUS
    <3>2. e.pid = p /\ e.data = d
      BY <3>1
    <3> QED BY <3>2
  <2>3. ASSUME NEW e \in table', e \notin table
        PROVE  e.pid = p /\ e.data \in forked.data
    <3>1. e \in {[pid |-> p, data |-> d] : d \in forked.data}
      BY <2>1, <2>3
    <3> QED BY <2>2, <3>1
  <2> QED BY <2>3
<1>g. InControl /\ due = {} /\ pids' = pids \cup {p}
  BY <1>a DEF Typed
<1>1. Typed'
  BY <1>a, <1>e, <1>f DEF Typed, ServicesOf
<1>2. Known'
  <2>1. UNCHANGED <<phase, state, kind>> /\ forked' = None /\ forked'.pid = 0
    OBVIOUS
  <2>2. p \in Children
    BY <1>a DEF Known
  <2> HIDE DEF Track
  <2> QED BY <1>a, <1>f, <1>g, <2>1, <2>2 DEF Known, Typed
<1>3. Apart'
  <2>1. UNCHANGED <<phase, state, runs, mixed>> /\ forked'.pid = 0
    OBVIOUS
  <2>2. \A e \in table' : e.pid # 0
    BY <1>a, <1>f, <1>g DEF Known, Typed
  <2> HIDE DEF Track
  <2>3. \A q \in Pids : Live(q) =>
          runs[q] \subseteq Owned(q)' /\ Owned(q)' \subseteq runs[q] \cup mixed
    BY <1>b, <1>g DEF Apart
  <2>4. \A q, u \in Children : q # u => Owned(q)' \cap Owned(u)' \subseteq mixed
    BY <1>b, <1>g DEF Apart
  <2>5. \A q \in Children :
          Owned(q)' \cap (ServicesOf(due)' \cup Later') \subseteq mixed
    BY <1>b, <1>e, <1>g DEF Apart
  <2> QED BY <1>e, <1>g, <2>1, <2>2, <2>3, <2>4, <2>5 DEF Apart
<1>4. OneProcess'
  BY DEF OneProcess, Typed
<1>5. NoneLeftBehind'
  BY DEF NoneLeftBehind, Typed
<1> QED BY <1>1, <1>2, <1>3, <1>4, <1>5

(* The services of a dead process pass to the next one.                    *)
LEMMA ReapStep ==
  ASSUME IInv, NEW p \in Pids, Reap(p)
  PROVE  IInv'
<1> USE DEF IInv, Reap, Waiting, Again, Forgets, Data
<1>a. forked = None /\ forked' = None /\ p # 0 /\ due = {}
  OBVIOUS
<1>b. \A q \in Pids \ {p} : Owned(q)' = Owned(q)
  BY <1>a DEF Owned, Entries
<1>c. ServicesOf(due)' \subseteq Owned(p) /\ Later' = Later
  BY <1>a DEF Owned, Entries, ServicesOf, Later
<1>d. /\ Owned(p) \subseteq Names
      /\ ServicesOf(forked.data)' = ServicesOf(forked.data)
  BY <1>a DEF Owned, Entries, ServicesOf, Typed
<1>1. Typed'
  BY <1>a, <1>c, <1>d DEF Typed
<1>2. Known'
  <2>1. /\ state' = [state EXCEPT ![p] = "free"] /\ phase' = phase
        /\ kind' = kind
        /\ forked = None /\ forked' = None /\ InControl
    OBVIOUS
  <2>2. CASE Forgets(p)
    <3>1. pids' = pids \ {p} /\ \A e \in table' : e \in table /\ e.pid # p
      BY <2>2 DEF Entries
    <3> HIDE DEF Reap, Again, Forgets
    <3> QED BY <2>1, <3>1 DEF Known, Typed
  <2>3. CASE ~ Forgets(p)
    <3>1. kind = "multi" /\ pids' = pids /\ table' = table
      BY <2>3
    <3> HIDE DEF Reap, Again, Forgets
    <3> QED BY <2>1, <3>1 DEF Known, Typed
  <2> QED BY <2>2, <2>3
<1>3. Apart'
  <2>1. /\ state' = [state EXCEPT ![p] = "free"] /\ phase' = phase
        /\ runs' = runs /\ mixed' = mixed
        /\ p \in Children /\ InControl /\ forked.pid = 0
        /\ \A e \in table' : e \in table
    OBVIOUS
  <2>2. /\ \A q \in Pids : q \in Children' <=> q \in Children /\ q # p
        /\ \A q \in Pids : Live(q)' => Live(q) /\ q # p
    BY <2>1 DEF Typed
  <2> HIDE DEF Reap, Again
  <2> QED BY <1>a, <1>b, <1>c, <2>1, <2>2 DEF Apart
<1>4. OneProcess'
  BY DEF OneProcess, Typed
<1>5. NoneLeftBehind'
  BY DEF NoneLeftBehind, Typed
<1> QED BY <1>1, <1>2, <1>3, <1>4, <1>5

(* Every process that is known is told.                                    *)
LEMMA FinishStep ==
  ASSUME IInv, Interrupted \/ Finished
  PROVE  IInv'
<1> USE DEF IInv, Interrupted, Finished, Finish
<1>a. /\ \A q \in Pids : Owned(q)' = Owned(q)
      /\ Later' = Later
  BY DEF Owned, Entries, ServicesOf, Later
<1>b. InControl' => ServicesOf(due)' = ServicesOf(due)
  BY DEF ServicesOf
<1>c. ServicesOf(due)' \subseteq ServicesOf(due) /\ forked' = forked
  BY DEF ServicesOf
<1>d. ServicesOf(forked.data)' = ServicesOf(forked.data)
  BY <1>c DEF ServicesOf
<1>1. Typed'
  BY <1>c, <1>d DEF Typed
<1>2. Known'
  BY DEF Known, Typed
<1>3. Apart'
  BY <1>a, <1>b DEF Apart, Known, Typed
<1>4. OneProcess'
  BY DEF OneProcess, Typed
<1>5. NoneLeftBehind'
  BY DEF NoneLeftBehind, Known, Typed
<1> QED BY <1>1, <1>2, <1>3, <1>4, <1>5

(* A signal from outside.                                                  *)
LEMMA SignalStep ==
  ASSUME IInv, NEW p \in Pids, SignalChild(p)
  PROVE  IInv'
<1> USE DEF IInv, SignalChild
<1>a. /\ \A q \in Pids : Owned(q)' = Owned(q)
      /\ Later' = Later
  BY DEF Owned, Entries, ServicesOf, Later
<1>b. InControl' => ServicesOf(due)' = ServicesOf(due)
  BY DEF ServicesOf
<1>c. ServicesOf(due)' \subseteq ServicesOf(due) /\ forked' = forked
  BY DEF ServicesOf
<1>d. ServicesOf(forked.data)' = ServicesOf(forked.data)
  BY <1>c DEF ServicesOf
<1>1. Typed'
  BY <1>c, <1>d DEF Typed
<1>2. Known'
  BY DEF Known, Typed
<1>3. Apart'
  BY <1>a, <1>b DEF Apart, Known, Typed
<1>4. OneProcess'
  BY DEF OneProcess, Typed
<1>5. NoneLeftBehind'
  BY DEF NoneLeftBehind, Typed
<1> QED BY <1>1, <1>2, <1>3, <1>4, <1>5

(* A process ends, told or not.                                            *)
LEMMA EndsStep ==
  ASSUME IInv, NEW p \in Pids, ChildHandles(p) \/ ChildDies(p)
  PROVE  IInv'
<1> USE DEF IInv, ChildHandles, ChildDies, Ends
<1>a. /\ \A q \in Pids : Owned(q)' = Owned(q)
      /\ Later' = Later
  BY DEF Owned, Entries, ServicesOf, Later
<1>b. InControl' => ServicesOf(due)' = ServicesOf(due)
  BY DEF ServicesOf
<1>c. ServicesOf(due)' \subseteq ServicesOf(due) /\ forked' = forked
  BY DEF ServicesOf
<1>d. ServicesOf(forked.data)' = ServicesOf(forked.data)
  BY <1>c DEF ServicesOf
<1>1. Typed'
  BY <1>c, <1>d DEF Typed
<1>2. Known'
  BY DEF Known, Typed
<1>3. Apart'
  BY <1>a, <1>b DEF Apart, Known, Typed
<1>4. OneProcess'
  BY DEF OneProcess, Typed
<1>5. NoneLeftBehind'
  BY DEF NoneLeftBehind, Typed
<1> QED BY <1>1, <1>2, <1>3, <1>4, <1>5

(* Every step keeps the invariant.                                         *)
LEMMA Steps == IInv /\ [Next]_vars => IInv'
<1> SUFFICES ASSUME IInv, [Next]_vars PROVE IInv'
  OBVIOUS
<1>1. CASE NextGroup
  BY <1>1, NextGroupStep
<1>2. CASE \/ BadService \/ StartWaiting \/ NoChildren \/ Emptied
           \/ ForkFails \/ BadCopy
  BY <1>2, QuietStep
<1>3. CASE \E p \in Pids : Fork(p)
  BY <1>3, ForkStep
<1>4. CASE Track
  BY <1>4, TrackStep
<1>5. CASE \E p \in Pids : Reap(p)
  BY <1>5, ReapStep
<1>6. CASE Interrupted \/ Finished
  BY <1>6, FinishStep
<1>7. CASE \E p \in Pids : SignalChild(p)
  BY <1>7, SignalStep
<1>8. CASE \E p \in Pids : ChildHandles(p) \/ ChildDies(p)
  BY <1>8, EndsStep
<1>9. CASE UNCHANGED vars
  <2>1. /\ \A q \in Pids : Owned(q)' = Owned(q)
        /\ Later' = Later /\ ServicesOf(due)' = ServicesOf(due)
        /\ ServicesOf(forked.data)' = ServicesOf(forked.data)
    BY <1>9 DEF vars, Owned, Entries, Later, ServicesOf
  <2> QED BY <1>9, <2>1 DEF vars, IInv, Typed, Known, Apart, OneProcess,
                            NoneLeftBehind
<1> QED
  BY <1>1, <1>2, <1>3, <1>4, <1>5, <1>6, <1>7, <1>8, <1>9 DEF Next, Run
-----------------------------------------------------------------------------
(* Whatever dies and whenever, IInv holds in every reachable state.        *)
THEOREM SupervisorSafe == Spec => []IInv
<1>1. Init => IInv
  BY Inits
<1>2. IInv /\ [Next]_vars => IInv'
  BY Steps
<1> QED BY <1>1, <1>2, PTL DEF Spec

(* pids_ and pid2services_ tell of every child, and of all that it runs;   *)
(* of more only what its pid was entered for before.                       *)
THEOREM ChildrenTracked == Spec => []Tracked
<1>1. IInv => Tracked
  BY DEF IInv, Typed, Known, Apart, Owned, Tracked
<1> QED BY <1>1, SupervisorSafe, PTL

(* No service runs in two processes, however often it is started again,    *)
(* but for those whose data was under a pid that was used again.           *)
THEOREM OneProcessEach == Spec => []OneProcess
<1>1. IInv => OneProcess
  BY DEF IInv
<1> QED BY <1>1, SupervisorSafe, PTL

(* finish() and the signal handler tell every process that was entered.    *)
THEOREM AllAreTold == Spec => []NoneLeftBehind
<1>1. IInv => NoneLeftBehind
  BY DEF IInv
<1> QED BY <1>1, SupervisorSafe, PTL
-----------------------------------------------------------------------------
(* They give up only when every service was started MaxStartups times:     *)
(* StartsInv is inductive, on top of IInv.                                 *)

(* Rounding up: so many services for each of m processes is enough.        *)
LEMMA RoundUp ==
  ASSUME NEW n \in Nat, NEW m \in Nat \ {0}
  PROVE  /\ n \div m \in Nat /\ n % m \in 0 .. m - 1
         /\ n = m * (n \div m) + (n % m)
OBVIOUS

(* All services fit in the processes that may be forked for them.          *)
LEMMA Enough == PerProcess \in Nat /\ Len(Services) <= Limit * PerProcess
<1>1. Len(Services) \in Nat
  OBVIOUS
<1>2. CASE kind # "multi"
  BY <1>1, <1>2 DEF PerProcess, Limit
<1>3. CASE kind = "multi"
  <2> DEFINE q == Len(Services) \div MaxProcs
             r == Len(Services) % MaxProcs
  <2>1. q \in Nat /\ r \in 0 .. MaxProcs - 1 /\ Len(Services) = MaxProcs * q + r
    BY <1>1, RoundUp
  <2>2. PerProcess = q + (IF r > 0 THEN 1 ELSE 0) /\ Limit = MaxProcs
    BY <1>3 DEF PerProcess, Limit
  <2> HIDE DEF q, r
  <2>3. MaxProcs * (q + 1) = MaxProcs * q + MaxProcs
    BY <2>1
  <2> QED BY <2>1, <2>2, <2>3
<1> QED BY <1>2, <1>3

(* The start of one more process leaves enough for the others.             *)
LEMMA OneLess ==
  ASSUME NEW l \in Nat, NEW k \in Nat, k < l, NEW c \in Nat
  PROVE  /\ (l - (k + 1)) * c = (l - k) * c - c
         /\ (l - (k + 1)) * c >= 0
<1>1. (l - (k + 1)) * c = (l - k) * c - c
  OBVIOUS
<1>2. PICK d \in Nat : d = l - (k + 1)
  OBVIOUS
<1>3. d * c >= 0
  OBVIOUS
<1> QED BY <1>1, <1>2, <1>3
-----------------------------------------------------------------------------
(* At the start nothing was started, and there are processes for all.      *)
LEMMA StartsInit == Init => StartsInv
<1> SUFFICES ASSUME Init PROVE StartsInv
  OBVIOUS
<1>1. Counted /\ Accounted
  BY DEF Init, Counted, Accounted, Later
<1>2. EnoughLeft
  <2>1. Limit \in Nat
    BY DEF Limit
  <2>2. Limit - 0 = Limit /\ Len(Services) - (1 - 1) = Len(Services)
    BY <2>1
  <2> QED BY <2>1, <2>2, Enough DEF Init, EnoughLeft
<1>3. GivesUpLast
  BY DEF Init, GivesUpLast
<1> QED BY <1>1, <1>2, <1>3 DEF StartsInv

(* The next services are taken from those still to be started.             *)
LEMMA StartsNextGroup ==
  ASSUME IInv, StartsInv, NextGroup
  PROVE  StartsInv'
<1> USE DEF IInv, StartsInv, NextGroup, Starting
<1>1. PerProcess \in Nat /\ Limit \in Nat /\ Len(Services) \in Nat
  BY Enough DEF Limit
<1>2. /\ \A s \in Group : s \in Later
      /\ \A s \in Later : s \in Group \/ s \in Later'
      /\ \A s \in Later' : s \in Later
  <2>1. next \in Int /\ DOMAIN Services = 1 .. Len(Services)
    BY DEF Typed
  <2>2. \A j \in DOMAIN Services : next' <= j <=> next + PerProcess <= j
    BY <1>1, <2>1
  <2> QED BY <1>1, <2>1, <2>2 DEF Later, Group
<1>3. \A d \in due' : d.service \in Group /\ d.startups = 1
  BY DEF Data
<1>4. \A s \in Group : s \in ServicesOf(due)'
  <2>1. ASSUME NEW s \in Group PROVE Data(s, 1) \in due' /\ Data(s, 1).service = s
    BY <2>1 DEF Data
  <2> QED BY <2>1 DEF ServicesOf
<1>5. \A p \in Pids : Owned(p)' = Owned(p)
  BY DEF Owned, Entries, ServicesOf
<1> HIDE DEF Data
<1>6. Counted'
  <2>1. \A d \in due' : starts[d.service] = 0 /\ d.startups = 1
    BY <1>2, <1>3 DEF Counted
  <2>2. UNCHANGED <<phase, forked, table, state, starts, mixed>> /\ InControl
    OBVIOUS
  <2> HIDE DEF NextGroup
  <2> QED BY <1>2, <2>1, <2>2 DEF Counted
<1>7. Accounted'
  BY <1>2, <1>4, <1>5 DEF Accounted, ServicesOf
<1>8. EnoughLeft'
  <2>1. procs \in Nat /\ procs < Limit /\ next \in Int
    BY DEF EnoughLeft, MoreToStart, Typed
  <2>2. /\ (Limit - (procs + 1)) * PerProcess = (Limit - procs) * PerProcess - PerProcess
        /\ (Limit - (procs + 1)) * PerProcess >= 0
    BY <1>1, <2>1, OneLess
  <2>3. /\ Limit' = Limit /\ PerProcess' = PerProcess
        /\ procs' = procs + 1 /\ phase' = "starting" /\ phase = "starting"
        /\ next' = next + PerProcess \/ next' = Len(Services) + 1
    BY DEF Limit, PerProcess
  <2>4. Len(Services) - (next - 1) <= (Limit - procs) * PerProcess
    BY DEF EnoughLeft
  <2>5. (Limit - procs) * PerProcess \in Int
    BY <1>1, <2>1
  <2>6. Len(Services) - (next' - 1) <= (Limit - (procs + 1)) * PerProcess
    <3> HIDE DEF NextGroup
    <3> QED BY <1>1, <2>1, <2>2, <2>3, <2>4, <2>5
  <2> HIDE DEF NextGroup
  <2> QED BY <1>1, <2>1, <2>3, <2>6 DEF EnoughLeft
<1>9. GivesUpLast'
  BY DEF GivesUpLast, Counted
<1> QED BY <1>6, <1>7, <1>8, <1>9

(* Steps that leave the data and the children of the parent alone.         *)
LEMMA StartsSame ==
  ASSUME IInv, StartsInv,
         UNCHANGED <<kind, next, procs, due, forked, table, starts, mixed>>,
         InControl' => InControl /\ phase' = phase,
         InControl => \A p \in Pids : (p \in Children') <=> (p \in Children)
  PROVE  Counted' /\ Accounted' /\ EnoughLeft'
<1> USE DEF IInv, StartsInv
<1>1. /\ \A p \in Pids : Owned(p)' = Owned(p)
      /\ Later' = Later /\ ServicesOf(due)' = ServicesOf(due)
      /\ Limit' = Limit /\ PerProcess' = PerProcess
  BY DEF Owned, Entries, ServicesOf, Later, Limit, PerProcess
<1>2. Counted'
  BY <1>1 DEF Counted
<1>3. Accounted'
  BY <1>1 DEF Accounted
<1>4. EnoughLeft'
  BY <1>1 DEF EnoughLeft
<1> QED BY <1>2, <1>3, <1>4

(* When nothing is to be started and no child is left, all had their share.*)
LEMMA AllStarted ==
  ASSUME IInv, StartsInv, InControl, due = {}, next > Len(Services),
         Children = {}
  PROVE  \A s \in Names : starts[s] >= MaxStartups
<1>1. Later = {}
  BY DEF IInv, Typed, Later
<1>2. ServicesOf(due) = {}
  BY DEF ServicesOf
<1> QED BY <1>1, <1>2 DEF StartsInv, Accounted

(* The parent waits only when all were started, and gives up only then.    *)
LEMMA StartsQuiet ==
  ASSUME IInv, StartsInv,
         BadService \/ StartWaiting \/ NoChildren \/ Emptied \/ ForkFails \/ BadCopy
  PROVE  StartsInv'
<1> USE DEF IInv, StartsInv
<1>1. CASE BadService \/ ForkFails \/ BadCopy
  <2>1. /\ ~ InControl' /\ phase' \in {"failed", "aborted"}
        /\ phase' = "failed" => bad # {}
        /\ UNCHANGED <<kind, bad, procs, starts, mixed>>
    BY <1>1 DEF BadService, ForkFails, BadCopy
  <2>2. Limit' = Limit /\ PerProcess' = PerProcess
    BY <2>1 DEF Limit, PerProcess
  <2> QED BY <2>1, <2>2 DEF Counted, Accounted, EnoughLeft, GivesUpLast
<1>2. CASE StartWaiting
  <2>1. /\ Later' = Later /\ ServicesOf(due)' = ServicesOf(due)
        /\ \A p \in Pids : Owned(p)' = Owned(p)
        /\ Limit' = Limit /\ PerProcess' = PerProcess
        /\ UNCHANGED <<due, forked, table, state, starts, mixed>>
    BY <1>2 DEF StartWaiting, Later, ServicesOf, Owned, Entries, Limit, PerProcess
  <2>2. Counted' /\ Accounted' /\ GivesUpLast'
    BY <1>2, <2>1
    DEF StartWaiting, Starting, Counted, Accounted, GivesUpLast
  <2>3. next > Len(Services)
    <3>1. PerProcess \in Nat /\ Len(Services) \in Nat /\ next \in Int
      BY Enough DEF Typed
    <3>2. CASE procs < Limit
      BY <1>2, <3>1, <3>2 DEF StartWaiting, MoreToStart
    <3>3. CASE ~ (procs < Limit)
      <4>1. Limit \in Nat
        BY DEF Limit
      <4>2. Limit - procs = 0
        BY <3>3, <4>1 DEF EnoughLeft
      <4>3. Len(Services) - (next - 1) <= 0 * PerProcess
        BY <1>2, <4>2 DEF StartWaiting, Starting, EnoughLeft
      <4> QED BY <3>1, <4>3
    <3> QED BY <3>2, <3>3
  <2>4. EnoughLeft'
    BY <1>2, <2>1, <2>3 DEF StartWaiting, EnoughLeft
  <2> QED BY <2>2, <2>4
<1>3. CASE NoChildren \/ Emptied
  <2>1. /\ ~ InControl' /\ InControl /\ due = {}
        /\ UNCHANGED <<kind, procs, starts, mixed, state>> /\ phase = "waiting"
    BY <1>3 DEF NoChildren, Emptied, Waiting
  <2>2. Children = {}
    BY <1>3 DEF NoChildren, Emptied, Waiting, Known, Typed
  <2>3. next > Len(Services)
    BY <2>1 DEF EnoughLeft
  <2>4. \A s \in Names : starts[s] >= MaxStartups
    BY <2>1, <2>2, <2>3, AllStarted
  <2>5. EnoughLeft'
    BY <1>3, <2>1 DEF NoChildren, Emptied, EnoughLeft, Limit
  <2> QED BY <2>1, <2>2, <2>4, <2>5 DEF Counted, Accounted, GivesUpLast
<1> QED BY <1>1, <1>2, <1>3

(* A fork counts the services of the new process, and of no other.         *)
LEMMA StartsFork ==
  ASSUME IInv, StartsInv, NEW p \in Pids, Fork(p)
  PROVE  StartsInv'
<1> USE DEF IInv, StartsInv
<1>1. /\ forked = None /\ InControl /\ p # 0 /\ p \notin Children
      /\ forked' = [pid |-> p, data |-> due] /\ due' = {}
      /\ UNCHANGED <<kind, bad, phase, next, procs, pids, table>>
      /\ state' = [state EXCEPT ![p] = "live"]
      /\ mixed \subseteq mixed'
      /\ \A e \in table : e.pid = p => e.data.service \in mixed'
  BY DEF Fork, Available, Entries, Typed
<1>2. starts' = [s \in Names |-> IF s \in ServicesOf(due)
                                 THEN Once(starts[s]) ELSE starts[s]]
  BY DEF Fork, ServicesOf
<1>3. /\ Owned(p)' = ServicesOf(due) /\ ServicesOf(due)' = {}
      /\ \A q \in Pids \ {p} : Owned(q)' = Owned(q)
      /\ Later' = Later
  BY <1>1 DEF Owned, ServicesOf, Entries, Later
<1>4. \A d \in due : d.service \in ServicesOf(due) /\ d.service \in Names
  BY DEF ServicesOf, Typed
<1>5. /\ \A s \in Names : starts[s] \in 0 .. MaxStartups + 1
      /\ \A s \in Names : Once(starts[s]) \in starts[s] .. MaxStartups + 1
      /\ \A s \in Names : starts[s] <= MaxStartups => Once(starts[s]) = starts[s] + 1
  BY DEF Once, Counted
<1>6. /\ starts' \in [Names -> 0 .. MaxStartups + 1]
      /\ \A s \in Names : starts[s] <= starts'[s]
  BY <1>2, <1>5
<1>7. \A q \in Pids : q \in Children' <=> q \in Children \/ q = p
  BY <1>1 DEF Typed
<1>8. \A e \in table :
        /\ e.data.startups <= starts'[e.data.service]
        /\ e.pid \in Children' /\ e.data.service \notin mixed' =>
             starts'[e.data.service] = e.data.startups
  <2> SUFFICES ASSUME NEW e \in table
               PROVE  /\ e.data.startups <= starts'[e.data.service]
                      /\ e.pid \in Children' /\ e.data.service \notin mixed' =>
                           starts'[e.data.service] = e.data.startups
    OBVIOUS
  <2>1. /\ e.data.service \in Names /\ e.data.startups \in 1 .. MaxStartups
        /\ e.data.startups <= starts[e.data.service]
    BY <1>1 DEF Typed, Counted
  <2>2. e.data.startups <= starts'[e.data.service]
    BY <1>5, <1>6, <2>1
  <2>3. ASSUME e.pid \in Children', e.data.service \notin mixed'
        PROVE  starts'[e.data.service] = e.data.startups
    <3>1. e.pid \in Children /\ e.pid # forked.pid /\ e.data.service \notin mixed
      BY <1>1, <1>7, <2>3
    <3>2. e.data.service \in Owned(e.pid)
      BY <3>1 DEF Owned, Entries
    <3>3. e.data.service \notin ServicesOf(due)
      BY <1>1, <3>1, <3>2 DEF Apart
    <3> QED BY <1>1, <1>2, <2>1, <3>1, <3>3 DEF Counted
  <2> QED BY <2>2, <2>3
<1>9. \A d \in forked'.data :
        /\ d.startups \in 1 .. MaxStartups
        /\ d.startups <= starts'[d.service]
        /\ d.service \notin mixed' => starts'[d.service] = d.startups
  <2> SUFFICES ASSUME NEW d \in due
               PROVE  /\ d.startups \in 1 .. MaxStartups
                      /\ d.startups <= starts'[d.service]
                      /\ d.service \notin mixed' => starts'[d.service] = d.startups
    BY <1>1
  <2>1. /\ d.startups \in 1 .. MaxStartups
        /\ d.startups - 1 <= starts[d.service]
        /\ d.service \notin mixed' => starts[d.service] = d.startups - 1
    BY <1>1 DEF Counted
  <2>2. starts'[d.service] = Once(starts[d.service]) /\ d.service \in Names
    BY <1>2, <1>4
  <2> QED BY <1>5, <2>1, <2>2 DEF Once
<1>10. \A s \in Later : s \in Names /\ starts'[s] = 0
  <2>1. \A s \in Later : s \in Names /\ starts[s] = 0
    BY <1>1 DEF Later, Counted
  <2>2. \A s \in Later : s \notin ServicesOf(due)
    BY <1>1, <2>1 DEF Apart, Counted
  <2> QED BY <1>2, <2>1, <2>2
<1>15. \A s \in Names \ mixed' : starts'[s] <= MaxStartups
  <2> SUFFICES ASSUME NEW s \in Names \ mixed' PROVE starts'[s] <= MaxStartups
    OBVIOUS
  <2>1. CASE s \in ServicesOf(due)
    <3>1. PICK d \in due : d.service = s
      BY <2>1 DEF ServicesOf
    <3> QED BY <1>1, <1>9, <3>1
  <2>2. CASE s \notin ServicesOf(due)
    BY <1>1, <1>2, <2>2 DEF Counted
  <2> QED BY <2>1, <2>2
<1>16. \A s \in Names \cap mixed' : starts'[s] # 0
  <2>1. \A s \in Names \cap mixed : starts'[s] # 0
    BY <1>5, <1>6 DEF Counted
  <2>2. mixed' = mixed \cup {e.data.service : e \in Entries(p)}
    BY DEF Fork
  <2>3. \A e \in Entries(p) : starts'[e.data.service] # 0
    <3> SUFFICES ASSUME NEW e \in table PROVE starts'[e.data.service] # 0
      BY DEF Entries
    <3>1. e.data.service \in Names /\ e.data.startups \in 1 .. MaxStartups
      BY <1>1 DEF Typed, Counted
    <3> QED BY <1>5, <1>6, <1>8, <3>1
  <2> QED BY <2>1, <2>2, <2>3
<1>11. Counted'
  <2>1. \A e \in table : e.data.startups \in 1 .. MaxStartups
    BY <1>1 DEF Counted
  <2> QED BY <1>1, <1>3, <1>6, <1>8, <1>9, <1>10, <1>15, <1>16, <2>1 DEF Counted
<1>12. Accounted'
  <2> SUFFICES ASSUME NEW s \in Names
               PROVE  \/ starts'[s] >= MaxStartups
                      \/ s \in Later' \cup ServicesOf(due)'
                      \/ \E q \in Children' : s \in Owned(q)'
    BY DEF Accounted
  <2>1. CASE s \in ServicesOf(due)
    BY <1>3, <1>7, <2>1
  <2>2. CASE s \notin ServicesOf(due)
    <3>1. starts'[s] = starts[s]
      BY <1>2, <2>2
    <3> QED BY <1>1, <1>3, <1>7, <2>2, <3>1 DEF Accounted
  <2> QED BY <2>1, <2>2
<1>13. EnoughLeft'
  BY <1>1 DEF EnoughLeft, Limit, PerProcess
<1>14. GivesUpLast'
  BY <1>1, <1>15 DEF GivesUpLast
<1> QED BY <1>11, <1>12, <1>13, <1>14

(* The data of the new process is entered as it is.                        *)
LEMMA StartsTrack ==
  ASSUME IInv, StartsInv, Track
  PROVE  StartsInv'
<1> USE DEF IInv, StartsInv
<1>1. /\ InControl /\ due = {} /\ forked' = None /\ forked'.data = {}
      /\ UNCHANGED <<kind, bad, phase, next, procs, due, state, starts, mixed>>
      /\ table' = table \cup {[pid |-> forked.pid, data |-> d] : d \in forked.data}
  BY DEF Track, Typed
<1>2. /\ \A q \in Pids : Owned(q) \subseteq Owned(q)'
      /\ Later' = Later /\ ServicesOf(due)' = ServicesOf(due)
      /\ Limit' = Limit /\ PerProcess' = PerProcess
  BY <1>1, TrackOwned DEF Later, ServicesOf, Limit, PerProcess
<1>3. \A e \in table' : e \in table \/ e.data \in forked.data
  <2>1. ASSUME NEW d \in forked.data
        PROVE  [pid |-> forked.pid, data |-> d].data = d
    OBVIOUS
  <2> QED BY <1>1, <2>1
<1>4. Counted'
  BY <1>1, <1>2, <1>3 DEF Counted
<1>5. Accounted'
  BY <1>1, <1>2 DEF Accounted
<1>6. EnoughLeft' /\ GivesUpLast'
  BY <1>1, <1>2 DEF EnoughLeft, GivesUpLast
<1> QED BY <1>4, <1>5, <1>6

(* A service of a dead process is started again, or had its share.         *)
LEMMA StartsReap ==
  ASSUME IInv, StartsInv, NEW p \in Pids, Reap(p)
  PROVE  StartsInv'
<1> USE DEF IInv, StartsInv
<1>1. /\ InControl /\ due = {} /\ forked = None /\ p # 0 /\ p \in Children
      /\ UNCHANGED <<kind, bad, phase, next, procs, forked, starts, mixed>>
      /\ state' = [state EXCEPT ![p] = "free"]
      /\ due' = Again(p)
      /\ \A e \in table' : e \in table
  BY DEF Reap, Waiting, Entries
<1>2. /\ \A q \in Pids \ {p} : Owned(q)' = Owned(q)
      /\ Owned(p) = {e.data.service : e \in Entries(p)}
      /\ Later' = Later
  BY DEF Reap, Waiting, Owned, Entries, Later
<1>3. \A q \in Pids : q \in Children' <=> q \in Children /\ q # p
  BY <1>1 DEF Typed
<1>4. \A e \in Entries(p) :
        /\ e.data.service \in Names
        /\ e.data.startups <= starts[e.data.service]
        /\ e.data.service \notin mixed => starts[e.data.service] = e.data.startups
        /\ e.data.startups \in 1 .. MaxStartups
        /\ starts[e.data.service] \in Int
  BY <1>1 DEF Entries, Counted, Typed
<1>5. \A d \in due' : /\ d.startups \in 1 .. MaxStartups
                      /\ d.startups - 1 <= starts[d.service]
                      /\ d.service \notin mixed =>
                           starts[d.service] = d.startups - 1
  <2> SUFFICES ASSUME NEW e \in Entries(p), e.data.startups < MaxStartups
               PROVE  LET d == Data(e.data.service, e.data.startups + 1)
                      IN  /\ d.startups \in 1 .. MaxStartups
                          /\ d.startups - 1 <= starts[d.service]
                          /\ d.service \notin mixed =>
                               starts[d.service] = d.startups - 1
    BY <1>1 DEF Again
  <2> QED BY <1>4 DEF Data
<1>6. \A s \in Owned(p) : starts[s] >= MaxStartups \/ s \in ServicesOf(due)'
  <2> SUFFICES ASSUME NEW e \in Entries(p), ~ (starts[e.data.service] >= MaxStartups)
               PROVE  e.data.service \in ServicesOf(due)'
    BY <1>2
  <2> DEFINE d == Data(e.data.service, e.data.startups + 1)
  <2>1. d \in due'
    BY <1>1, <1>4 DEF Again
  <2>2. d.service = e.data.service
    BY DEF Data
  <2> HIDE DEF d
  <2> QED BY <2>1, <2>2 DEF ServicesOf
<1>7. Counted'
  BY <1>1, <1>2, <1>3, <1>5 DEF Counted
<1>8. Accounted'
  <2> SUFFICES ASSUME NEW s \in Names
               PROVE  \/ starts[s] >= MaxStartups
                      \/ s \in Later \cup ServicesOf(due)'
                      \/ \E q \in Children' : s \in Owned(q)'
    BY <1>1, <1>2 DEF Accounted
  <2>1. ServicesOf(due) = {}
    BY <1>1 DEF ServicesOf
  <2>2. CASE s \in Owned(p)
    BY <1>6, <2>2
  <2>3. CASE s \notin Owned(p)
    BY <1>1, <1>2, <1>3, <2>1, <2>3 DEF Accounted
  <2> QED BY <2>2, <2>3
<1>9. EnoughLeft' /\ GivesUpLast'
  BY <1>1 DEF EnoughLeft, GivesUpLast, Limit, PerProcess
<1> QED BY <1>7, <1>8, <1>9

(* The parent is told to end, or ends.                                     *)
LEMMA StartsFinish ==
  ASSUME IInv, StartsInv, Interrupted \/ Finished
  PROVE  StartsInv'
<1>1. /\ phase' \in {"stopped", "finished"}
      /\ UNCHANGED <<kind, procs, starts, mixed>>
  BY DEF Interrupted, Finished, Finish
<1> QED BY <1>1 DEF StartsInv, Counted, Accounted, EnoughLeft, GivesUpLast, Limit

(* A child is told to end, or ends.                                        *)
LEMMA StartsChild ==
  ASSUME IInv, StartsInv, NEW p \in Pids,
         SignalChild(p) \/ ChildHandles(p) \/ ChildDies(p)
  PROVE  StartsInv'
<1> USE DEF IInv, StartsInv
<1>1. /\ UNCHANGED <<kind, bad, phase, next, procs, due, forked, table, starts,
                   mixed>>
      /\ p \in Children
  BY DEF SignalChild, ChildHandles, ChildDies, Ends
<1>2. InControl => \A q \in Pids : (q \in Children') <=> (q \in Children)
  BY DEF SignalChild, ChildHandles, ChildDies, Ends, Typed
<1>3. Counted' /\ Accounted' /\ EnoughLeft'
  BY <1>1, <1>2, StartsSame
<1>4. GivesUpLast'
  BY <1>1 DEF GivesUpLast
<1> QED BY <1>3, <1>4

(* Every step keeps the count of the starts.                               *)
LEMMA StartsSteps == IInv /\ StartsInv /\ [Next]_vars => StartsInv'
<1> SUFFICES ASSUME IInv, StartsInv, [Next]_vars PROVE StartsInv'
  OBVIOUS
<1>1. CASE UNCHANGED vars
  <2>1. Counted' /\ Accounted' /\ EnoughLeft'
    BY <1>1, StartsSame DEF vars
  <2> QED BY <1>1, <2>1 DEF vars, StartsInv, GivesUpLast
<1> QED
  BY <1>1, StartsNextGroup, StartsQuiet, StartsFork, StartsTrack, StartsReap,
     StartsFinish, StartsChild DEF Next, Run
-----------------------------------------------------------------------------
(* The data of a service tells how often it was started, unless it is mixed*)
(* up, and no service is forgotten before its last start.                  *)
THEOREM StartsHold == Spec => []StartsInv
<1> QED BY StartsInit, StartsSteps, SupervisorSafe, PTL DEF Spec

(* A service that is not mixed up is started at most MaxStartups times, and*)
(* run() gives up only when every one was started as often as it may be and*)
(* no child is left.                                                       *)
THEOREM GivesUpWhenDone == Spec => []GivesUpLast
<1>1. StartsInv => GivesUpLast
  BY DEF StartsInv
<1> QED BY <1>1, StartsHold, PTL
=============================================================================
