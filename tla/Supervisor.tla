----------------------------- MODULE Supervisor -----------------------------
(***************************************************************************)
(* A server that runs its services in processes of their own and restarts  *)
(* the ones that die.  kind says which class it is:                        *)
(*                                                                         *)
(*   "init"    InitServer: a process for every service                     *)
(*   "single"  IterativeServerPerProcess and MultiProcessServerPerProcess: *)
(*             a process for every service                                 *)
(*   "multi"   IterativeMultiServiceServerPerProcess and                   *)
(*             MultiProcessMultiServiceServerPerProcess: at most           *)
(*             maxprocnum_ processes, each with several services           *)
(*                                                                         *)
(* A process that is forked inherits the handler of SIGINT, SIGQUIT and    *)
(* SIGTERM with a copy of pids_, and so kills the processes that were in   *)
(* the set before it when it is told to end.                               *)
(***************************************************************************)
EXTENDS Integers, FiniteSets, Sequences, SequencesExt

CONSTANTS
  Services,      \* services_, a sequence: the order of the map
  Pids,          \* what fork may return
  MaxProcs,      \* maxprocnum_
  MaxStartups,   \* maxstartups_
  MaxSignals     \* bound on the signals sent to a child from outside

ASSUME BoundsAssumption ==
  /\ MaxProcs \in Nat \ {0}
  /\ MaxStartups \in Nat \ {0}
  /\ MaxSignals \in Nat

(* The services have different names, and fork gives the parent no 0.      *)
ASSUME NamesAssumption ==
  /\ Services \in Seq(ToSet(Services))
  /\ \A i, j \in DOMAIN Services : Services[i] = Services[j] => i = j
  /\ 0 \notin Pids

VARIABLES
  kind,      \* the class, see above
  bad,       \* the services whose address Service does not understand
  phase,     \* where run() is, or how it ended
  next,      \* sit: the index of the next service to start
  procs,     \* iproc - 1: the processes started before the waiting loop
  due,       \* the data of the process that is to be forked next
  forked,    \* the process that was forked and is not tracked yet
  pids,      \* pids_
  table,     \* pid2services_, and the PIDData of the single classes
  state,     \* each pid is free, live, or a zombie to be waited for
  runs,      \* the services that a process runs
  knows,     \* the copy of pids_ that a process has inherited
  told,      \* the processes with a SIGINT that they have not handled
  starts,    \* how often each service was started so far, see Once
  mixed,     \* the services with data under a pid when it was used again
  signals    \* signals sent from outside so far

vars == <<kind, bad, phase, next, procs, due, forked, pids, table, state,
          runs, knows, told, starts, mixed, signals>>

system == <<state, runs, knows, told, starts, mixed>>

Kinds == {"init", "single", "multi"}
Names == ToSet(Services)
None == [pid |-> 0, data |-> {}]

(* Data of a service in a process: PID2ServiceData.                        *)
Data(service, startups) == [service |-> service, startups |-> startups]

Live(p) == state[p] = "live"
Children == {p \in Pids : state[p] # "free"}

Init ==
  /\ kind \in Kinds
  /\ bad \in {B \in SUBSET Names : Cardinality(B) <= (IF kind = "init" THEN 0 ELSE 1)}
  /\ phase = "starting"
  /\ next = 1
  /\ procs = 0
  /\ due = {}
  /\ forked = None
  /\ pids = {}
  /\ table = {}
  /\ state = [p \in Pids |-> "free"]
  /\ runs = [p \in Pids |-> {}]
  /\ knows = [p \in Pids |-> {}]
  /\ told = {}
  /\ starts = [s \in Names |-> 0]
  /\ mixed = {}
  /\ signals = 0
-----------------------------------------------------------------------------
(* Mutant: the remainder of the division is left out.                      *)
PerProcess_Floor ==
  IF kind # "multi" THEN 1 ELSE Len(Services) \div MaxProcs

(* services_per_proc: the services over the processes, rounded up.         *)
PerProcess ==
  IF kind # "multi" THEN 1
  ELSE LET n == Len(Services)
       IN n \div MaxProcs + (IF n % MaxProcs > 0 THEN 1 ELSE 0)

Limit == IF kind = "multi" THEN MaxProcs ELSE Len(Services)

Starting == phase = "starting" /\ due = {} /\ forked = None
MoreToStart == next <= Len(Services) /\ procs < Limit

(* Mutant: a service more is taken than sit is moved on.                   *)
Group_OneMore == {Services[i] : i \in {j \in DOMAIN Services :
                                         next <= j /\ j <= next + PerProcess}}

(* proc_svcs: the services of the next process.                            *)
Group == {Services[i] : i \in {j \in DOMAIN Services :
                                 next <= j /\ j < next + PerProcess}}

NextGroup ==
  /\ Starting
  /\ MoreToStart
  /\ Group \cap bad = {}
  /\ due' = {Data(s, 1) : s \in Group}
  /\ next' = IF next + PerProcess <= Len(Services) THEN next + PerProcess
             ELSE Len(Services) + 1
  /\ procs' = procs + 1
  /\ UNCHANGED <<kind, bad, phase, forked, pids, table, system, signals>>

(* A service with a bad address: a single class returns, a multi class     *)
(* ends in MustBeTrue, in the child and then in the parent.                *)
BadService ==
  /\ Starting
  /\ MoreToStart
  /\ Group \cap bad # {}
  /\ phase' = IF kind = "single" THEN "failed" ELSE "aborted"
  /\ UNCHANGED <<kind, bad, next, procs, due, forked, pids, table, system,
                 signals>>

StartWaiting ==
  /\ Starting
  /\ ~ MoreToStart
  /\ phase' = "waiting"
  /\ UNCHANGED <<kind, bad, next, procs, due, forked, pids, table, system,
                 signals>>

(* The kernel gives a new process any pid that no process has; a multi     *)
(* class may still have it in pids_ and pid2services_, for it forgets no   *)
(* process that it has replaced.                                           *)
Available(p) == state[p] = "free"

Entries(p) == {e \in table : e.pid = p}

(* starts and mixed are history.  Once a service was started more often    *)
(* than it may be, the count stays.                                        *)
Once(n) == IF n <= MaxStartups THEN n + 1 ELSE n

Fork(p) ==
  /\ phase \in {"starting", "waiting"}
  /\ due # {}
  /\ Available(p)
  /\ forked' = [pid |-> p, data |-> due]
  /\ due' = {}
  /\ state' = [state EXCEPT ![p] = "live"]
  /\ runs' = [runs EXCEPT ![p] = {d.service : d \in due}]
  /\ knows' = [knows EXCEPT ![p] = pids]
  /\ starts' = [s \in Names |-> IF \E d \in due : d.service = s
                                THEN Once(starts[s]) ELSE starts[s]]
  /\ mixed' = mixed \cup {e.data.service : e \in Entries(p)}
  /\ UNCHANGED <<kind, bad, phase, next, procs, pids, table, told, signals>>

ForkFails ==
  /\ phase \in {"starting", "waiting"}
  /\ due # {}
  /\ phase' = "aborted"
  /\ due' = {}
  /\ UNCHANGED <<kind, bad, next, procs, forked, pids, table, system, signals>>

(* Mutant: the data is entered, the pid is not.                            *)
Track_NoPid ==
  /\ phase \in {"starting", "waiting"}
  /\ forked # None
  /\ table' = table \cup {[pid |-> forked.pid, data |-> d] : d \in forked.data}
  /\ forked' = None
  /\ UNCHANGED <<kind, bad, phase, next, procs, due, pids, system, signals>>

(* The parent enters the new process in its tables.                        *)
Track ==
  /\ phase \in {"starting", "waiting"}
  /\ forked # None
  /\ table' = table \cup {[pid |-> forked.pid, data |-> d] : d \in forked.data}
  /\ pids' = pids \cup {forked.pid}
  /\ forked' = None
  /\ UNCHANGED <<kind, bad, phase, next, procs, due, system, signals>>

(* The data of InitServer copies its pointer to the server from itself,    *)
(* before it has a value: this may end the parent, and a child that is     *)
(* started again has nothing to run and dies.                              *)
BadCopy ==
  /\ kind = "init"
  /\ phase \in {"starting", "waiting"}
  /\ forked # None
  /\ phase' = "aborted"
  /\ UNCHANGED <<kind, bad, next, procs, due, forked, pids, table, system, signals>>
-----------------------------------------------------------------------------
Waiting == phase = "waiting" /\ due = {} /\ forked = None

(* Mutant: one startup too few.                                            *)
Again_OneLess(p) ==
  {Data(e.data.service, e.data.startups + 1) :
     e \in {f \in Entries(p) : f.data.startups + 1 < MaxStartups}}

(* The data of the services of p that are started once more: of all that   *)
(* equal_range(p) returns, also what a former process of that pid ran.     *)
(* Data that is there twice over is not told from data that is there once. *)
Again(p) ==
  {Data(e.data.service, e.data.startups + 1) :
     e \in {f \in Entries(p) : f.data.startups < MaxStartups}}

(* The pid of a process that died leaves the tables, but not in a multi    *)
(* class when the process is replaced.                                     *)
Forgets(p) == kind # "multi" \/ Again(p) = {}

(* waitpid returns p.                                                      *)
Reap(p) ==
  /\ Waiting
  /\ pids # {}
  /\ state[p] = "zombie"
  /\ state' = [state EXCEPT ![p] = "free"]
  /\ due' = Again(p)
  /\ pids' = IF Forgets(p) THEN pids \ {p} ELSE pids
  /\ table' = IF Forgets(p) THEN table \ Entries(p) ELSE table
  /\ UNCHANGED <<kind, bad, phase, next, procs, forked, runs, knows, told,
                 starts, mixed, signals>>

(* waitpid fails with ECHILD.                                              *)
NoChildren ==
  /\ Waiting
  /\ pids # {}
  /\ Children = {}
  /\ pids' = {}
  /\ phase' = "failed"
  /\ UNCHANGED <<kind, bad, next, procs, due, forked, table, system, signals>>

Emptied ==
  /\ Waiting
  /\ pids = {}
  /\ phase' = "returned"
  /\ UNCHANGED <<kind, bad, next, procs, due, forked, pids, table, system,
                 signals>>
-----------------------------------------------------------------------------
(* Mutant: pids_ is cleared first.                                         *)
Finish_ClearFirst(end) ==
  /\ pids' = {}
  /\ phase' = end
  /\ UNCHANGED <<kind, bad, next, procs, due, forked, table, told, state, runs,
                 knows, starts, mixed, signals>>

(* finish(): SIGINT to every process in pids_.                             *)
Finish(end) ==
  /\ told' = told \cup {p \in pids : Live(p)}
  /\ pids' = {}
  /\ phase' = end
  /\ UNCHANGED <<kind, bad, next, procs, due, forked, table, state, runs,
                 knows, starts, mixed, signals>>

(* The handler of SIGINT, SIGQUIT and SIGTERM in the parent, between any   *)
(* two steps of run().                                                     *)
Interrupted == phase \in {"starting", "waiting"} /\ Finish("stopped")

(* finish(), called by the program when run() has returned.                *)
Finished == phase \in {"failed", "returned"} /\ Finish("finished")

(* A child is sent a signal from outside.                                  *)
SignalChild(p) ==
  /\ signals < MaxSignals
  /\ Live(p)
  /\ told' = told \cup {p}
  /\ signals' = signals + 1
  /\ UNCHANGED <<kind, bad, phase, next, procs, due, forked, pids, table,
                 state, runs, knows, starts, mixed>>

(* A process that ends is a zombie while it has a parent that may wait.     *)
Ends(p) ==
  /\ Live(p)
  /\ state' = [state EXCEPT ![p] = IF phase \in {"stopped", "finished", "aborted"}
                                   THEN "free" ELSE "zombie"]
  /\ runs' = [runs EXCEPT ![p] = {}]
  /\ knows' = [knows EXCEPT ![p] = {}]
  /\ UNCHANGED <<kind, bad, phase, next, procs, due, forked, pids, table,
                 starts, mixed, signals>>

(* The handler in a child: finish() on its copy of pids_, and exit.  The   *)
(* copy may have the pids of processes that came later, and its own.       *)
ChildHandles(p) ==
  /\ p \in told
  /\ Ends(p)
  /\ told' = (told \cup {q \in knows[p] : Live(q)}) \ {p}

(* A child crashes, or its server returns.                                 *)
ChildDies(p) ==
  /\ Ends(p)
  /\ told' = told \ {p}

Run ==
  \/ NextGroup \/ BadService \/ StartWaiting \/ Track \/ NoChildren \/ Emptied
  \/ \E p \in Pids : Fork(p) \/ Reap(p)

Next ==
  \/ Run \/ ForkFails \/ BadCopy \/ Interrupted \/ Finished
  \/ \E p \in Pids : SignalChild(p) \/ ChildHandles(p) \/ ChildDies(p)

Spec == Init /\ [][Next]_vars

(* The parent goes on, and waitpid passes over no zombie for ever: Linux   *)
(* looks at the children from the oldest one.                              *)
FairSpec == Spec /\ WF_vars(Run) /\ \A p \in Pids : SF_vars(Reap(p))
-----------------------------------------------------------------------------
InControl == phase \in {"starting", "waiting"}

(* The parent knows of every child that it has not waited for, and of all  *)
(* that it runs; a single or init class knows of no other, so it never     *)
(* kills one.  The tables say more than is so only of services that were   *)
(* under a pid which the kernel has used again.                            *)
Tracked ==
  InControl =>
    /\ Children \subseteq pids \cup {forked.pid}
    /\ kind # "multi" => pids \subseteq Children
    /\ \A p \in Pids : Live(p) /\ p # forked.pid =>
         LET known == {e.data.service : e \in Entries(p)}
         IN runs[p] \subseteq known /\ known \subseteq runs[p] \cup mixed

(* No service runs in two processes; one whose data was under a pid that   *)
(* was used again may.  The others stay as they are though a process may   *)
(* run both.                                                               *)
OneProcess ==
  \A p, q \in Pids :
    Live(p) /\ Live(q) /\ p # q => runs[p] \cap runs[q] \subseteq mixed

(* run() gives up only when every service was started as often as it may   *)
(* be, and none is running any more, whatever pids were used again; more   *)
(* often only those that this has mixed up.                                *)
GivesUpLast ==
  /\ \A s \in Names \ mixed : starts[s] <= MaxStartups
  /\ phase \in {"failed", "returned"} /\ bad = {} =>
       Children = {} /\ \A s \in Names : starts[s] >= MaxStartups

(* pid2services_ tells what a process runs.  It does not, once a pid is    *)
(* used again: what its former process ran is started a second time when   *)
(* the new one dies.                                                       *)
TableTellsRuns ==
  InControl =>
    \A p \in Pids : Live(p) /\ p # forked.pid =>
      {e.data.service : e \in Entries(p)} = runs[p]

(* When the parent is told to end, so is every child, but for one that it  *)
(* has forked and not yet entered in pids_.                                *)
NoneLeftBehind ==
  phase \in {"stopped", "finished"} =>
    \A p \in Pids : Live(p) => p \in told \/ p = forked.pid

(* A service that died and may be started again is, unless the parent is   *)
(* ended.                                                                  *)
Running(s) == \E p \in Pids : Live(p) /\ s \in runs[p]

Restarted ==
  \A s \in Names :
    (phase = "waiting" /\ ~ Running(s) /\ starts[s] < MaxStartups)
      ~> (Running(s) \/ ~ InControl)
-----------------------------------------------------------------------------
(* The inductive invariant of the safety properties.  A service belongs to *)
(* one process, to the one that is to be forked, or is still to be started.*)
ServicesOf(data) == {d.service : d \in data}

Owned(p) ==
  IF p = forked.pid THEN ServicesOf(forked.data)
  ELSE {e.data.service : e \in Entries(p)}

Later == {Services[i] : i \in {j \in DOMAIN Services : next <= j}}

Typed ==
  /\ next \in Int /\ procs \in Int
  /\ state \in [Pids -> {"free", "live", "zombie"}]
  /\ runs \in [Pids -> SUBSET Names]
  /\ ServicesOf(due) \subseteq Names
  /\ ServicesOf(forked.data) \subseteq Names
  /\ \A e \in table : e.data.service \in Names
  /\ pids \subseteq Pids
  /\ forked # None => forked.pid \in Pids /\ due = {}

Known ==
  /\ InControl \/ phase \in {"failed", "returned"} =>
       Children \subseteq pids \cup {forked.pid}
  /\ InControl => /\ kind # "multi" => pids \subseteq Children \ {forked.pid}
                  /\ \A e \in table : e.pid \in pids
                  /\ forked # None => forked.pid \in Children

(* ... unless it is mixed, as is what a former process of the new one's    *)
(* pid has left in the table.                                              *)
Apart ==
  InControl =>
    /\ \A p \in Pids : Live(p) =>
         runs[p] \subseteq Owned(p) /\ Owned(p) \subseteq runs[p] \cup mixed
    /\ \A p, q \in Children : p # q => Owned(p) \cap Owned(q) \subseteq mixed
    /\ \A p \in Children :
         Owned(p) \cap (ServicesOf(due) \cup Later) \subseteq mixed
    /\ ServicesOf(due) \cap Later \subseteq mixed
    /\ \A e \in table : e.pid = forked.pid => e.data.service \in mixed

IInv == Typed /\ Known /\ Apart /\ OneProcess /\ NoneLeftBehind

(* The inductive invariant behind GivesUpLast: the data of a service never *)
(* says more than how often it was started, and says just that unless it   *)
(* is mixed, ...                                                           *)
Counted ==
  /\ starts \in [Names -> 0 .. MaxStartups + 1]
  /\ \A s \in Names \ mixed : starts[s] <= MaxStartups
  /\ \A s \in Names \cap mixed : starts[s] # 0
  /\ InControl =>
       /\ \A s \in Later : starts[s] = 0
       /\ \A d \in due :
            /\ d.startups \in 1 .. MaxStartups
            /\ d.startups - 1 <= starts[d.service]
            /\ d.service \notin mixed => starts[d.service] = d.startups - 1
       /\ \A d \in forked.data :
            /\ d.startups \in 1 .. MaxStartups
            /\ d.startups <= starts[d.service]
            /\ d.service \notin mixed => starts[d.service] = d.startups
       /\ \A e \in table :
            /\ e.data.startups \in 1 .. MaxStartups
            /\ e.data.startups <= starts[e.data.service]
            /\ e.pid \in Children /\ e.data.service \notin mixed =>
                 starts[e.data.service] = e.data.startups

(* ... a service is forgotten only when it was started for the last time,  *)
(* ...                                                                     *)
Accounted ==
  InControl =>
    \A s \in Names : \/ starts[s] >= MaxStartups
                     \/ s \in Later \cup ServicesOf(due)
                     \/ \E p \in Children : s \in Owned(p)

(* ... and there are processes enough for the services still to be started.*)
EnoughLeft ==
  /\ procs \in 0 .. Limit
  /\ phase = "starting" =>
       Len(Services) - (next - 1) <= (Limit - procs) * PerProcess
  /\ phase = "waiting" => next > Len(Services)

StartsInv == Counted /\ Accounted /\ EnoughLeft /\ GivesUpLast
=============================================================================
