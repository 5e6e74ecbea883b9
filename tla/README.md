# Verification of the OMBT library

TLA+ models of the library under `src/libsrc`, the TLC runs that check them on
small instances, and proofs, checked by TLAPS, of the theorems that hold for
every instance. File names below are relative to `src/libsrc`.

## 1. The system

The library is a set of C++ building blocks for servers, for predicate calculus
and for statistics. Its parts with state shared by several actors, with a
protocol, or with algorithms on trees are modelled; the numerical parts are pure
floating-point functions.

| Part | State | Operations | Works with |
|---|---|---|---|
| `threads/hdr/Queue.h` | `done_`, `queue_`, a mutex, a condition variable | `enqueue`, `dequeue` (blocks), `done` | any number of threads |
| `threads/hdr/ThreadPool.h` | the job queue, the threads | constructor, `addJob`, worker loop `PoolTask::run`, destructor | Queue, Thread, Job |
| `threads/src/Thread.cpp`, `SimpleThread.cpp` | started, canceled, joined, ok, the pthread attribute | `run`, `dispatch`, `join`, `detach`, `cancel`, destructor | pool, servers |
| `threads/hdr/PriorityQueue.h`, `ThreadBarrier.h` | like Queue; `blocked_` | like Queue; `block`, `unblock`, `wait` | - |
| `reactors/src/IterativeReactor.cpp` | tables of end points and handlers by descriptor, descriptor sets and their counters or epoll bits, timer queue, canceled timers | registration, `run`, the loops over select and epoll, `finish` | EndPoint, Timer, the program's handlers (callbacks that call back) |
| `servers/src/*MultiServiceServer.cpp` | `handlers_`, `timerhandlers_`, the set watched, `maxsocket_`, a timer queue | `init`, `run`, `finish`, for stream and datagram, select and epoll, in one process or forking for each client | sockets, timers, children, SIGCHLD |
| `servers/src/*PerProcess.cpp`, `InitServer.cpp` | `pids_`, `pid2services_`, counts of startups | `init`, `run` (fork, wait, restart), `finish`, handler of SIGINT, SIGQUIT, SIGTERM | the servers above, in children |
| `servers/src/IterativeServer.cpp`, `MultiProcessServer.cpp`, `MultiThreadServer.cpp` | one end point | accept loop with a call, a child or a thread for each client | sockets, SimpleThread |
| `sockets/src/EndPoint.cpp`, `Socket.cpp` | the descriptor, `isOk` | `open`, `accept`, `close`, `read`, `write` | reactor, servers |
| `logic/src/*` | tokens; the parser with its symbol table and scope; trees of semantic records; programs | two tokenizers, two recursive-descent parsers, conversion to conjunctive or disjunctive form and clauses, `reconstruct` | each other, in that order |
| `vectorclock/src/vectorclock.cpp` | sparse map of file node to version | `compare`, `incrementClock`, `build` | the pair of modification and synchronization clocks |
| `timers/src/*`, `atomic/hdr/*`, `signals`, `graphs`, `gstring`, ... | see section 6 | | |

What is hard, and what makes the parts correct:

* **Queue.** Signals are sent after the unlock, consumers wait in a loop, and
  three operations return on five paths. Correct means: a mutex that is released on
  every path, no lost wake-up, no one asleep after `done`, and operations that look
  indivisible to callers.
* **ThreadPool.** Workers take, run and re-queue jobs while the owner adds some
  and destroys the pool. Correct means: a job is in one place, the queue is drained
  before the workers leave, nobody touches the queue when it is gone, jobs that were
  added are run, and the destructor returns.
* **Reactor.** One thread, but the handlers it calls change the tables it is
  looping over, and descriptors are reused by the kernel. Correct means: the tables
  agree with each other, with the kernel and with the open descriptors, an event
  reaches the end point it was reported for, a timer fires unless it was canceled.
* **Multi-service servers.** The same with iterators that go stale, and with
  children that share descriptors and must be reaped. Correct means: tables in step,
  one process that has a connection, no client that waits for ever.
* **Supervising servers.** Children die, forks fail and signals arrive between any
  two steps, and pids are used again. Correct means: the tables know the children, a
  service runs once and is restarted as often as it may be, and all are told when the
  parent ends.
* **Logic.** Correct means: scanner and parsers accept the language that their
  headers give, the symbol table lets only well-bound programs pass, a parser object
  can be used again, and a program in normal form means what was written.
* **Vector clocks.** A merge of two sparse maps must be the order of the vectors
  they stand for.

`PROJECT.json` lists every part (`components`), also those without a model, and the
points where each is easy to get wrong (`hazards`).

## 2. Modules

| Module | Models | Theorems in |
|---|---|---|
| `ClosableQueue` | what a queue promises its callers (abstract) | |
| `JobQueue` | `Queue.h`, one step per stretch of code between two points another thread can see | `JobQueueProofs` |
| `ThreadPool` | `ThreadPool.h`, composed with `JobQueue` by `INSTANCE` | `ThreadPoolProofs` |
| `Reactor` | `IterativeReactor.cpp`, both waiting modes, with the handlers as environment | `ReactorProofs` |
| `MultiServiceServer` | four classes of multi-service servers and `MultiProcessStreamServer` | `MultiServiceServerProofs` |
| `Supervisor` | the five classes of servers that keep their services running in processes | `SupervisorProofs` |
| `VectorClock` | `vectorclock.cpp`, one step per turn of the loops of `compare` | `VectorClockProofs` |
| `Tokenizer` | both tokenizers, one operator per state of the scanner | |
| `ParserKit` | how parse functions call each other and hand on results | |
| `SymbolTable` | `Symbol.cpp` and the semantic checks of the parser | |
| `EqualityParser`, `PredCalcParser` | the two parsers, one operator per parse function | |
| `Semantic` | the records and the functions of `Semantic.cpp` that rewrite them | `NormalFormsProofs`, `MeaningProofs` |
| `NormalForms` | CNFProgram, DNFProgram and ClausesProgram, made of any program that is read | `NormalFormsProofs`, `MeaningProofs` |
| `Reconstruct` | `Semantic::reconstruct` | |
| `LogicProgram` | the client of the above: texts are scanned and parsed, programs are made of them | |
| `Recursion` | for the proofs: the recursive functions of `Semantic`, `NormalForms` and `Meaning` and their measures, listed | `NormalFormsProofs` |
| `Meaning`, `LogicGrammar` | references: truth in an interpretation; the grammars and the lexicon in the headers | |
| `MC*` | instances for TLC | |

### JobQueue and ClosableQueue

`queue`, `done` and `owner` are `queue_`, `done_` and the holder of `cv_mutex_`;
`pc[t]` is the thread's place and `item[t]` its argument or result. Acquiring the
mutex is a step (`AcquireFor...`); what follows under the mutex is one step up to
the unlock when no other thread can see the inside (`EnqueueBody`, `Take`, `GiveUp`,
`DoneBody`); the test of the loop, the test of `done_` and the wait are steps of
their own (`FindEmpty`, `DecideToWait`, `CondWait`), so that a test that went stale
would show; the signal follows the unlock as a separate step. Any thread may wake up
spuriously. `ClosableQueue` has no mutex and no waiting: a call starts, takes effect
in one step, and returns. `JobQueue!Linearizable` maps the place of a thread to the
state of its call and says that every behaviour of the queue is one of
`ClosableQueue`.

### ThreadPool

`life` is the owner's place (constructing, usable, closing, joining, destroyed),
`at[w]` the place of worker `w` in `PoolTask::run`, `pjob[w]` the job it runs. The
calls `enqueue`, `dequeue` and `done` are the calls of `JobQueue`, whose steps
interleave with everything else. `Job::run` is the program's: it returns Finished,
Error or Blocked (at most `MaxBlocks` times per job) and may call `addJob`. `fate`
is a history variable: what became of each job.

### Reactor

The tables are functions of the descriptor (`endpoints`, `handlers`) and sets per
operation (`monitored`, with `count` for `nreaders_` and its siblings). With epoll
`monitored` stands for the bits the reactor keeps in `epolleventflags_` and
`interest` for those the kernel has; the kernel forgets a descriptor when it is
closed, the reactor's bits stay, and `EPOLL_CTL_ADD` and `EPOLL_CTL_MOD` fail when
the two disagree. `pc` is the place in `selectLoop` or `epollLoop`. The program's
calls (`RegisterEndPoint`, `RegisterHandler`, `UnregisterHandler`, `RemoveOther`,
`ScheduleTimer`, `CancelTimer`, `CloseOwn`, `SetDone`) can come before `run` and
from inside every handler; the handler then returns with status 0 (`KeepEndPoint`)
or another one (`DropEndPoint`). The kernel gives `accept` the lowest free
descriptor, as POSIX says, and may report any subset of what it is asked for,
in the order of the descriptors with select and in any order with epoll. Time is
the order of expiry; at a timeout some prefix of the timer queue has expired.

How much handlers may do is a parameter, `Liberties`. A program registers only open
end points, and removes one completely (handlers, registration, socket) unless it
takes the liberty to do otherwise. A handler of an accepted connection is given a
client, and closes it if it does not register it (`sockets/src/Socket.cpp:55`, "call
close explicitly"). `removed` and `wanted` are history variables: the end points
whose handler had them removed, and the timers that were scheduled and neither
canceled nor, for a one-shot timer, run.

### MultiServiceServer

The four loops are copies of one another; `server` says which is running, and a
definition says where the copies differ. `handlers`, `timerhandlers`, `watched`,
`servers` and `maxsocket` are the members and locals of that name or meaning,
`sock[o]` the descriptor of an end point, `where[c]` what became of a client's
connection. `left` is what the loop over `handlers_` has still to visit; after a
handler erased the entry the iterator points to (`astray`) the loop may visit any of
the others, leave, or crash. When fork fails after an accept, the loops over several
end points leave the connection open, for the destructor of a socket does not close
it; `peer` still has it then. A forked process is `stage[p]` with `conn[p]`, what it
serves, and `holds[p]`, what it has open; `sigchld` is a pending SIGCHLD and `Reaper`
its handler, which runs between any two steps.

### Supervisor

`table` is `pid2services_` with its counts of startups, `pids` is `pids_`; `forked`
is the child between `fork` and its entry in the tables, `due` and `next` the
services still to be started again and for the first time. `state` and `runs` are
what the processes really are and do. A new process gets any pid that no process has,
also one that a "multi" class still has in its tables: it erases only processes that
are not replaced, and `equal_range` (`Entries`) then returns old and new services
together. `starts`, `told` and `mixed` are history: how often a service was started (the
count stops one above `MaxStartups`), who was told to end, and the services whose data
was under a pid when it was used again. `Interrupted`
(the parent is told to end) and `SignalChild` may come at any step; a child inherits
a copy of `pids_` and the handler that kills them.

### Logic

A text is a sequence of characters for the tokenizers and a sequence of tokens for
the parsers; a name is a pair of a prefix and a number, so that `uniqueName` and its
counter are translated. `Records` are the trees of semantic records up to a height,
with the number and the kinds of operands that the constructors of `Semantic` give
them. Parse functions return the `ReturnType`, the state and what
they hand back in their `ParseFrame`; `ParserKit` has the three switches that follow
a call. The functions of `Semantic.cpp` change a tree in place; their operators
return the changed tree, as recursive functions over `Records`. `NormalForms` is a
state machine: a program is read (`Read`, any program whose names the user wrote),
`CNFProgram` or `DNFProgram` is made of it one call of `Semantic` at a time, and
clauses are split off. `LogicProgram` puts the parsers before it: a text is read with
a fresh parser object or one that was used before. Its property `MakesNormalForms`
says that it is an instance of `NormalForms`.

### VectorClock

`clock[o]` is the sparse map of an object, from node to version. A map iterator is
represented by the keys it has not passed (`restA`, `restB`), whose least is its
`key()`. `OnlyInA` and `OnlyInB` are the branches for an entry that the other map
lacks, in the first loop and in the loops after it, which do the same. `build` skips
a field with an empty name or value and takes the last of several with one name.
Versions are not negative, as `incrementClock` produces them; a hand-written string
with a negative version would be judged differently against an entry of version 0
and against none.

## 3. Runs

| Run | Instance | Properties and what they say |
|---|---|---|
| `queue` | 3 threads, 2 items, `maxsize_` 1 | `TypeOK`; no thread sleeps over an item (`NoSleepOverItem`) or through the end (`NoSleepThroughDone`); `Linearizable`, which includes the capacity. Three threads are needed for a signal that reaches the wrong one, capacity 1 (so two places) for an item that is dropped |
| `pool` | 2 workers, 2 jobs and a null job, 1 block per job | a job is in one place, nobody uses the queue once it is destroyed, workers leave a drained queue; the destructor returns, added jobs are run, started jobs end. Two workers and two jobs let a re-queued job race with the destructor and with another worker |
| `reactor` | 1 listener, 2 connections, 3 descriptors, both modes, a one-shot and a repeating timer, exception and read handlers, no liberties | handlers are watched for and own their descriptors, removed end points are quiet; nothing is closed unasked (`NoSpuriousClose`), canceled timers stay quiet, wanted ones fire |
| `reactor_liberal` | 1 listener and 2 connections over 2 descriptors, both modes, a timer of a connection, all liberties | what holds whatever handlers do: what is waited for has a handler, sets with members are passed to select, open connections are registered. Fewer descriptors than end points make a descriptor in a stale table be opened again |
| `servers` | 2 services, 2 clients, 4 descriptors, 2 children, 1 timer; nine combinations of class, protocol and waiting call | `TablesAgree`, `OnlyReported`, `OneHolder`; clients are accepted (`Accepted`) |
| `supervisor` | 3 services, 3 pids, 2 processes for a "multi" class, 2 startups, 1 signal from outside; three variants | the tables track the children (`Tracked`), a service runs in one process (`OneProcess`), the loop gives up last (`GivesUpLast`), nobody is left behind (`NoneLeftBehind`), and what died and may be started again is (`Restarted`), mixed up or not. Three services over two processes make the division round; pids come back as soon as the kernel may give them out again, and what this mixes up is excepted by name (`mixed`), not excluded |
| `logic` | the texts of `MCLogic`, each parser object used twice, domain of 2 individuals | see below |
| `clock` | 2 clocks, 3 nodes, versions 0 to 2, any two fields to build from | the merge returns the relation of the vectors and ends; three nodes are needed for a change of direction with an entry missing before or after it |
| `reactor_write`, `reactor_timer`, `supervisor_reuse`, `logic_dnf` | small instances of the same modules | counterexamples, see below |

`logic` compares the code with references. `MeaningKept`: each rewriting keeps the
truth of an entry in every interpretation of its symbols over two individuals, up to
the choice of the new Skolem functions, and the clauses say what the conjunctive form says.
A list of clauses is compared with its formula unless the formula has a marker record
(an option, an end of file) among its conjuncts, which makes no clause (`Unmarked`).
`TruthKept`: the calls that drop no quantifier, `renameVariables` among them, keep the
truth of the entry, in every interpretation and for all values of its free variables.
`VariablesApart`: no two variables are confused by renaming, in an entry or between
clauses. `NormalForm`: what comes out is in the form asked for. `RoundTrip`: the text
of an entry is read back as the entry. `BoundAndTyped`: accepted programs bind each
variable and use each name in one role. `ParseFresh`: a used parser reads like a new
one. `LanguageOfGrammar`: each parser accepts exactly the grammar in its header.
`NextLexeme`: the scanners find the longest next token of the lexicon.
`MakesNormalForms`: what the parser hands on is a program as `NormalForms` supposes
it (`Written`): every record complete, no free variable, every name the user's, and none
both bound by a quantifier and used otherwise. This is the premise of the theorems
about normal forms. The texts are
arguments with no, one and two quantifiers under every connective, every short
sequence over a few kinds of token for the parsers without semantics, and every
short sequence over a few characters for the scanners.

**Bounds.** The queue model has no bound but its constants. In the pool `MaxBlocks`
bounds how often a job returns Blocked. In the reactor an `EndPoint` that nothing
refers to is used again by `accept`, so connections come and go for ever; a tag is
scheduled only while no timer of that tag waits, which bounds the timer queue. In
the servers `MaxTimers` bounds the timers that wait and `Procs` the children alive
at a time; a client connects once. In the supervisor `MaxSignals` bounds the signals
sent to children and `Pids` the processes that exist at a time, while pids are used
again without a bound. `MaxParses` bounds
the calls of one parser object, `MaxVersion` the increments of a clock. `MaxHeight`
bounds the height of records, 40 in the run, where the highest that comes up is lower;
a call whose result were higher is not made. `Identifiers` are the words that the
texts use as names. Deadlock is
not checked in the reactor, the servers, the supervisor and the logic programs,
which stop: after `finish` or a failed select, at the end of a server, when all
texts were read. The queue, the pool and the clocks are checked for it.

**Fairness.** `ThreadPool!FairSpec` is weak fairness for each worker and for each
thread's steps inside the queue: the operating system runs every thread that can
run. No strong fairness of the mutex is needed because contention for it ends in the
bounded instance. Nobody is obliged to add a job, to destroy the pool, or to let
`Job::run` call `addJob`; that `Job::run` returns is assumed. `FewSpuriousWakeups`,
the premise of the three properties, excludes endless spurious wake-ups.
`MultiServiceServer!FairSpec` is weak fairness of the loop, of the handler of
SIGCHLD, and of each child, which ends; the operating system runs each process, and
the program's handlers return. Clients owe nothing. `Supervisor!FairSpec` is weak
fairness of the parent, and strong fairness of waiting for each child: `waitpid(-1)`
returns no younger child again and again while an older one is dead, for Linux looks at
the children from the oldest one. Without it two other children that die in turn could
keep a dead one from being replaced. `VectorClock!FairSpec` is weak fairness of `compare`, a
loop that runs once called.

**Refinement.** `JobQueue` implements `ClosableQueue` (`Abstract == INSTANCE ...
WITH`, property `Linearizable`). `ThreadPool` contains `JobQueue` as `Q`, an instance
whose threads are the owner and the workers, and each of its steps is a step of `Q`
or leaves it alone.

**Counterexamples.** Four runs end in a state that a comment rules out:

* `reactor_write`: `registerWriteHandler` calls `registerReaderWithMultiplexor`, so a
  descriptor with a write handler is watched for reading (`HandlersMonitored`). The
  runs that pass register no write handlers.
* `reactor_timer`: the loops reschedule a repeating timer after its handler returned
  a status that had the end point removed (`RemovedIsQuiet`). The run `reactor`
  schedules timers without an end point only.
* `supervisor_reuse`: with a pid that is used again `pid2services_` does not tell what a
  process runs (`TableTellsRuns`): the run ends when a new process is entered beside the
  services of the replaced process whose pid it has. When it dies, the services of both are
  started again. `Tracked`, `OneProcess` and `GivesUpLast` say what is true all the same.
* `logic_dnf`: `distributionAndsOverOrs` builds disjunctions where its comment says
  conjunctions, so a DNFProgram means something else (`DisjunctionKept`). The calls
  that both forms share are checked by `MeaningKept`.

The border between `reactor` and `reactor_liberal` is the border of what programs
can rely on: with the liberties "unregister" or "remove" an event left over in the
round makes `callHandler` close the end point, although the handler has returned 0,
"success and continue" (`NoSpuriousClose` fails), with "close"
epoll's bits and the kernel's part, so that a later registration fails
(`HandlersMonitored` fails), or select is given a descriptor that is not open and
ends the reactor (`HandlerOwnsSocket` fails), and with "cancel" a request to cancel a
timer that is not waiting swallows the next one with its tag (`WantedFires` fails).

**Behaviours the models have and no property denies.** They are stated here only. When
fork fails, the multi-service servers close the connection they have just accepted
neither then nor in `finish` (`servers/src/MultiProcessMultiServiceServer.cpp:2318`,
`:2530`; `MultiProcessServer.cpp:221` does); `OneHolder` says that nothing else is left.
Two clocks without entries compare as `Unknown`, so `operator==` is false even for a
clock and itself; `CompareCorrect` leaves them out. Of the following nothing in the
repository promises otherwise: dropping canceled timers can leave
the reactor waiting for nothing, and its timers wait while descriptors are ready in
every round; an edge-triggered listener accepts one connection for each event, which
is why `Accepted` is stated without epoll; a loop whose iterator was erased calls
handlers for the wrong events or none, which is why `OnlyReported` leaves it out; a
forking datagram server may fork again before the child has read; a child's loop over the handlers may leave a
listener open; the parser stores the number of arguments of a name and never
compares it; an InitServer copies its service data from itself.

## 4. Theorems

All proofs are checked by TLAPS; none is left open. The assumptions are those on the
constants, named in the modules (for instance `maxsize_ >= 1`, asserted in
`threads/hdr/Queue.h:32`; at least one worker, asserted in
`threads/hdr/ThreadPool.h:87`; a descriptor for every service).

**JobQueueProofs.** `TypeCorrect` proves the types. `QueueSafe` proves `IInv`, the
conjunction of `TypeOK`, `LockHeld`, `FreshTests`, `NoSleepOverItem`,
`NoSleepThroughDone` and `Capacity`, one lemma per conjunct. That nobody sleeps over
an item is not inductive alone: a thread that goes to sleep must have found the
queue empty and it must still be empty (`FreshTests`), which holds because nobody
else holds the mutex meanwhile (`LockHeld`). `QueueLinearizable` uses `TypeOK` and
`LockHeld` to show that each step of the queue maps to a step of `ClosableQueue` or
to none.

**ThreadPoolProofs.** Every step of the pool is a step of the queue or leaves it
alone (`QueueStepOfPool`), so the theorems of `JobQueueProofs`, instantiated, hold
inside the pool (`PoolQueueSafe`). `PoolSafe` proves the inductive invariant `IInv`:
in which methods of the queue the owner and a worker can be at each of their places,
that a `dequeue` that came back empty-handed means a closed and empty queue, that
workers leave in that case only, and that they are joined in order. `NoEarlyLeave`
and `NoUseAfterDestroy` follow. The argument that a closed queue stays empty is why
`enqueue` tests `done_` first.

`JobInOnePlace` counts, which a prover does badly, so `PlaceInv`
says the same without counting: no item is with two threads, twice in the queue, or
both (`AtMostOnce`), its fate tells whether it is anywhere (`FateTells`), and a
worker neither has an item while it waits for one nor queues the job it runs
(`HandsFull`). A step of the queue stores an item, takes one, or is quiet; a lemma
for each says how the items move (`Stored`, `Dropped`, `Taken`, ...). `PlaceHolds`
proves `PlaceInv` and `JobsInOnePlace` the counts. Both assume `FewJobs`: no more
jobs than the default `maxsize_` of the queue, 2^31 - 1, because `enqueue` drops what
is over it without a word; that distinct items then always find room is the
pigeonhole argument of `RoomForAll`.

**ReactorProofs.** `Kinds` sorts the steps by what they do to the tables: most leave
them alone, the others are of seven kinds. `BaseHolds` proves what holds whatever
the handlers do: a descriptor is open for one end point and an open connection is
registered or just accepted (`OneOwner`, hence `NoneForgotten`); a counter is at
least the size of its set (`Counted`; it may be larger, since paths that find no end
point leave it, hence `SetsArePassed` and not its converse); what the kernel is asked
for has a handler (`Handled`, hence `EventsHaveHandlers`). `Handled` speaks of the
bits the kernel knows, for those of the reactor alone outlive a closed descriptor.
For programs that are `Modest` (no liberties, no write handlers) `StrictHolds` adds
that the tables tell of the same open end points (`Agreed`) and that what was
removed is closed; `HandlersAreWatched`, `HandlersOwnSockets` and, for timers without end
points, `RemovedStaysQuiet` follow. `ClosedOnRequest` needs one more invariant,
`InRound`: each event left in a round has its handler still, unless it is of the
descriptor at hand and its end point was removed; such events come next, before the
descriptor can be given to a new connection. This is why the order of the loop
matters, and why a loop by operations would be wrong. For timers, `QueuedHolds`
shows that waiting entries have different tags and are wanted or canceled, whence
`CanceledStayQuiet` for all programs; and if only waiting timers are canceled, no
request outlives its timer (`NoLeftOver`), whence `WantedFire`.

**MultiServiceServerProofs.** `ServersSafe` proves `IInv` of all classes, protocols
and modes at once. `TablesInStep`, `EventsReachTheirOwn` and
`ConnectionsHaveOneHolder` follow. Beside the properties it says that a descriptor
belongs to one end point which is in the tables, or was just forked for, or is the
connection that fork failed for (`OneOwner`),
that forking servers have services only in their tables (`Forks`), that a
connection that is open anywhere was accepted (`Taken`), and that what is left of a
round is in the tables unless the iterator went astray (`Round`).

**SupervisorProofs.** No assumption is made about the pids the kernel gives out, but
that no two processes have the same. `SupervisorSafe` proves `IInv`: each service belongs
to one process, to the one to be forked, or is still to be started, unless it is in
`mixed` (`Apart`), and the parent knows of every child but the one just forked (`Known`).
What the table has under the pid of the process just forked is of a former process, and
mixed. `ChildrenTracked`, `OneProcessEach` and `AllAreTold` follow.

`GivesUpLast` needs the bookkeeping as an invariant, `StartsInv`:
the startups in the data of a service are never more than how often it was started, and
just that unless it is mixed up (`Counted`), a
service is still to be started, in a process, or at its last start (`Accounted`),
and the processes that may still be forked are enough for the services that are left
(`EnoughLeft`), which is where rounding up in `services_per_proc` matters.
`StartsHold` proves it on top of `SupervisorSafe`; `GivesUpWhenDone` follows, for
every number of services, `maxprocnum_` and `maxstartups_`.

**VectorClockProofs.** `LoopInvariant` proves `IInv`, the argument of a merge: the
nodes passed come before those that are left (`InOrder`), `result` is the verdict on
those passed (`Verdict`), and at the end nothing is left or the verdict is already
`Conflict` (`Finished`). `TurnJudges` shows that each turn judges one node with the
versions both vectors have for it, a missing entry being 0; `CompareIsCorrect`
follows. The nodes are assumed to be totally ordered (integers).

**NormalFormsProofs.** *Recursion.* A function that TLA+ defines by recursion satisfies
its definition only if there is such a function at all. `RecursiveFunction` proves that
there is one when the value at x depends on the values at elements of a smaller measure
only, and `MeasureInduction` is induction along that measure. A lemma cannot take the
definition as a parameter here, so `Recursion` lists the right-hand sides under the
names of their functions (`Body`), with what they are defined on (`Over`) and the
measure (`Measure`), and the two are proved for any name. The right-hand side may depend
on a parameter, which for the truth of a formula is an interpretation.

*Shapes.* The first lemmas show that each function of `Semantic` is
well-defined (`PartsDef`, `DemorgansDef`, `SkolemizeDef`, ...), along the height of a
record; `distributeOrs` needs its size instead, for lifting an And can make the
operands higher. The rest says what each function leaves, by induction:
`removeBiconditionals` no biconditional, `removeConditionals` no conditional,
`demorgans` no negation but on atoms, `renameVariables` quantifiers whose names are
different and numbered between the old and the new counter, `skolemize` no
existential, `removeUniversals` no quantifier, a pass of a distribution that changes
nothing no outer operator below an inner one; and that each keeps what the ones before
it have reached. `ProofInvariant` proves `ProofInv`: the copy of an entry has
what the calls before have reached (`CopyReached`, `Reached`), the entries that are
done are normal and every name in them is the user's or numbered up to the counter
(`EntriesDone`), and the variables of the clauses are numbered apart
(`ClausesWell`). The numbers are what makes `VariablesApart` inductive: `uniqueName`
never gives a number twice, so names that were given out before a call and in it are
apart. `NormalFormAlways` and `VariablesApartAlways` follow for every program, every
number of entries, and every order of reading and converting, under one assumption:
records are no higher than `MaxHeight`, any number from 2. They speak of `FormSpec`; that
parsed programs make a behaviour of it is `MakesNormalForms`, which TLC checks.

**MeaningProofs.** What formulas say, over any `Domain` with an element (`DomainAssumption`).
`Truth` takes a list of bindings as `Semantic` has scopes; `Sat(I, e, f)` is truth in
an environment e that gives every name a value, and `AllSat(I, f)` in all of them.
`SatDepends`: only the symbols and the free variables of a formula matter.

*Calls that drop no quantifier.* A rule keeps the truth for every scope
(`BiconditionalsSame`, `ConditionalsSame`, `PushedSame` for a negation through every
connective and quantifier, `LiftedSame` for an Or over an And on either side).
`SameKids` carries it from the operands to the formula; induction along the height,
or the size, gives it for the recursive functions. `RenameVariablesSays` needs more: a
binder is looked up in a stack of renamings, so the environments on both sides differ,
and no free name of the record may be one that a renaming gives out (`Quiet`). It holds
because the new names carry the next numbers, and the names of symbols are not bound
anywhere (`Distinct`); `TameJoin`, `DemorgansTame`, ... show that the calls before it
add no use of a name. `TruthAlwaysKept` follows. The distribution of conjunctions is left
out of `TruthKept`: it is wrong in the code, and `logic_dnf` shows it.

*skolemize and removeUniversals.* `SkolemizeImplies`: what `skolemize` returns implies
what it was given, for environments that give each dropped variable the value of the
term in its place (`Translates`). Conversely the functions must be chosen:
`SkolemFunction` picks for the values of the universal variables around an
existential one a value that makes its formula true, if there is one, and
`SkolemizeAttains` does that along the walk. The symbols have the
next numbers, so the choices made earlier, and what was read, do not change
(`SameUpTo`); and a binder is met once, so no choice is looked up for the wrong
variable (`Clear`). `SkolemizeStrengthens` puts both together. `UniversalsAllSat`:
universal quantifiers may be dropped, also inside, since no two bind the same name
and no free one (`BindOnce`).

*What is compared.* TLC enumerates interpretations of the symbols at hand. The proofs
speak of *worlds*, interpretations of all symbols at once, since a choice of functions
in one call must leave those of another alone. `WorldExtends` and `WorldRestricts`
connect the two: `MeansSame(f, g)`, that f is true in a world exactly when g is in one
that gives the symbols of f the same meaning, is `Expresses(g, f)`
(`MeansSameExpresses`).

*The invariant.* `MeaningInvariant` proves `MeaningInv`, which adds to `ProofInv` that
the copy stands for its entry after every call (`CopyMeans`; up to `skolemize` in the
same worlds and closed, from then on up to choices), that entries which are done do
(`DoneMeans`), and that a formula is true exactly when all its clauses are
(`ClausesMean`). `ProofInv` is needed because each call's argument rests on the shape and
the numbering the calls before have left; `CopyMeans` cannot be proved one call at a
time from truth alone, for `skolemize` keeps no truth in the same world. For the clauses,
`ClausesSay` shows that a conjunct may be split off and its disjuncts listed, and
`RenameAgainSays` that a table of names that is one to one keeps what the clause
says. `NeverRefused` shows on the way that what `CNFProgram` made is never refused by
`ClausesProgram`. `MeaningAlwaysKept` follows: the conjunctive form and the clauses
that the constructors make of a program mean what the program does, over every non-empty
domain. Nothing is said of a ClausesProgram that was assigned a CNFProgram.

## 5. Only model-checked

The safety properties of the queue, the pool, the reactor, the servers, the
supervisor and the clocks are proved. Of logic, `NormalForm`, `VariablesApart`,
`TruthKept` and `MeaningKept` are proved of `NormalForms`. The others stay with TLC:
`RoundTrip`, `BoundAndTyped`, `ParseFresh`, `LanguageOfGrammar` and `MakesNormalForms`
are about the parsers, whose functions call each other through `RECURSIVE` operators,
which the prover does not take; `NextLexeme` compares the scanner with a lexicon stated
the same way. That the premise of the theorems, `Written`, is met by what a parser hands
on is therefore checked for the texts of `MCLogic` and not proved.
Liveness (`DestructorReturns`, `AddedJobsRun`, `StartedJobsEnd`, `Accepted`,
`Restarted`, `CompareReturns`) depends on fairness and stays with TLC.

## 6. Not modelled

* `SimpleThread`, `ThreadBarrier`, wrappers of mutex and condition: pthread calls one
  call deep, modelled where `Queue` uses them. Of `Thread`, what the pool uses is
  modelled; its destructor joins under the lock that `dispatch` wants, which only a
  program that destroys a running thread meets.
* `PriorityQueue`: the protocol of `Queue` with another order; no user here.
* Reference-counted pointers: the library uses `UseCntPtr`, which the sources include
  from elsewhere and whose code is not in the repository. The models take it to keep
  its object alive while it is referred to.
* `MultiThreadServer` hands an object on its stack to a detached thread; after that
  there is no state left to reason about. The iterative single-service servers are
  one loop around one handler.
* Timers: arithmetic on seconds and microseconds and a queue; the loops are modelled
  with abstract time. Signals, addresses and services: wrappers and conversions.
* In the reactor, signal end points; in the sockets, reading and writing; in
  logic, include files, options and the text of marker records; of the clocks, the
  pairs of clocks, which are containers.
* `ClausesProgram::operator=(const CNFProgram &)` (`logic/src/ClausesProgram.cpp:85-132`).
  It differs from the constructor, which is modelled: it inserts an empty clause for each
  conjunct, markers included, so the program it leaves does not mean what was assigned.
  Nothing in the repository calls it.
* Graph searches: templates without state between calls. Numerics, statistics,
  matrices: floating point. Strings, configuration, options, logging: no protocol.

## 7. What could come next

1. `Thread` with concurrent `join`, `cancel`, `detach` and destructor.
2. Signal end points in `Reactor`.
3. `Timers` and the arithmetic of `TimerValue`; `readn` and `writen` against a kernel
   that transfers less than asked.
4. The parsers with recursive functions in place of `RECURSIVE` operators, so that
   `MakesNormalForms` could be proved and the theorems reach from the text to the clauses.
5. `ClausesProgram` beyond its clauses, when the repository has a resolution step to
   check.
