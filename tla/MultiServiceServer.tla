------------------------- MODULE MultiServiceServer -------------------------
(***************************************************************************)
(* The servers that wait for several end points in one loop, and those     *)
(* that fork a process for every client.  server says which:               *)
(*                                                                         *)
(*   class  "iterative"  IterativeMSStreamServer, IterativeMSDatagramServer*)
(*          "forking"    MultiProcMSStreamServer, MultiProcMSDatagramServer*)
(*   proto  "stream", "datagram"                                           *)
(*   mode   "select", "epoll" (edge-triggered), and "accept" for           *)
(*          MultiProcessStreamServer, which has one end point and no table *)
(*                                                                         *)
(* The loops are copies of one another; where they differ, the definition  *)
(* says how.  The loop of a forked process (SubServer) is the loop of the  *)
(* iterative class over one end point, of which its steps here keep what   *)
(* other processes can see.                                                *)
(***************************************************************************)
EXTENDS Integers, FiniteSets, Sequences, SequencesExt

CONSTANTS
  Services,    \* the end points of the services
  Clients,     \* the end points of accepted connections
  ServiceFd,   \* the descriptor of each service
  Fds,         \* the descriptors of the server process
  Procs,       \* the processes it may have forked at a time
  MaxTimers    \* bound on the timers that wait

ASSUME TimersAssumption == MaxTimers \in Nat

(* Each service has a descriptor, and there is one for every end point.    *)
ASSUME DescriptorsAssumption ==
  /\ Fds \subseteq Nat
  /\ ServiceFd \in [Services -> Fds]
  /\ \A s, t \in Services : ServiceFd[s] = ServiceFd[t] => s = t
  /\ Services \cap Clients = {}

ASSUME NamesAssumption == {"new", "taken"} \cap Services = {}

VARIABLES
  server,         \* the class, protocol and mode, see above
  pc,             \* where run() is, or how it ended
  sock,           \* the descriptor of each end point in the server, or -1
  handlers,       \* handlers_ (and endpoints_, which has the same keys)
  timerhandlers,  \* timerhandlers_
  servers,        \* server_readfds or the set servers: those to accept from
  watched,        \* master_readfds, or what epollfd_ watches
  maxsocket,
  ready,          \* the events of this round: descriptors, whose they are
  left,           \* the descriptors of ready still to be looked at
  astray,         \* the walk over handlers_ went on from an erased entry
  timers,         \* the end points in tmrqueue_, by expiry
  due,            \* how many of them were due when select returned
  peer,           \* {the connection that the server has just accepted, and
                  \*  forked for or failed to}
  where,          \* each client is new, waits for a service, or was taken
  unread,         \* the end points with input to be read
  edge,           \* epoll: the end points with an event to be reported
  stage,          \* where each forked process is
  conn,           \* its {end point}
  holds,          \* the end points that are open in it
  walk,           \* the entries of endpoints_ it has still to close
  sigchld         \* the server is in the handler of SIGCHLD

tables == <<handlers, timerhandlers, servers, watched, maxsocket>>
pass == <<ready, left, astray>>
queue == <<timers, due>>
net == <<where, unread, edge>>
children == <<stage, conn, holds, walk>>
vars == <<server, pc, sock, tables, pass, queue, peer, net, children, sigchld>>

EndPoints == Services \cup Clients
Stream == server.proto = "stream"
Forking == server.class = "forking"
Epoll == server.mode = "epoll"
Over == pc \in {"ended", "finished", "crashed"}
Live(p) == stage[p] \in {"closing", "serving"}

Configurations ==
  [class : {"iterative", "forking"}, proto : {"stream", "datagram"},
   mode : {"select", "epoll"}]
    \cup [class : {"forking"}, proto : {"stream"}, mode : {"accept"}]

(* init(): bound, listening and watched; a timer may have been scheduled.  *)
Init ==
  /\ server \in Configurations
  /\ pc = "wait"
  /\ LET known == IF server.mode = "accept"
                  THEN {{s} : s \in Services} ELSE {Services}
     IN \E S \in known :
          /\ sock = [o \in EndPoints |-> IF o \in S THEN ServiceFd[o] ELSE -1]
          /\ handlers = [f \in {ServiceFd[s] : s \in S} |->
                           CHOOSE s \in S : ServiceFd[s] = f]
          /\ timers \in {<<>>} \cup {<<s>> : s \in S}
  /\ (server.mode = "accept" \/ MaxTimers = 0) => timers = <<>>
  /\ timerhandlers = [f \in {sock[timers[i]] : i \in DOMAIN timers} |-> handlers[f]]
  /\ servers = IF server.class = "iterative" /\ Stream THEN DOMAIN handlers ELSE {}
  /\ watched = DOMAIN handlers
  /\ maxsocket \in watched /\ \A g \in watched : g <= maxsocket
  /\ ready = <<>> /\ left = {} /\ astray = FALSE
  /\ due = 0
  /\ peer = {}
  /\ where = [c \in Clients |-> "new"]
  /\ unread = {} /\ edge = {}
  /\ stage = [p \in Procs |-> "free"]
  /\ conn = [p \in Procs |-> {}]
  /\ holds = [p \in Procs |-> {}]
  /\ walk = [p \in Procs |-> {}]
  /\ sigchld = FALSE
-----------------------------------------------------------------------------
(* The clients.                                                            *)
Backlog(s) == {c \in Clients : where[c] = s}
Heard(o) == IF Epoll /\ sock[o] \in watched THEN edge \cup {o} ELSE edge

Connect(c, s) ==
  /\ Stream
  /\ where[c] = "new"
  /\ sock[s] # -1
  /\ where' = [where EXCEPT ![c] = s]
  /\ edge' = Heard(s)
  /\ UNCHANGED <<server, pc, sock, tables, pass, queue, peer, unread, children,
                 sigchld>>

(* A client that waits to be accepted goes away.                           *)
GiveUp(c) ==
  /\ where[c] \in Services
  /\ where' = [where EXCEPT ![c] = "taken"]
  /\ UNCHANGED <<server, pc, sock, tables, pass, queue, peer, unread, edge,
                 children, sigchld>>

(* A datagram for a service, or data (or the end of it) from a client once *)
(* an iterative server has accepted it.                                    *)
Arrive(o) ==
  /\ IF Stream THEN o \in Clients /\ ~ Forking ELSE o \in Services
  /\ sock[o] # -1
  /\ unread' = unread \cup {o}
  /\ edge' = Heard(o)
  /\ <<unread', edge'>> # <<unread, edge>>
  /\ UNCHANGED <<server, pc, sock, tables, pass, queue, peer, where, children,
                 sigchld>>
-----------------------------------------------------------------------------
(* The server's own steps; none is taken inside the handler of SIGCHLD.    *)
Running(at) == pc = at /\ ~ sigchld

Readable(o) == o \in unread \/ (Stream /\ Backlog(o) # {})

Owner(f) == {o \in EndPoints : sock[o] = f}

Reported ==
  {f \in watched : \E o \in Owner(f) :
     IF Epoll THEN o \in edge ELSE f <= maxsocket /\ Readable(o)}

(* The wait returns with events: select in a copy of the master set, and   *)
(* epoll_wait in an array, which is large enough for all.                  *)
Returns ==
  /\ Running("wait")
  /\ DOMAIN handlers # {}
  /\ Reported # {}
  /\ ready' = [f \in Reported |-> CHOOSE o \in Owner(f) : TRUE]
  /\ left' = Reported
  /\ astray' = FALSE
  /\ pc' = "io"
  /\ UNCHANGED <<server, sock, tables, queue, peer, where, unread, children,
                 sigchld>>

SelectReturns == server.mode = "select" /\ Returns /\ UNCHANGED edge

(* An event is reported once.                                              *)
EpollReturns ==
  Epoll /\ Returns /\ edge' = edge \ {o \in EndPoints : sock[o] \in Reported}

(* It returns without any: the first of the timers is due, maybe others.   *)
TimesOut ==
  /\ Running("wait")
  /\ server.mode # "accept"
  /\ DOMAIN handlers # {}
  /\ Reported = {}
  /\ timers # <<>>
  /\ due' \in 1 .. Len(timers)
  /\ pc' = "timers"
  /\ UNCHANGED <<server, sock, tables, pass, timers, peer, net, children, sigchld>>

(* The loop ends with the last end point.                                  *)
LoopEnds ==
  /\ Running("wait")
  /\ server.mode # "accept"
  /\ DOMAIN handlers = {}
  /\ pc' = "ended"
  /\ UNCHANGED <<server, sock, tables, pass, queue, peer, net, children, sigchld>>

(* A signal interrupts the wait: the loops of the stream classes and one   *)
(* of the four of the datagram classes wait again, the others return -1.   *)
WaitsAgain == Stream \/ (Forking /\ server.mode = "select")

Interrupted ==
  /\ Running("wait")
  /\ ~ WaitsAgain
  /\ pc' = "ended"
  /\ UNCHANGED <<server, sock, tables, pass, queue, peer, net, children, sigchld>>
-----------------------------------------------------------------------------
Without(table, f) == [g \in DOMAIN table \ {f} |-> table[g]]
With(table, f, o) ==
  [g \in DOMAIN table \cup {f} |-> IF g \in DOMAIN table THEN table[g] ELSE o]

(* A handler may register a timer handler for its end point and schedule   *)
(* a timer, for a time that is not past: after those that are due.         *)
Schedules(o, f, queued, dueleft) ==
  \/ timers' = queued /\ timerhandlers' = timerhandlers
  \/ /\ Len(queued) < MaxTimers
     /\ \E i \in dueleft + 1 .. Len(queued) + 1 : timers' = InsertAt(queued, i, o)
     /\ timerhandlers' = With(timerhandlers, f, o)

(* ... and when it returns another status than 0, its end point is taken   *)
(* out of the tables and closed.  The timers it has scheduled stay.        *)
SchedulesAndLeaves(o, queued, dueleft) ==
  \/ timers' = queued
  \/ /\ Len(queued) < MaxTimers
     /\ \E i \in dueleft + 1 .. Len(queued) + 1 : timers' = InsertAt(queued, i, o)

(* Mutant: the timer handler stays.                                        *)
Discard_KeepTimer(o, f) ==
  /\ watched' = watched \ {f}
  /\ servers' = servers \ {f}
  /\ handlers' = Without(handlers, f)
  /\ timerhandlers' = timerhandlers
  /\ sock' = [sock EXCEPT ![o] = -1]
  /\ unread' = unread \ {o}
  /\ edge' = edge \ {o}
  /\ UNCHANGED maxsocket

Discard(o, f) ==
  /\ watched' = watched \ {f}
  /\ servers' = servers \ {f}
  /\ handlers' = Without(handlers, f)
  /\ timerhandlers' = Without(timerhandlers, f)
  /\ sock' = [sock EXCEPT ![o] = -1]
  /\ unread' = unread \ {o}
  /\ edge' = edge \ {o}
  /\ UNCHANGED maxsocket

TimersDone ==
  /\ Running("timers")
  /\ due = 0
  /\ pc' = "wait"
  /\ UNCHANGED <<server, sock, tables, pass, queue, peer, net, children, sigchld>>

TimerDue == Running("timers") /\ due > 0

(* No timer handler is registered for the descriptor, or the end point is  *)
(* closed and has none.                                                    *)
DropTimer ==
  /\ TimerDue
  /\ sock[Head(timers)] \notin DOMAIN timerhandlers
  /\ timers' = Tail(timers)
  /\ due' = due - 1
  /\ UNCHANGED <<server, pc, sock, tables, pass, peer, net, children, sigchld>>

CallTimer ==
  /\ TimerDue
  /\ LET o == Head(timers)
         f == sock[o]
     IN /\ f \in DOMAIN timerhandlers
        /\ \/ /\ Schedules(o, f, Tail(timers), due - 1)
              /\ UNCHANGED <<sock, handlers, servers, watched, maxsocket, unread,
                             edge>>
           \/ SchedulesAndLeaves(o, Tail(timers), due - 1) /\ Discard(o, f)
  /\ due' = due - 1
  /\ UNCHANGED <<server, pc, pass, peer, where, children, sigchld>>
-----------------------------------------------------------------------------
(* A round of events.  select is read in the order of the descriptors.     *)
Turn(f) ==
  /\ Running("io")
  /\ f \in left
  /\ ~ Epoll => \A g \in left : f <= g

RoundEnds ==
  /\ Running("io")
  /\ left = {}
  /\ pc' = "wait"
  /\ ready' = <<>>
  /\ astray' = FALSE
  /\ UNCHANGED <<server, sock, tables, left, queue, peer, net, children, sigchld>>

(* Nothing to do: the descriptor has no handler any more, or the client is *)
(* gone and accept returns no end point.                                   *)
Skip(f) ==
  /\ Turn(f)
  /\ \/ f \notin DOMAIN handlers
     \/ /\ Stream /\ (Forking \/ f \in servers)
        /\ Backlog(handlers[f]) = {}
  /\ left' = left \ {f}
  /\ UNCHANGED <<server, pc, sock, tables, ready, astray, queue, peer, net,
                 children, sigchld>>

LowestFree(g) ==
  /\ g \in Fds /\ Owner(g) = {}
  /\ \A h \in Fds : Owner(h) = {} => g <= h

(* Mutant: the descriptor is entered in the copy that select has filled.   *)
Accept_MarkReady(f) ==
  /\ Turn(f)
  /\ ~ Forking /\ f \in servers \cap DOMAIN handlers
  /\ \E c \in Backlog(handlers[f]), g \in Fds :
       /\ LowestFree(g)
       /\ where' = [where EXCEPT ![c] = "taken"]
       /\ sock' = [sock EXCEPT ![c] = g]
       /\ handlers' = With(handlers, g, c)
       /\ watched' = watched \cup {g}
       /\ maxsocket' = IF maxsocket < g THEN g ELSE maxsocket
       /\ left' = (left \ {f}) \cup {g}
  /\ UNCHANGED <<server, pc, timerhandlers, servers, ready, astray, queue, peer,
                 unread, edge, children, sigchld>>

(* An iterative stream server accepts one connection for each event.       *)
Accept(f) ==
  /\ Turn(f)
  /\ ~ Forking /\ f \in servers \cap DOMAIN handlers
  /\ \E c \in Backlog(handlers[f]), g \in Fds :
       /\ LowestFree(g)
       /\ where' = [where EXCEPT ![c] = "taken"]
       /\ sock' = [sock EXCEPT ![c] = g]
       /\ handlers' = With(handlers, g, c)
       /\ watched' = watched \cup {g}
       /\ maxsocket' = IF maxsocket < g THEN g ELSE maxsocket
  /\ left' = left \ {f}
  /\ UNCHANGED <<server, pc, timerhandlers, servers, ready, astray, queue, peer,
                 unread, edge, children, sigchld>>

(* The loop of the stream class goes over handlers_ and goes on from the   *)
(* entry it has just had erased: from the next one, from anywhere, or into *)
(* memory that is not its own.                                             *)
WalkOn(f, erased) ==
  IF erased /\ Stream /\ ~ Epoll
  THEN \/ /\ \E k \in Fds \cup {maxsocket + 1} :
               left' = {g \in DOMAIN ready : k <= g}
          /\ astray' = (astray \/ left' # left \ {f})
          /\ pc' = pc
       \/ left' = {} /\ pc' = "crashed" /\ astray' = TRUE
  ELSE left' = left \ {f} /\ UNCHANGED <<pc, astray>>

(* The handler is called: it may read its input, schedule a timer, and     *)
(* have its end point closed.                                              *)
Handle(f) ==
  /\ Turn(f)
  /\ ~ Forking /\ f \in DOMAIN handlers \ servers
  /\ LET o == handlers[f]
     IN \/ /\ unread' \in {unread, unread \ {o}}
           /\ Schedules(o, f, timers, 0)
           /\ WalkOn(f, FALSE)
           /\ UNCHANGED <<sock, handlers, servers, watched, maxsocket, edge>>
        \/ /\ SchedulesAndLeaves(o, timers, 0)
           /\ Discard(o, f)
           /\ WalkOn(f, TRUE)
  /\ UNCHANGED <<server, ready, due, peer, where, children, sigchld>>
-----------------------------------------------------------------------------
(* A forked process starts with all that is open in the server.            *)
Starts(p, o) ==
  /\ stage[p] = "free"
  /\ stage' = [stage EXCEPT ![p] = "closing"]
  /\ conn' = [conn EXCEPT ![p] = {o}]
  /\ holds' = [holds EXCEPT ![p] = {e \in EndPoints : sock[e] # -1} \cup {o}]
  /\ walk' = [walk EXCEPT ![p] = {handlers[f] : f \in DOMAIN handlers}]

(* For a datagram: the child is to read it, the server does not.           *)
ForkForDatagram(f, p) ==
  /\ Turn(f)
  /\ Forking /\ ~ Stream /\ f \in DOMAIN handlers
  /\ Starts(p, handlers[f])
  /\ left' = left \ {f}
  /\ UNCHANGED <<server, pc, sock, tables, ready, astray, queue, peer, net, sigchld>>

Pending(f) ==
  /\ \/ Turn(f) /\ f \in DOMAIN handlers
     \/ Running("wait") /\ server.mode = "accept" /\ f \in DOMAIN handlers
  /\ Forking /\ Stream

(* Mutant: the listener is cleared, as a connection is when it is served.  *)
AcceptAndFork_Unwatch(f, p) ==
  /\ Pending(f)
  /\ \E c \in Backlog(handlers[f]), g \in Fds :
       /\ LowestFree(g)
       /\ where' = [where EXCEPT ![c] = "taken"]
       /\ sock' = [sock EXCEPT ![c] = g]
       /\ peer' = {c}
       /\ Starts(p, c)
  /\ left' = left \ {f}
  /\ watched' = watched \ {f}
  /\ pc' = "forked"
  /\ UNCHANGED <<server, handlers, timerhandlers, servers, maxsocket, ready,
                 astray, queue, unread, edge, sigchld>>

(* For a connection: accepted by the server, and inherited by the child.   *)
AcceptAndFork(f, p) ==
  /\ Pending(f)
  /\ \E c \in Backlog(handlers[f]), g \in Fds :
       /\ LowestFree(g)
       /\ where' = [where EXCEPT ![c] = "taken"]
       /\ sock' = [sock EXCEPT ![c] = g]
       /\ peer' = {c}
       /\ Starts(p, c)
  /\ left' = left \ {f}
  /\ pc' = "forked"
  /\ UNCHANGED <<server, tables, ready, astray, queue, unread, edge, sigchld>>

(* Mutant: the server keeps the connection.                                *)
CloseInServer_Not ==
  /\ Running("forked")
  /\ peer' = {}
  /\ pc' = IF server.mode = "accept" THEN "wait" ELSE "io"
  /\ UNCHANGED <<server, sock, tables, pass, queue, net, children, sigchld>>

CloseInServer ==
  /\ Running("forked")
  /\ sock' = [o \in EndPoints |-> IF o \in peer THEN -1 ELSE sock[o]]
  /\ peer' = {}
  /\ pc' = IF server.mode = "accept" THEN "wait" ELSE "io"
  /\ UNCHANGED <<server, tables, pass, queue, net, children, sigchld>>

(* fork fails: run() returns.  The loops over several end points leave the *)
(* connection open, for the destructor of a socket does not close it; only *)
(* the accept mode closes it first.                                        *)
ForkFails(f) ==
  /\ \/ /\ Pending(f)
        /\ \E c \in Backlog(handlers[f]), g \in Fds :
             /\ LowestFree(g)
             /\ where' = [where EXCEPT ![c] = "taken"]
             /\ IF server.mode = "accept"
                THEN UNCHANGED <<sock, peer>>
                ELSE sock' = [sock EXCEPT ![c] = g] /\ peer' = {c}
     \/ /\ Turn(f)
        /\ Forking /\ ~ Stream /\ f \in DOMAIN handlers
        /\ UNCHANGED <<where, sock, peer>>
  /\ pc' = "ended"
  /\ UNCHANGED <<server, tables, pass, queue, unread, edge, children, sigchld>>

(* finish(): what is in endpoints_ is closed, the tables are cleared.      *)
Finish ==
  /\ pc = "ended"
  /\ sock' = [o \in EndPoints |-> IF sock[o] \in DOMAIN handlers THEN -1 ELSE sock[o]]
  /\ handlers' = <<>> /\ timerhandlers' = <<>>
  /\ servers' = {} /\ watched' = {}
  /\ pc' = "finished"
  /\ UNCHANGED <<server, maxsocket, pass, queue, peer, net, children, sigchld>>
-----------------------------------------------------------------------------
(* A child closes the end points that are not its own, from the loop over  *)
(* endpoints_ that has the entry erased it stands on; in the accept mode   *)
(* there is one to close, and no loop.                                     *)
ChildCloses(p) ==
  /\ stage[p] = "closing"
  /\ \E o \in walk[p] :
       /\ \A e \in walk[p] : ServiceFd[o] <= ServiceFd[e]
       /\ holds' = [holds EXCEPT ![p] = @ \ ({o} \ conn[p])]
       /\ \/ walk' = [walk EXCEPT ![p] = @ \ {o}]
          \/ /\ o \notin conn[p] /\ server.mode # "accept"
             /\ \E k \in Fds :
                  walk' = [walk EXCEPT ![p] = {e \in @ \ {o} : k < ServiceFd[e]}]
  /\ UNCHANGED <<server, pc, sock, tables, pass, queue, peer, net, stage, conn,
                 sigchld>>

ChildServes(p) ==
  /\ stage[p] = "closing"
  /\ walk[p] = {}
  /\ stage' = [stage EXCEPT ![p] = "serving"]
  /\ UNCHANGED <<server, pc, sock, tables, pass, queue, peer, net, conn, holds,
                 walk, sigchld>>

(* The handler in a child reads a datagram.                                *)
ChildReads(p) ==
  /\ stage[p] = "serving"
  /\ conn[p] \cap unread # {}
  /\ unread' = unread \ conn[p]
  /\ UNCHANGED <<server, pc, sock, tables, pass, queue, peer, where, edge,
                 children, sigchld>>

(* The handler in a child is done with its end point, or the child crashes.*)
ChildEnds(p) ==
  /\ Live(p)
  /\ stage' = [stage EXCEPT ![p] = IF Over THEN "free" ELSE "zombie"]
  /\ conn' = [conn EXCEPT ![p] = {}]
  /\ holds' = [holds EXCEPT ![p] = {}]
  /\ walk' = [walk EXCEPT ![p] = {}]
  /\ sigchld' = ~ Over
  /\ UNCHANGED <<server, pc, sock, tables, pass, queue, peer, net>>

(* The handler of SIGCHLD: wait3 does not block and returns 0 while there  *)
(* is a child that has not ended, so the loop goes on until there is none. *)
(* The wait it has interrupted fails.                                      *)
Reaper ==
  /\ sigchld
  /\ \A p \in Procs : ~ Live(p)
  /\ stage' = [p \in Procs |-> "free"]
  /\ sigchld' = FALSE
  /\ pc' \in {pc} \cup (IF pc = "wait" /\ ~ WaitsAgain THEN {"ended"} ELSE {})
  /\ UNCHANGED <<server, sock, tables, pass, queue, peer, net, conn, holds, walk>>

Loop ==
  \/ SelectReturns \/ EpollReturns \/ TimesOut \/ LoopEnds \/ TimersDone \/ DropTimer \/ CallTimer
  \/ RoundEnds \/ CloseInServer
  \/ \E f \in Fds : Skip(f) \/ Accept(f) \/ Handle(f)
  \/ \E f \in Fds, p \in Procs : ForkForDatagram(f, p) \/ AcceptAndFork(f, p)

Child(p) == ChildCloses(p) \/ ChildServes(p) \/ ChildReads(p)

Network ==
  \/ \E c \in Clients : GiveUp(c) \/ \E s \in Services : Connect(c, s)
  \/ \E o \in EndPoints : Arrive(o)

Next ==
  \/ Loop \/ Reaper \/ Network
  \/ Interrupted \/ Finish \/ \E f \in Fds : ForkFails(f)
  \/ \E p \in Procs : Child(p) \/ ChildEnds(p)

Spec == Init /\ [][Next]_vars

(* The server goes on, handlers return, and every child is done some day:  *)
(* while one is not, the handler of SIGCHLD may keep the server.           *)
FairSpec ==
  /\ Spec
  /\ WF_vars(Loop)
  /\ WF_vars(Reaper)
  /\ \A p \in Procs : WF_vars(Child(p)) /\ WF_vars(ChildEnds(p))
-----------------------------------------------------------------------------
(* Between two steps the tables of the server tell of the same end points, *)
(* which are open, and each descriptor leads to its own end point: also    *)
(* when it was closed and given to another one.                            *)
TablesAgree ==
  ~ Over =>
    /\ \A f \in DOMAIN handlers : sock[handlers[f]] = f
    /\ \A f \in DOMAIN timerhandlers : sock[timerhandlers[f]] = f
    /\ watched = DOMAIN handlers
    /\ \A f \in watched : f <= maxsocket
    /\ \A f \in servers : handlers[f] \in Services

(* A handler is called only for an event of its own end point, not for one *)
(* of an end point that had the descriptor before; the walk from an erased *)
(* entry excepted.                                                         *)
OnlyReported ==
  ~ astray =>
    \A f \in left \cap DOMAIN handlers :
      f \in DOMAIN ready /\ handlers[f] = ready[f]

(* A connection is open in one process only, but for the moment between    *)
(* the fork and the close in the server; a process serves what is open in  *)
(* it; outside of the handler no dead process waits to be reaped; and run()*)
(* and finish() leave nothing open in the server but a connection for which*)
(* fork has failed, which the code closes nowhere.                         *)
OneHolder ==
  /\ \A p, q \in Procs : p # q => holds[p] \cap holds[q] \cap Clients = {}
  /\ \A p \in Procs : {c \in holds[p] \cap Clients : sock[c] # -1} \subseteq peer
  /\ \A p \in Procs : conn[p] \subseteq holds[p]
  /\ ~ sigchld /\ ~ Over => \A p \in Procs : stage[p] # "zombie"
  /\ pc = "finished" => \A o \in EndPoints : sock[o] # -1 => o \in peer

(* A client that connects to a service is accepted, unless it goes away or *)
(* the service is closed.  This is not so of an edge-triggered listener,   *)
(* which reports several connections as one event, for one accept.         *)
Accepted ==
  \A c \in Clients, s \in Services :
    (where[c] = s /\ ~ Epoll) ~> (where[c] # s \/ sock[s] = -1 \/ Over)
-----------------------------------------------------------------------------
(* The inductive invariant of the safety properties.                       *)
Typed ==
  /\ sock \in [EndPoints -> Fds \cup {-1}]
  /\ where \in [Clients -> Services \cup {"new", "taken"}]
  /\ timers \in Seq(EndPoints) /\ due \in 0 .. Len(timers)
  /\ DOMAIN handlers \subseteq Fds /\ DOMAIN timerhandlers \subseteq Fds
  /\ \A f \in DOMAIN handlers : handlers[f] \in EndPoints
  /\ \A f \in DOMAIN timerhandlers : timerhandlers[f] \in EndPoints
  /\ maxsocket \in Fds
  /\ stage \in [Procs -> {"free", "closing", "serving", "zombie"}]
  /\ conn \in [Procs -> SUBSET EndPoints]
  /\ holds \in [Procs -> SUBSET EndPoints]

(* What TablesAgree says, after the end of run() too.                      *)
Agree ==
  /\ \A f \in DOMAIN handlers : sock[handlers[f]] = f
  /\ \A f \in DOMAIN timerhandlers : sock[timerhandlers[f]] = f
  /\ watched = DOMAIN handlers
  /\ \A f \in watched : f <= maxsocket
  /\ servers \subseteq DOMAIN handlers
  /\ \A f \in servers : handlers[f] \in Services

(* A descriptor is that of one end point, which is in the tables, or is    *)
(* the connection that was just forked for, or that fork failed for.       *)
OneOwner ==
  /\ \A o, q \in EndPoints : sock[o] # -1 /\ sock[o] = sock[q] => o = q
  /\ \A o \in EndPoints : sock[o] # -1 => sock[o] \in DOMAIN handlers \/ o \in peer

Forks ==
  /\ peer \subseteq Clients
  /\ pc \notin {"forked", "ended", "finished"} => peer = {}
  /\ Forking => /\ \A f \in DOMAIN handlers : handlers[f] \in Services
                /\ \A f \in DOMAIN timerhandlers : timerhandlers[f] \in Services
  /\ ~ Forking => peer = {} /\ \A p \in Procs : holds[p] = {}

Taken ==
  \A c \in Clients :
    sock[c] # -1 \/ (\E p \in Procs : c \in holds[p]) => where[c] = "taken"

Round ==
  /\ ~ astray /\ ~ Over => left \subseteq DOMAIN handlers
  /\ pc \in {"wait", "timers"} => left = {}
  /\ server.mode = "accept" => left = {} /\ pc # "io"

IInv ==
  Typed /\ Agree /\ OneOwner /\ Forks /\ Taken /\ Round /\ OnlyReported /\ OneHolder
=============================================================================
