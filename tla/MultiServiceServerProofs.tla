---------------------- MODULE MultiServiceServerProofs ----------------------
(***************************************************************************)
(* The tables of the servers of servers/src agree, events reach their own  *)
(* handlers, and a connection is open in one process, for any services,    *)
(* clients, descriptors and forked processes: IInv is inductive.           *)
(***************************************************************************)
EXTENDS MultiServiceServer, TLAPS

USE DescriptorsAssumption, NamesAssumption, TimersAssumption

(* What InsertAt makes of a sequence.                                      *)
LEMMA Inserted ==
  ASSUME NEW S, NEW s \in Seq(S), NEW e \in S, NEW i \in 1 .. Len(s) + 1
  PROVE  /\ InsertAt(s, i, e) \in Seq(S)
         /\ Len(InsertAt(s, i, e)) = Len(s) + 1
<1> DEFINE a == SubSeq(s, 1, i - 1)
           b == SubSeq(s, i, Len(s))
<1>1. a \in Seq(S) /\ Len(a) = i - 1
  OBVIOUS
<1>2. b \in Seq(S) /\ Len(b) = Len(s) - i + 1
  OBVIOUS
<1>3. <<e>> \in Seq(S) /\ Len(<<e>>) = 1
  OBVIOUS
<1>4. ASSUME NEW x \in Seq(S), NEW y \in Seq(S)
      PROVE  x \o y \in Seq(S) /\ Len(x \o y) = Len(x) + Len(y)
  OBVIOUS
<1>5. InsertAt(s, i, e) = a \o <<e>> \o b
  BY DEF InsertAt
<1> HIDE DEF a, b
<1>6. a \o <<e>> \in Seq(S) /\ Len(a \o <<e>>) = i
  BY <1>1, <1>3, <1>4
<1>7. a \o <<e>> \o b \in Seq(S) /\ Len(a \o <<e>> \o b) = i + Len(b)
  BY <1>2, <1>4, <1>6
<1> QED BY <1>2, <1>5, <1>7

(* A handler that schedules a timer, or leaves, keeps the tables in order. *)
LEMMA Served ==
  ASSUME Typed, Agree, OneOwner,
         NEW f \in DOMAIN handlers,
         NEW q \in Seq(EndPoints), NEW d \in 0 .. Len(q), due' \in 0 .. Len(q),
         UNCHANGED <<maxsocket, where, stage, conn, holds, peer>>,
         \/ /\ Schedules(handlers[f], f, q, d)
            /\ UNCHANGED <<sock, handlers, servers, watched>>
         \/ SchedulesAndLeaves(handlers[f], q, d) /\ Discard(handlers[f], f)
  PROVE  Typed' /\ Agree' /\ OneOwner'
<1> DEFINE o == handlers[f]
<1>1. o \in EndPoints /\ f \in Fds /\ sock[o] = f
  BY DEF Typed, Agree
<1>2. timers' \in Seq(EndPoints) /\ due' \in 0 .. Len(timers')
  <2>1. \/ timers' = q
        \/ \E i \in d + 1 .. Len(q) + 1 : timers' = InsertAt(q, i, o)
    BY DEF Schedules, SchedulesAndLeaves
  <2>2. ASSUME NEW i \in d + 1 .. Len(q) + 1, timers' = InsertAt(q, i, o)
        PROVE  timers' \in Seq(EndPoints) /\ Len(timers') = Len(q) + 1
    <3>1. i \in 1 .. Len(q) + 1
      OBVIOUS
    <3> QED BY <2>2, <3>1, <1>1, Inserted
  <2> QED BY <2>1, <2>2
<1>3. CASE /\ Schedules(o, f, q, d)
           /\ UNCHANGED <<sock, handlers, servers, watched>>
  <2>1. \A g \in DOMAIN timerhandlers' :
          \/ g \in DOMAIN timerhandlers /\ timerhandlers'[g] = timerhandlers[g]
          \/ g = f /\ timerhandlers'[g] = o
    BY <1>3 DEF Schedules, With
  <2> QED BY <1>1, <1>2, <1>3, <2>1 DEF Typed, Agree, OneOwner, EndPoints
<1>4. CASE SchedulesAndLeaves(o, q, d) /\ Discard(o, f)
  <2>1. /\ sock' = [sock EXCEPT ![o] = -1]
        /\ watched' = watched \ {f} /\ servers' = servers \ {f}
        /\ DOMAIN handlers' = DOMAIN handlers \ {f}
        /\ \A g \in DOMAIN handlers' : handlers'[g] = handlers[g]
        /\ DOMAIN timerhandlers' = DOMAIN timerhandlers \ {f}
        /\ \A g \in DOMAIN timerhandlers' : timerhandlers'[g] = timerhandlers[g]
    BY <1>4 DEF Discard, Without
  <2>2. Typed'
    BY <1>1, <1>2, <2>1 DEF Typed, EndPoints
  <2>3. Agree'
    BY <1>1, <2>1 DEF Typed, Agree, EndPoints
  <2>4. OneOwner'
    BY <1>1, <2>1 DEF Typed, Agree, OneOwner, EndPoints
  <2> QED BY <2>2, <2>3, <2>4
<1> QED BY <1>3, <1>4

(* The invariant holds at the start.                                       *)
LEMMA Inits == Init => IInv
<1> SUFFICES ASSUME Init PROVE IInv
  OBVIOUS
<1>1. PICK S \in SUBSET Services :
        /\ sock = [o \in EndPoints |-> IF o \in S THEN ServiceFd[o] ELSE -1]
        /\ handlers = [f \in {ServiceFd[s] : s \in S} |->
                         CHOOSE s \in S : ServiceFd[s] = f]
        /\ timers \in {<<>>} \cup {<<s>> : s \in S}
  <2>1. \E S \in (IF server.mode = "accept" THEN {{s} : s \in Services} ELSE {Services}) :
          /\ sock = [o \in EndPoints |-> IF o \in S THEN ServiceFd[o] ELSE -1]
          /\ handlers = [f \in {ServiceFd[s] : s \in S} |->
                           CHOOSE s \in S : ServiceFd[s] = f]
          /\ timers \in {<<>>} \cup {<<s>> : s \in S}
    BY Zenon DEF Init
  <2>2. (IF server.mode = "accept" THEN {{s} : s \in Services} ELSE {Services})
          \subseteq SUBSET Services
    OBVIOUS
  <2> QED BY <2>1, <2>2, Zenon
<1>2. \A f \in DOMAIN handlers : handlers[f] \in S /\ ServiceFd[handlers[f]] = f
  BY <1>1
<1>3. \A i \in DOMAIN timers : timers[i] \in S
  BY <1>1
<1>4. timers \in Seq(EndPoints)
  <2>1. ASSUME NEW s \in S PROVE <<s>> \in Seq(EndPoints)
    BY DEF EndPoints
  <2>2. <<>> \in Seq(EndPoints)
    OBVIOUS
  <2>3. CASE timers = <<>>
    BY <2>2, <2>3
  <2>4. CASE \E s \in S : timers = <<s>>
    BY <2>1, <2>4
  <2> QED BY <1>1, <2>3, <2>4
<1>5. \A f \in DOMAIN timerhandlers :
        f \in DOMAIN handlers /\ timerhandlers[f] = handlers[f]
  <2>1. ASSUME NEW i \in DOMAIN timers PROVE sock[timers[i]] \in DOMAIN handlers
    BY <1>1, <1>3 DEF EndPoints
  <2> QED BY <2>1 DEF Init
<1>6. Typed
  <2>1. sock \in [EndPoints -> Fds \cup {-1}]
    BY <1>1 DEF EndPoints
  <2>2. DOMAIN handlers \subseteq Fds /\ \A f \in DOMAIN handlers : handlers[f] \in EndPoints
    BY <1>1, <1>2 DEF EndPoints
  <2>3. maxsocket \in Fds
    BY <2>2 DEF Init
  <2>4. due \in 0 .. Len(timers)
    BY <1>4 DEF Init
  <2>5. DOMAIN timerhandlers \subseteq Fds
    BY <2>2, <1>5
  <2>6. \A f \in DOMAIN timerhandlers : timerhandlers[f] \in EndPoints
    BY <2>2, <1>5
  <2> QED BY <2>1, <2>2, <2>3, <2>4, <2>5, <2>6, <1>4 DEF Init, Typed
<1>7. Agree
  BY <1>1, <1>2, <1>5 DEF Init, Agree, EndPoints
<1>8. OneOwner
  BY <1>1, <1>2 DEF Init, OneOwner, EndPoints
<1>9. Forks
  BY <1>1, <1>2, <1>5 DEF Init, Forks
<1>10. Taken
  BY <1>1 DEF Init, Taken, EndPoints
<1>11. Round /\ OnlyReported
  BY DEF Init, Round, OnlyReported
<1>12. OneHolder
  BY DEF Init, OneHolder, Over
<1> QED BY <1>6, <1>7, <1>8, <1>9, <1>10, <1>11, <1>12 DEF IInv

-----------------------------------------------------------------------------
(* One lemma per action, or group of actions; one step per conjunct of     *)
(* IInv.                                                                   *)
USE DEF EndPoints, Stream, Forking, Epoll, Over, Live, Running, Turn, Owner,
        tables, pass, queue, net, children

(* The wait returns: the events are those of watched descriptors.          *)
LEMMA ReturnsStep ==
  ASSUME IInv, SelectReturns \/ EpollReturns
  PROVE  IInv'
<1> USE DEF IInv, SelectReturns, EpollReturns, Returns, Owner, Reported
<1>1. Typed'
  BY DEF Typed
<1>2. Agree'
  BY DEF Agree, Typed
<1>3. OneOwner'
  BY DEF OneOwner, Typed, Agree
<1>4. Forks'
  BY DEF Forks, Agree, Typed
<1>5. Taken'
  BY DEF Taken, Typed, Forks, OneOwner
<1>6. Round'
  BY DEF Round, Agree
<1>7. OnlyReported'
  BY DEF OnlyReported, Round, Agree, Typed, OneOwner
<1>8. OneHolder'
  BY DEF OneHolder, Forks, OneOwner, Typed, Taken
<1> QED BY <1>1, <1>2, <1>3, <1>4, <1>5, <1>6, <1>7, <1>8

(* The wait times out.                                                     *)
LEMMA TimesOutStep ==
  ASSUME IInv, TimesOut
  PROVE  IInv'
<1> USE DEF IInv, TimesOut
<1>1. Typed'
  BY DEF Typed
<1>2. Agree'
  BY DEF Agree, Typed
<1>3. OneOwner'
  BY DEF OneOwner, Typed, Agree
<1>4. Forks'
  BY DEF Forks, Agree, Typed
<1>5. Taken'
  BY DEF Taken, Typed, Forks, OneOwner
<1>6. Round'
  BY DEF Round, Agree
<1>7. OnlyReported'
  BY DEF OnlyReported, Round, Agree, Typed, OneOwner
<1>8. OneHolder'
  BY DEF OneHolder, Forks, OneOwner, Typed, Taken
<1> QED BY <1>1, <1>2, <1>3, <1>4, <1>5, <1>6, <1>7, <1>8

(* Steps that only move pc, or end a round.                                *)
LEMMA LoopEndsStep ==
  ASSUME IInv, LoopEnds \/ TimersDone \/ RoundEnds \/ Interrupted
  PROVE  IInv'
<1> USE DEF IInv, LoopEnds, TimersDone, RoundEnds, Interrupted
<1>1. Typed'
  BY DEF Typed
<1>2. Agree'
  BY DEF Agree, Typed
<1>3. OneOwner'
  BY DEF OneOwner, Typed, Agree
<1>4. Forks'
  BY DEF Forks, Agree, Typed
<1>5. Taken'
  BY DEF Taken, Typed, Forks, OneOwner
<1>6. Round'
  BY DEF Round, Agree
<1>7. OnlyReported'
  BY DEF OnlyReported, Round, Agree, Typed, OneOwner
<1>8. OneHolder'
  BY DEF OneHolder, Forks, OneOwner, Typed, Taken
<1> QED BY <1>1, <1>2, <1>3, <1>4, <1>5, <1>6, <1>7, <1>8

(* A timer without a handler.                                              *)
LEMMA DropTimerStep ==
  ASSUME IInv, DropTimer
  PROVE  IInv'
<1> USE DEF IInv, DropTimer, TimerDue
<1>1. Typed'
  BY DEF Typed
<1>2. Agree'
  BY DEF Agree, Typed
<1>3. OneOwner'
  BY DEF OneOwner, Typed, Agree
<1>4. Forks'
  BY DEF Forks, Agree, Typed
<1>5. Taken'
  BY DEF Taken, Typed, Forks, OneOwner
<1>6. Round'
  BY DEF Round, Agree
<1>7. OnlyReported'
  BY DEF OnlyReported, Round, Agree, Typed, OneOwner
<1>8. OneHolder'
  BY DEF OneHolder, Forks, OneOwner, Typed, Taken
<1> QED BY <1>1, <1>2, <1>3, <1>4, <1>5, <1>6, <1>7, <1>8

(* A timer handler, which may leave.                                       *)
LEMMA CallTimerStep ==
  ASSUME IInv, CallTimer
  PROVE  IInv'
<1> USE DEF IInv, CallTimer, TimerDue, Discard, Schedules, SchedulesAndLeaves,
            With, Without
<1> DEFINE f == sock[Head(timers)]
           q == Tail(timers)
<1>a. /\ timers # <<>> /\ Head(timers) \in EndPoints
      /\ q \in Seq(EndPoints) /\ due - 1 \in 0 .. Len(q)
  BY DEF Typed
<1>b. f \in DOMAIN handlers /\ handlers[f] = Head(timers)
  <2>1. peer = {} /\ f \in DOMAIN timerhandlers
    BY DEF Forks
  <2>2. f \in Nat /\ sock[Head(timers)] = f
    BY <2>1 DEF Typed
  <2>3. f \in DOMAIN handlers
    BY <1>a, <2>1, <2>2 DEF OneOwner
  <2>4. handlers[f] \in EndPoints /\ sock[handlers[f]] = f
    BY <2>3 DEF Typed, Agree
  <2> QED BY <1>a, <2>2, <2>3, <2>4 DEF OneOwner
<1>c. /\ due' \in 0 .. Len(q)
      /\ UNCHANGED <<maxsocket, where, stage, conn, holds, peer>>
      /\ \/ /\ Schedules(handlers[f], f, q, due - 1)
            /\ UNCHANGED <<sock, handlers, servers, watched>>
         \/ SchedulesAndLeaves(handlers[f], q, due - 1) /\ Discard(handlers[f], f)
  <2>1. \/ /\ Schedules(Head(timers), f, q, due - 1)
           /\ UNCHANGED <<sock, handlers, servers, watched>>
        \/ SchedulesAndLeaves(Head(timers), q, due - 1) /\ Discard(Head(timers), f)
    <3> HIDE DEF Schedules, SchedulesAndLeaves, Discard
    <3> QED OBVIOUS
  <2>2. /\ due' = due - 1
        /\ UNCHANGED <<maxsocket, where, stage, conn, holds, peer>>
    OBVIOUS
  <2> HIDE DEF Schedules, SchedulesAndLeaves, Discard, CallTimer, f, q
  <2> QED BY <1>a, <1>b, <2>1, <2>2
<1>d. Typed' /\ Agree' /\ OneOwner'
  <2> HIDE DEF Schedules, SchedulesAndLeaves, Discard, f, q
  <2> QED BY <1>a, <1>b, <1>c, Served
<1>1. Typed'
  BY <1>d
<1>2. Agree'
  BY <1>d
<1>3. OneOwner'
  BY <1>d
<1>4. Forks'
  BY DEF Forks, Agree, Typed
<1>5. Taken'
  BY DEF Taken, Typed, Forks, OneOwner
<1>6. Round'
  BY DEF Round, Agree
<1>7. OnlyReported'
  BY DEF OnlyReported, Round, Agree, Typed, OneOwner
<1>8. OneHolder'
  BY DEF OneHolder, Forks, OneOwner, Typed, Taken
<1> QED BY <1>1, <1>2, <1>3, <1>4, <1>5, <1>6, <1>7, <1>8

(* The server closes the connection it has forked for.                     *)
LEMMA CloseInServerStep ==
  ASSUME IInv, CloseInServer
  PROVE  IInv'
<1> USE DEF IInv, CloseInServer
<1>1. Typed'
  BY DEF Typed
<1>2. Agree'
  BY DEF Agree, Typed, Forks
<1>3. OneOwner'
  BY DEF OneOwner, Typed, Agree
<1>4. Forks'
  BY DEF Forks, Agree, Typed
<1>5. Taken'
  BY DEF Taken, Typed, Forks, OneOwner
<1>6. Round'
  BY DEF Round, Agree
<1>7. OnlyReported'
  BY DEF OnlyReported, Round, Agree, Typed, OneOwner
<1>8. OneHolder'
  BY DEF OneHolder, Forks, OneOwner, Typed, Taken
<1> QED BY <1>1, <1>2, <1>3, <1>4, <1>5, <1>6, <1>7, <1>8

(* An event nobody handles.                                                *)
LEMMA SkipStep ==
  ASSUME IInv, NEW f \in Fds, Skip(f)
  PROVE  IInv'
<1> USE DEF IInv, Skip, Backlog
<1>1. Typed'
  BY DEF Typed
<1>2. Agree'
  BY DEF Agree, Typed
<1>3. OneOwner'
  BY DEF OneOwner, Typed, Agree
<1>4. Forks'
  BY DEF Forks, Agree, Typed
<1>5. Taken'
  BY DEF Taken, Typed, Forks, OneOwner
<1>6. Round'
  BY DEF Round, Agree
<1>7. OnlyReported'
  BY DEF OnlyReported, Round, Agree, Typed, OneOwner
<1>8. OneHolder'
  BY DEF OneHolder, Forks, OneOwner, Typed, Taken
<1> QED BY <1>1, <1>2, <1>3, <1>4, <1>5, <1>6, <1>7, <1>8

(* A new connection gets a descriptor that nobody has.                     *)
LEMMA AcceptStep ==
  ASSUME IInv, NEW f \in Fds, Accept(f)
  PROVE  IInv'
<1> USE DEF IInv, Accept, Backlog, LowestFree, With
<1>a. PICK c \in Backlog(handlers[f]), g \in Fds :
        /\ LowestFree(g)
        /\ where' = [where EXCEPT ![c] = "taken"]
        /\ sock' = [sock EXCEPT ![c] = g]
        /\ handlers' = With(handlers, g, c)
        /\ watched' = watched \cup {g}
        /\ maxsocket' = IF maxsocket < g THEN g ELSE maxsocket
  OBVIOUS
<1>b. c \in Clients /\ where[c] # "taken" /\ sock[c] = -1
  BY <1>a DEF Agree, Typed, Taken
<1>c. \A o \in EndPoints : sock[o] # g
  BY <1>a
<1>d. /\ DOMAIN handlers' = DOMAIN handlers \cup {g}
      /\ handlers'[g] = c /\ g \notin DOMAIN handlers
      /\ \A h \in DOMAIN handlers : handlers'[h] = handlers[h]
  <2>1. g \notin DOMAIN handlers
    BY <1>c DEF Agree, Typed
  <2> QED BY <1>a, <2>1
<1>1. Typed'
  BY DEF Typed
<1>2. Agree'
  <2>1. \A h \in DOMAIN handlers' : sock'[handlers'[h]] = h
    BY <1>a, <1>b, <1>d DEF Agree, Typed
  <2>2. \A h \in DOMAIN timerhandlers' : sock'[timerhandlers'[h]] = h
    BY <1>a, <1>b DEF Agree, Typed
  <2>3. watched' = DOMAIN handlers' /\ \A h \in watched' : h <= maxsocket'
    <3>1. watched = DOMAIN handlers /\ watched \subseteq Nat /\ maxsocket \in Nat
      BY DEF Agree, Typed
    <3>2. maxsocket' \in Nat /\ g <= maxsocket' /\ maxsocket <= maxsocket'
      BY <1>a, <3>1
    <3> HIDE DEF Accept
    <3> QED BY <1>a, <1>d, <3>1, <3>2 DEF Agree
  <2>4. servers' = servers
    OBVIOUS
  <2>5. servers' \subseteq DOMAIN handlers' /\ \A h \in servers' : handlers'[h] \in Services
    BY <2>4, <1>d DEF Agree
  <2> HIDE DEF Accept
  <2> QED BY <2>1, <2>2, <2>3, <2>5 DEF Agree
<1>3. OneOwner'
  BY DEF OneOwner, Typed, Agree
<1>4. Forks'
  BY DEF Forks, Agree, Typed
<1>5. Taken'
  BY DEF Taken, Typed, Forks, OneOwner
<1>6. Round'
  BY DEF Round, Agree
<1>7. OnlyReported'
  BY DEF OnlyReported, Round, Agree, Typed, OneOwner
<1>8. OneHolder'
  BY DEF OneHolder, Forks, OneOwner, Typed, Taken
<1> QED BY <1>1, <1>2, <1>3, <1>4, <1>5, <1>6, <1>7, <1>8

(* A handler, which may leave; the walk may go astray.                     *)
LEMMA HandleStep ==
  ASSUME IInv, NEW f \in Fds, Handle(f)
  PROVE  IInv'
<1> USE DEF IInv, Handle, WalkOn, Discard, Schedules, SchedulesAndLeaves, With,
            Without
<1>a. /\ f \in DOMAIN handlers /\ timers \in Seq(EndPoints)
      /\ 0 \in 0 .. Len(timers) /\ due' \in 0 .. Len(timers)
      /\ UNCHANGED <<maxsocket, where, stage, conn, holds, peer>>
  BY DEF Typed
<1>b. \/ /\ Schedules(handlers[f], f, timers, 0)
         /\ WalkOn(f, FALSE)
         /\ UNCHANGED <<sock, handlers, servers, watched>>
      \/ /\ SchedulesAndLeaves(handlers[f], timers, 0) /\ Discard(handlers[f], f)
         /\ WalkOn(f, TRUE)
  <2> HIDE DEF Schedules, SchedulesAndLeaves, Discard, WalkOn
  <2> QED OBVIOUS
<1>d. Typed' /\ Agree' /\ OneOwner'
  <2> HIDE DEF Schedules, SchedulesAndLeaves, Discard, WalkOn
  <2> QED BY <1>a, <1>b, Served
<1>e. /\ DOMAIN handlers' \subseteq DOMAIN handlers
      /\ \A g \in DOMAIN handlers' : handlers'[g] = handlers[g]
  BY <1>b
<1>f. ~ astray' => ~ astray /\ left' = left \ {f}
  <2>1. ASSUME NEW erased \in BOOLEAN, WalkOn(f, erased), ~ astray'
        PROVE  ~ astray /\ left' = left \ {f}
    BY <2>1
  <2> QED BY <1>b, <2>1
<1>1. Typed'
  BY <1>d
<1>2. Agree'
  BY <1>d
<1>3. OneOwner'
  BY <1>d
<1>4. Forks'
  BY DEF Forks, Agree, Typed
<1>5. Taken'
  BY DEF Taken, Typed, Forks, OneOwner
<1>6. Round'
  BY DEF Round, Agree
<1>7. OnlyReported'
  BY <1>e, <1>f, ready' = ready DEF OnlyReported
<1>8. OneHolder'
  BY DEF OneHolder, Forks, OneOwner, Typed, Taken
<1> QED BY <1>1, <1>2, <1>3, <1>4, <1>5, <1>6, <1>7, <1>8

(* The child of a datagram inherits services only.                         *)
LEMMA ForkForDatagramStep ==
  ASSUME IInv, NEW f \in Fds, NEW p \in Procs, ForkForDatagram(f, p)
  PROVE  IInv'
<1> USE DEF IInv, ForkForDatagram, Starts
<1>a. \A c \in Clients : sock[c] = -1
  BY DEF OneOwner, Forks, Agree, Typed
<1>b. /\ holds' = [holds EXCEPT ![p] = {e \in EndPoints : sock[e] # -1} \cup {handlers[f]}]
      /\ conn' = [conn EXCEPT ![p] = {handlers[f]}]
      /\ stage' = [stage EXCEPT ![p] = "closing"]
      /\ handlers[f] \in Services /\ peer = {}
  BY DEF Forks
<1>1. Typed'
  BY DEF Typed
<1>2. Agree'
  BY DEF Agree, Typed
<1>3. OneOwner'
  BY DEF OneOwner, Typed, Agree
<1>4. Forks'
  BY DEF Forks, Agree, Typed
<1>5. Taken'
  BY DEF Taken, Typed, Forks, OneOwner
<1>6. Round'
  BY DEF Round, Agree
<1>7. OnlyReported'
  BY DEF OnlyReported, Round, Agree, Typed, OneOwner
<1>8. OneHolder'
  <2>1. \A q, r \in Procs : q # r => holds'[q] \cap holds'[r] \cap Clients = {}
    BY <1>a, <1>b DEF OneHolder, Typed
  <2>2. \A q \in Procs : {e \in holds'[q] \cap Clients : sock'[e] # -1} \subseteq peer'
    BY <1>a, <1>b DEF OneHolder, Typed
  <2>3. \A q \in Procs : conn'[q] \subseteq holds'[q]
    BY <1>a, <1>b DEF OneHolder, Typed
  <2>4. ~ sigchld' /\ ~ Over' => \A q \in Procs : stage'[q] # "zombie"
    BY <1>a, <1>b DEF OneHolder, Typed
  <2>5. pc' # "finished"
    OBVIOUS
  <2> QED BY <2>1, <2>2, <2>3, <2>4, <2>5 DEF OneHolder
<1> QED BY <1>1, <1>2, <1>3, <1>4, <1>5, <1>6, <1>7, <1>8

(* The new connection is nowhere else; peer tells of it.                   *)
LEMMA AcceptAndForkStep ==
  ASSUME IInv, NEW f \in Fds, NEW p \in Procs, AcceptAndFork(f, p)
  PROVE  IInv'
<1> USE DEF IInv, AcceptAndFork, Pending, Starts, Backlog, LowestFree
<1>a. PICK c \in Backlog(handlers[f]), g \in Fds :
        /\ LowestFree(g)
        /\ where' = [where EXCEPT ![c] = "taken"]
        /\ sock' = [sock EXCEPT ![c] = g]
        /\ peer' = {c}
        /\ Starts(p, c)
  OBVIOUS
<1>b. handlers[f] \in Services /\ peer = {}
  BY DEF Forks
<1>c. c \in Clients /\ where[c] # "taken"
  BY <1>a, <1>b
<1>d. sock[c] = -1 /\ \A q \in Procs : c \notin holds[q]
  BY <1>c DEF Taken, Typed
<1>e. \A e \in Clients : sock[e] = -1
  BY <1>b DEF OneOwner, Forks, Agree, Typed
<1>f. /\ holds' = [holds EXCEPT ![p] = {e \in EndPoints : sock[e] # -1} \cup {c}]
      /\ conn' = [conn EXCEPT ![p] = {c}]
      /\ stage' = [stage EXCEPT ![p] = "closing"]
  BY <1>a
<1>g. \A o \in EndPoints : sock[o] # g
  BY <1>a
<1>1. Typed'
  BY DEF Typed
<1>2. Agree'
  BY <1>a, <1>b, <1>c, <1>d DEF Agree, Typed, Forks
<1>3. OneOwner'
  BY <1>a, <1>b, <1>c, <1>d, <1>g DEF OneOwner, Typed
<1>4. Forks'
  BY DEF Forks, Agree, Typed
<1>5. Taken'
  BY DEF Taken, Typed, Forks, OneOwner
<1>6. Round'
  BY DEF Round, Agree
<1>7. OnlyReported'
  BY DEF OnlyReported, Round, Agree, Typed, OneOwner
<1>8. OneHolder'
  <2>1. \A q, r \in Procs : q # r => holds'[q] \cap holds'[r] \cap Clients = {}
    BY <1>a, <1>c, <1>d, <1>e, <1>f DEF OneHolder, Typed
  <2>2. \A q \in Procs : {e \in holds'[q] \cap Clients : sock'[e] # -1} \subseteq peer'
    BY <1>a, <1>c, <1>d, <1>e, <1>f DEF OneHolder, Typed
  <2>3. \A q \in Procs : conn'[q] \subseteq holds'[q]
    BY <1>a, <1>c, <1>d, <1>e, <1>f DEF OneHolder, Typed
  <2>4. ~ sigchld' /\ ~ Over' => \A q \in Procs : stage'[q] # "zombie"
    BY <1>a, <1>c, <1>d, <1>e, <1>f DEF OneHolder, Typed
  <2>5. pc' # "finished"
    OBVIOUS
  <2> QED BY <2>1, <2>2, <2>3, <2>4, <2>5 DEF OneHolder
<1> QED BY <1>1, <1>2, <1>3, <1>4, <1>5, <1>6, <1>7, <1>8

(* A fork fails: the connection may stay open; peer tells of it.           *)
LEMMA ForkFailsStep ==
  ASSUME IInv, NEW f \in Fds, ForkFails(f)
  PROVE  IInv'
<1> USE DEF IInv
<1>1. /\ pc \notin {"ended", "finished", "crashed", "forked"} /\ pc' = "ended"
      /\ peer = {}
      /\ UNCHANGED <<server, tables, pass, queue, unread, edge, children, sigchld>>
  BY DEF ForkFails, Pending, Forks
<1>2. CASE UNCHANGED <<sock, peer>> /\ where' \in [Clients -> Services \cup {"new", "taken"}]
           /\ \A c \in Clients : where[c] = "taken" => where'[c] = "taken"
  BY <1>1, <1>2 DEF Typed, Agree, OneOwner, Forks, Taken, Round, OnlyReported, OneHolder
<1>3. ASSUME NEW c \in Clients, where[c] # "taken", Forking,
             NEW g \in Fds, \A o \in EndPoints : sock[o] # g,
             where' = [where EXCEPT ![c] = "taken"],
             sock' = [sock EXCEPT ![c] = g], peer' = {c}
      PROVE  IInv'
  <2>1. sock[c] = -1 /\ \A q \in Procs : c \notin holds[q]
    BY <1>3 DEF Taken, Typed
  <2>2. \A e \in Clients : sock[e] = -1
    BY <1>1, <1>3 DEF OneOwner, Forks, Agree, Typed
  <2>3. Typed'
    BY <1>1, <1>3 DEF Typed
  <2>4. Agree'
    BY <1>1, <1>3, <2>1 DEF Agree, Typed, Forks
  <2>5. OneOwner'
    BY <1>1, <1>3, <2>1 DEF OneOwner, Typed
  <2>6. Forks'
    BY <1>1, <1>3 DEF Forks
  <2>7. Taken'
    BY <1>1, <1>3 DEF Taken, Typed
  <2>8. Round' /\ OnlyReported'
    BY <1>1 DEF Round, OnlyReported
  <2>9. OneHolder'
    BY <1>1, <1>3, <2>1, <2>2 DEF OneHolder, Typed
  <2> QED BY <2>3, <2>4, <2>5, <2>6, <2>7, <2>8, <2>9
<1>4. \/ UNCHANGED <<sock, peer, where>>
      \/ /\ Pending(f)
         /\ \E c \in Backlog(handlers[f]), g \in Fds :
              /\ LowestFree(g)
              /\ where' = [where EXCEPT ![c] = "taken"]
              /\ \/ UNCHANGED <<sock, peer>>
                 \/ sock' = [sock EXCEPT ![c] = g] /\ peer' = {c}
  BY DEF ForkFails
<1>5. CASE UNCHANGED <<sock, peer, where>>
  BY <1>2, <1>5 DEF Typed
<1>6. CASE Pending(f) /\ \E c \in Backlog(handlers[f]), g \in Fds :
             /\ LowestFree(g)
             /\ where' = [where EXCEPT ![c] = "taken"]
             /\ \/ UNCHANGED <<sock, peer>>
                \/ sock' = [sock EXCEPT ![c] = g] /\ peer' = {c}
  <2>1. Forking /\ handlers[f] \in Services
    BY <1>6 DEF Pending, Forks
  <2>2. PICK c \in Backlog(handlers[f]), g \in Fds :
          /\ LowestFree(g)
          /\ where' = [where EXCEPT ![c] = "taken"]
          /\ \/ UNCHANGED <<sock, peer>>
             \/ sock' = [sock EXCEPT ![c] = g] /\ peer' = {c}
    BY <1>6
  <2>3. c \in Clients /\ where[c] # "taken" /\ \A o \in EndPoints : sock[o] # g
    BY <2>1, <2>2 DEF Backlog, LowestFree
  <2>4. CASE UNCHANGED <<sock, peer>>
    BY <1>2, <2>2, <2>3, <2>4 DEF Typed
  <2>5. CASE sock' = [sock EXCEPT ![c] = g] /\ peer' = {c}
    BY <1>3, <2>1, <2>2, <2>3, <2>5
  <2> QED BY <2>2, <2>4, <2>5
<1> QED BY <1>4, <1>5, <1>6

(* finish() closes all that is in the tables.                              *)
LEMMA FinishStep ==
  ASSUME IInv, Finish
  PROVE  IInv'
<1> USE DEF IInv, Finish
<1>1. Typed'
  BY DEF Typed
<1>2. Agree'
  BY DEF Agree, Typed
<1>3. OneOwner'
  BY DEF OneOwner, Typed, Agree
<1>4. Forks'
  BY DEF Forks, Agree, Typed
<1>5. Taken'
  BY DEF Taken, Typed, Forks, OneOwner
<1>6. Round'
  BY DEF Round, Agree
<1>7. OnlyReported'
  BY DEF OnlyReported, Round, Agree, Typed, OneOwner
<1>8. OneHolder'
  BY DEF OneHolder, Forks, OneOwner, Typed, Taken
<1> QED BY <1>1, <1>2, <1>3, <1>4, <1>5, <1>6, <1>7, <1>8

(* The handler of SIGCHLD.                                                 *)
LEMMA ReaperStep ==
  ASSUME IInv, Reaper
  PROVE  IInv'
<1> USE DEF IInv, Reaper, WaitsAgain
<1>1. Typed'
  BY DEF Typed
<1>2. Agree'
  BY DEF Agree, Typed
<1>3. OneOwner'
  BY DEF OneOwner, Typed, Agree
<1>4. Forks'
  BY DEF Forks, Agree, Typed
<1>5. Taken'
  BY DEF Taken, Typed, Forks, OneOwner
<1>6. Round'
  BY DEF Round, Agree
<1>7. OnlyReported'
  BY DEF OnlyReported, Round, Agree, Typed, OneOwner
<1>8. OneHolder'
  BY DEF OneHolder, Forks, OneOwner, Typed, Taken
<1> QED BY <1>1, <1>2, <1>3, <1>4, <1>5, <1>6, <1>7, <1>8

(* Clients come, send and go.                                              *)
LEMMA NetworkStep ==
  ASSUME IInv, Network
  PROVE  IInv'
<1> USE DEF IInv, Network, GiveUp, Connect, Arrive
<1>1. Typed'
  BY DEF Typed
<1>2. Agree'
  BY DEF Agree, Typed
<1>3. OneOwner'
  BY DEF OneOwner, Typed, Agree
<1>4. Forks'
  BY DEF Forks, Agree, Typed
<1>5. Taken'
  BY DEF Taken, Typed, Forks, OneOwner
<1>6. Round'
  BY DEF Round, Agree
<1>7. OnlyReported'
  BY DEF OnlyReported, Round, Agree, Typed, OneOwner
<1>8. OneHolder'
  BY DEF OneHolder, Forks, OneOwner, Typed, Taken
<1> QED BY <1>1, <1>2, <1>3, <1>4, <1>5, <1>6, <1>7, <1>8

(* A child closes what is not its own, serves and ends.                    *)
LEMMA ChildStep ==
  ASSUME IInv, NEW p \in Procs, Child(p) \/ ChildEnds(p)
  PROVE  IInv'
<1> USE DEF IInv, Child, ChildCloses, ChildServes, ChildReads, ChildEnds
<1>1. Typed'
  BY DEF Typed
<1>2. Agree'
  BY DEF Agree, Typed
<1>3. OneOwner'
  BY DEF OneOwner, Typed, Agree
<1>4. Forks'
  BY DEF Forks, Agree, Typed
<1>5. Taken'
  BY DEF Taken, Typed, Forks, OneOwner
<1>6. Round'
  BY DEF Round, Agree
<1>7. OnlyReported'
  BY DEF OnlyReported, Round, Agree, Typed, OneOwner
<1>8. OneHolder'
  <2>1. CASE ChildCloses(p)
    <3>1. PICK o \in walk[p] : holds' = [holds EXCEPT ![p] = @ \ ({o} \ conn[p])]
      BY <2>1
    <3>2. /\ \A q \in Procs : holds'[q] \subseteq holds[q]
          /\ \A q \in Procs : conn[q] \subseteq holds[q] => conn[q] \subseteq holds'[q]
      BY <3>1 DEF Typed
    <3>3. UNCHANGED <<sock, pc, peer, conn, stage, sigchld>>
      BY <2>1
    <3> HIDE DEF ChildCloses, Child, ChildEnds
    <3> QED BY <3>2, <3>3 DEF OneHolder
  <2>2. CASE ChildServes(p)
    BY <2>2 DEF OneHolder, Typed
  <2>3. CASE ChildReads(p)
    BY <2>3 DEF OneHolder
  <2>4. CASE ChildEnds(p)
    <3>1. \A q \in Procs :
            /\ holds'[q] \subseteq holds[q]
            /\ \/ conn'[q] = conn[q] /\ holds'[q] = holds[q]
               \/ conn'[q] = {}
      BY <2>4 DEF Typed
    <3>2. ~ sigchld' => Over
      BY <2>4
    <3>3. UNCHANGED <<sock, pc, peer>>
      BY <2>4
    <3> HIDE DEF ChildCloses, Child, ChildEnds
    <3> QED BY <3>1, <3>2, <3>3 DEF OneHolder
  <2> QED BY <2>1, <2>2, <2>3, <2>4
<1> QED BY <1>1, <1>2, <1>3, <1>4, <1>5, <1>6, <1>7, <1>8

(* Every step keeps the invariant.                                         *)
LEMMA Steps == IInv /\ [Next]_vars => IInv'
<1> SUFFICES ASSUME IInv, [Next]_vars PROVE IInv'
  OBVIOUS
<1>1. CASE Loop
  <2>1. CASE SelectReturns \/ EpollReturns
    BY <2>1, ReturnsStep
  <2>2. CASE TimesOut
    BY <2>2, TimesOutStep
  <2>3. CASE LoopEnds \/ TimersDone \/ RoundEnds
    BY <2>3, LoopEndsStep
  <2>4. CASE DropTimer
    BY <2>4, DropTimerStep
  <2>5. CASE CallTimer
    BY <2>5, CallTimerStep
  <2>6. CASE CloseInServer
    BY <2>6, CloseInServerStep
  <2>7. CASE \E f \in Fds : Skip(f) \/ Accept(f) \/ Handle(f)
    BY <2>7, SkipStep, AcceptStep, HandleStep
  <2>8. CASE \E f \in Fds, p \in Procs : ForkForDatagram(f, p) \/ AcceptAndFork(f, p)
    BY <2>8, ForkForDatagramStep, AcceptAndForkStep
  <2> QED
    BY <1>1, <2>1, <2>2, <2>3, <2>4, <2>5, <2>6, <2>7, <2>8 DEF Loop
<1>2. CASE Reaper
  BY <1>2, ReaperStep
<1>3. CASE Network
  BY <1>3, NetworkStep
<1>4. CASE Interrupted
  BY <1>4, LoopEndsStep
<1>5. CASE Finish
  BY <1>5, FinishStep
<1>6. CASE \E f \in Fds : ForkFails(f)
  BY <1>6, ForkFailsStep
<1>7. CASE \E p \in Procs : Child(p) \/ ChildEnds(p)
  BY <1>7, ChildStep
<1>8. CASE UNCHANGED vars
  BY <1>8 DEF vars, IInv, Typed, Agree, OneOwner, Forks, Taken, Round,
              OnlyReported, OneHolder
<1> QED
  BY <1>1, <1>2, <1>3, <1>4, <1>5, <1>6, <1>7, <1>8 DEF Next
-----------------------------------------------------------------------------
(* Whatever clients, forked processes and timers there are, and however    *)
(* descriptors are given out again, IInv holds in every reachable state.   *)
THEOREM ServersSafe == Spec => []IInv
<1>1. Init => IInv
  BY Inits
<1>2. IInv /\ [Next]_vars => IInv'
  BY Steps
<1> QED BY <1>1, <1>2, PTL DEF Spec

(* The tables of run() (IterativeMultiServiceServer.cpp and the others)    *)
(* tell of the same open end points between any two steps.                 *)
THEOREM TablesInStep == Spec => []TablesAgree
<1>1. IInv => TablesAgree
  BY DEF IInv, Agree, TablesAgree
<1> QED BY <1>1, ServersSafe, PTL

(* A handler is called only for an event of its own end point, also when   *)
(* the descriptor was closed and given to another one in the same round.   *)
THEOREM EventsReachTheirOwn == Spec => []OnlyReported
<1>1. IInv => OnlyReported
  BY DEF IInv
<1> QED BY <1>1, ServersSafe, PTL

(* A connection is open in one process, but for the moment between fork    *)
(* and close in the server, and finish() leaves nothing open but one for   *)
(* which fork has failed.                                                  *)
THEOREM ConnectionsHaveOneHolder == Spec => []OneHolder
<1>1. IInv => OneHolder
  BY DEF IInv
<1> QED BY <1>1, ServersSafe, PTL
=============================================================================
