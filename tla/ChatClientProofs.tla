-------------------------- MODULE ChatClientProofs --------------------------
(***************************************************************************)
(* The network layer of the client for any servers, threads, operations    *)
(* and faults: what it keeps to itself (TypeCorrect), what it tells the    *)
(* user (ReportsTruthHolds) and, while nothing fails, which server it      *)
(* takes for the current one (ListIsOfCurrentHolds).                       *)
(***************************************************************************)
EXTENDS ChatClient, SequenceTheorems, FiniteSetTheorems, TLAPS

-----------------------------------------------------------------------------
\* The inductive invariant

PC == { "idle", "try", "probe", "ask", "heard", "lock", "attempt", "returned",
        "gaveUp" }

\* The locals of a thread.
Local ==
  [ pc : PC, op : Operations \cup { "init", None }, bound : Server \cup {None},
    attempts : 0 .. MaxRetries - 1, round : 0 .. MaxRetries - 1,
    rest : Seq(Server \cup {None}), heard : Seq(Server), success : BOOLEAN,
    refused : BOOLEAN, reachable : SUBSET Server, done : Nat ]

Typed ==
  /\ up \subseteq Server
  /\ live \in [Server -> SUBSET Server]
  /\ servers \in Seq(Server \cup {None}) /\ servers # <<>>
  /\ current \in Server \cup {None} /\ stub \in Server \cup {None}
  /\ lock \in Threads \cup {None}
  /\ session \in BOOLEAN /\ polling \in { "off", "on", "stopped" }
  /\ found \in BOOLEAN
  /\ calls \in 0 .. MaxCalls /\ faults \in 0 .. MaxFaults
  /\ thread \in [Threads -> Local]

\* The locals own fit a thread t if "holder" holds the lock: the lock is held through
\* the attempts of a request and the connections between them, and a thread that
\* connects without it is in the constructor.
Fits(own, t, holder) ==
  /\ own.pc = "attempt" => holder = t
  /\ own.pc \in { "try", "probe" } => holder = t \/ own.op = "init"
  /\ holder = t => own.pc \in { "try", "probe", "ask", "heard", "attempt" }
                   /\ own.op \in Operations
  /\ own.pc \in { "lock", "attempt", "returned", "gaveUp" } => own.op \in Operations
  /\ own.pc = "probe" => own.rest # <<>>

\* During the constructor nothing else runs.
Alone ==
  \A t \in Threads :
    thread[t].op = "init" =>
      /\ thread[t].pc \in { "try", "probe", "ask", "heard" }
      /\ lock = None /\ polling = "off"
      /\ \A u \in Threads \ {t} : thread[u] = Idle

\* After n faults: a request has been carried out at most once for each of them, and
\* once more when it comes back with success.
Counted(own, n) ==
  /\ own.success => own.pc = "returned" /\ own.done \in 1 .. n + 1
  /\ ~ own.success => own.done <= n

ClientInv ==
  /\ Typed
  /\ \A t \in Threads : Fits(thread[t], t, lock) /\ Counted(thread[t], faults)
  /\ Alone

LEMMA NoneIsNothing ==
  /\ None \notin Server /\ None \notin Threads /\ None \notin Operations
  /\ None # "init"
BY ClientAssumption DEF Threads

\* The locals with which a thread starts something.
LEMMA AtIsLocal ==
  ASSUME NEW pc \in PC, NEW op \in Operations \cup { "init", None }
  PROVE  /\ At(pc, op) \in Local
         /\ At(pc, op).pc = pc /\ At(pc, op).op = op
         /\ At(pc, op).done = 0 /\ ~ At(pc, op).success /\ At(pc, op).rest = <<>>
<1>1. 0 \in 0 .. MaxRetries - 1
  BY ClientAssumption
<1>2. <<>> \in Seq(Server \cup {None}) /\ <<>> \in Seq(Server)
  OBVIOUS
<1> QED
  BY <1>1, <1>2 DEF At, Local

LEMMA IdleIsLocal ==
  /\ Idle \in Local /\ Idle.pc = "idle" /\ Idle.op = None
  /\ Idle.done = 0 /\ ~ Idle.success
BY AtIsLocal DEF Idle, PC

\* A new request.
LEMMA RequestIsLocal ==
  ASSUME Typed, NEW op \in Operations
  PROVE  /\ Request(op) \in Local
         /\ Request(op).pc = "lock" /\ Request(op).op = op
         /\ Request(op).done = 0 /\ ~ Request(op).success
<1>1. At("lock", op) \in Local /\ At("lock", op).op = op /\ At("lock", op).pc = "lock"
      /\ At("lock", op).done = 0 /\ ~ At("lock", op).success
  BY AtIsLocal DEF PC
<1>2. stub \in Server \cup {None} /\ up \cap Range(servers) \in SUBSET Server
  BY DEF Typed
<1> QED
  BY <1>1, <1>2 DEF Request, Local

LEMMA ClientInit == Init => ClientInv
<1> SUFFICES ASSUME Init PROVE ClientInv
  OBVIOUS
<1> DEFINE main == CHOOSE t \in Thread : TRUE
           q == [At("try", "init") EXCEPT !.rest = Configured]
<1>1. main \in Threads
  BY ClientAssumption DEF Threads
<1>2. Configured \in Seq(Server \cup {None}) /\ Configured # <<>>
  BY ClientAssumption
<1>3. q \in Local /\ q.pc = "try" /\ q.op = "init" /\ q.done = 0 /\ ~ q.success
  <2>1. /\ At("try", "init") \in Local /\ At("try", "init").pc = "try"
        /\ At("try", "init").op = "init" /\ At("try", "init").done = 0
        /\ ~ At("try", "init").success
    BY AtIsLocal DEF PC
  <2> QED
    BY <1>2, <2>1 DEF Local
<1>4. /\ thread \in [Threads -> Local]
      /\ thread[main] = q
      /\ \A t \in Threads \ {main} : thread[t] = Idle
  <2> HIDE DEF q
  <2>1. thread = [t \in Threads |-> IF t = main THEN q ELSE Idle]
    BY DEF Init, q
  <2> QED
    BY <1>1, <1>3, <2>1, IdleIsLocal
<1> HIDE DEF q
<1>5. Typed
  <2>1. live \in [Server -> SUBSET Server] /\ up \subseteq Server
    BY ClientAssumption DEF Init
  <2>2. calls \in 0 .. MaxCalls /\ faults \in 0 .. MaxFaults
    BY ClientAssumption DEF Init
  <2> QED
    BY <1>2, <1>4, <2>1, <2>2 DEF Init, Typed
<1>6. Alone
  BY <1>3, <1>4, IdleIsLocal, NoneIsNothing DEF Alone, Init
<1>7. \A t \in Threads : Fits(thread[t], t, lock) /\ Counted(thread[t], faults)
  <2>1. faults = 0 /\ lock = None
    BY DEF Init
  <2>2. Counted(q, 0) /\ Counted(Idle, 0)
    BY <1>3, IdleIsLocal DEF Counted
  <2>3. \A t \in Threads : Fits(q, t, None) /\ Fits(Idle, t, None)
    BY <1>3, IdleIsLocal, NoneIsNothing DEF Fits
  <2> QED
    BY <1>4, <2>1, <2>2, <2>3
<1> QED
  BY <1>5, <1>6, <1>7 DEF ClientInv

-----------------------------------------------------------------------------
\* One thread moves

LEMMA FaultCounts ==
  ASSUME ClientInv, Fault
  PROVE  faults' \in 0 .. MaxFaults /\ faults' = faults + 1 /\ faults \in Nat
BY ClientAssumption DEF ClientInv, Typed, Fault

\* What was within the faults so far stays so.
LEMMA CountedGrows ==
  ASSUME ClientInv, NEW own \in Local, Counted(own, faults), faults' = faults \/ Fault
  PROVE  Counted(own, faults')
<1>1. faults \in Nat /\ own.done \in Nat
  BY ClientAssumption DEF ClientInv, Typed, Local
<1>2. CASE faults' = faults
  BY <1>2 DEF Counted
<1>3. CASE faults' = faults + 1
  BY <1>1, <1>3 DEF Counted
<1> QED
  BY <1>2, <1>3, FaultCounts

\* The locals of t become q, and the lock stays, is taken or is released.
Moves(t, q) ==
  /\ thread' = [thread EXCEPT ![t] = q]
  /\ q \in Local
  /\ Fits(q, t, lock')
  /\ Counted(q, faults')
  /\ \/ lock' = lock
     \/ lock = None /\ lock' = t
     \/ lock = t /\ lock' = None
  /\ Constructed \/ thread[t].op = "init"
  /\ q.op = "init" => /\ thread[t].op = "init" /\ lock' = None
                      /\ q.pc \in { "try", "probe", "ask", "heard" }
                      /\ polling' = "off"

LEMMA MoveKeeps ==
  ASSUME ClientInv, NEW t \in Threads, NEW q, Moves(t, q), faults' = faults \/ Fault
  PROVE  /\ thread' \in [Threads -> Local]
         /\ lock' \in Threads \cup {None}
         /\ \A u \in Threads : Fits(thread[u], u, lock)' /\ Counted(thread[u], faults)'
         /\ Alone'
<1>1. /\ thread \in [Threads -> Local] /\ lock \in Threads \cup {None}
      /\ None \notin Threads
  BY NoneIsNothing DEF ClientInv, Typed
<1>2. /\ thread'[t] = q
      /\ \A u \in Threads \ {t} : thread'[u] = thread[u]
      /\ thread' \in [Threads -> Local]
  BY <1>1 DEF Moves
<1>3. lock' \in Threads \cup {None}
  BY <1>1 DEF Moves
<1>4. ASSUME NEW u \in Threads
      PROVE  Fits(thread[u], u, lock)' /\ Counted(thread[u], faults)'
  <2>1. CASE u = t
    BY <1>2, <2>1 DEF Moves, Fits, Counted
  <2>2. CASE u # t
    <3>1. Fits(thread[u], u, lock) /\ Counted(thread[u], faults)
      BY DEF ClientInv
    <3>2. Fits(thread[u], u, lock')
      BY <1>1, <2>2, <3>1 DEF Moves, Fits
    <3>3. Counted(thread[u], faults')
      BY <1>1, <3>1, CountedGrows
    <3> QED
      BY <1>2, <2>2, <3>2, <3>3 DEF Fits, Counted
  <2> QED
    BY <2>1, <2>2
<1>5. Alone'
  <2> SUFFICES ASSUME NEW v \in Threads, thread'[v].op = "init"
               PROVE  /\ thread'[v].pc \in { "try", "probe", "ask", "heard" }
                      /\ lock' = None /\ polling' = "off"
                      /\ \A u \in Threads \ {v} : thread'[u] = Idle
    BY DEF Alone, Idle, At
  <2>1. v = t
    <3> SUFFICES ASSUME v # t PROVE FALSE
      OBVIOUS
    <3>1. thread[v].op = "init"
      BY <1>2
    <3>2. thread[t] = Idle
      BY <3>1 DEF ClientInv, Alone
    <3> QED
      BY <3>1, <3>2, IdleIsLocal, NoneIsNothing DEF Moves, Constructed
  <2>2. thread[t].op = "init" /\ thread'[t] = q
    BY <1>2, <2>1 DEF Moves
  <2>3. \A u \in Threads \ {t} : thread[u] = Idle
    BY <2>2 DEF ClientInv, Alone
  <2> QED
    BY <1>2, <2>1, <2>2, <2>3 DEF Moves
<1> QED
  BY <1>2, <1>3, <1>4, <1>5

\* A thread that does something other than wait is the constructor, or runs after it.
LEMMA Running ==
  ASSUME ClientInv, NEW t \in Threads, thread[t].pc # "idle"
  PROVE  Constructed \/ thread[t].op = "init"
BY IdleIsLocal DEF ClientInv, Alone, Constructed

LEMMA OperationIsNotInit == "init" \notin Operations /\ Operation \subseteq Operations
BY ClientAssumption DEF Operations

\* What is known of the locals of a thread.
LEMMA LocalOf ==
  ASSUME ClientInv, NEW t \in Threads
  PROVE  /\ thread[t] \in Local
         /\ Fits(thread[t], t, lock) /\ Counted(thread[t], faults)
         /\ thread[t].op = "init" =>
              /\ thread[t].pc \in { "try", "probe", "ask", "heard" }
              /\ lock = None /\ polling = "off"
         /\ thread[t].pc # "idle" => Constructed \/ thread[t].op = "init"
         /\ t # None
BY Running, NoneIsNothing DEF ClientInv, Typed, Alone

\* After a connection.
LEMMA ResumeMoves ==
  ASSUME ClientInv, NEW t \in Threads, thread[t].pc \in { "try", "ask", "heard" },
         thread' = [thread EXCEPT ![t] = Resume(t)], lock' = lock,
         faults' = faults \/ Fault
  PROVE  Moves(t, Resume(t))
<1>1. /\ thread[t] \in Local
      /\ Fits(thread[t], t, lock) /\ Counted(thread[t], faults)
      /\ Constructed \/ thread[t].op = "init"
      /\ t # None
  BY LocalOf
<1>2. CASE lock = t
  <2> DEFINE q == [thread[t] EXCEPT !.pc = "attempt"]
  <2>1. Resume(t) = q
    BY <1>2 DEF Resume
  <2>2. /\ q \in Local /\ q.pc = "attempt" /\ q.op = thread[t].op
        /\ q.done = thread[t].done
        /\ q.success = thread[t].success
    BY <1>1 DEF Local, PC
  <2>3. q.op \in Operations
    BY <1>1, <1>2, <2>2 DEF Fits
  <2> HIDE DEF q
  <2>4. Counted(q, faults)
    BY <1>1, <2>2 DEF Counted
  <2> QED
    BY <1>1, <1>2, <2>1, <2>2, <2>3, <2>4, CountedGrows, OperationIsNotInit
    DEF Moves, Fits
<1>3. CASE lock # t
  <2>1. Resume(t) = Idle
    BY <1>3 DEF Resume
  <2>2. Counted(Idle, faults)
    BY IdleIsLocal, ClientAssumption DEF Counted, ClientInv, Typed
  <2> QED
    BY <1>1, <1>3, <2>1, <2>2, CountedGrows, IdleIsLocal, NoneIsNothing DEF Moves, Fits
<1> QED
  BY <1>2, <1>3

\* One step of a connection: t goes on with "rest" and "pc".
LEMMA ConnectMoves ==
  ASSUME ClientInv, NEW t \in Threads, thread[t].pc \in { "try", "probe", "ask" },
         NEW q \in Local, thread' = [thread EXCEPT ![t] = q], lock' = lock,
         polling' = polling, faults' = faults \/ Fault,
         q.op = thread[t].op, q.done = thread[t].done, q.success = thread[t].success,
         \/ q.pc = "try" /\ thread[t].pc \in { "try", "probe" }
         \/ q.pc = "probe" /\ thread[t].pc = "try" /\ q.rest # <<>>
         \/ q.pc \in { "ask", "heard" }
  PROVE  Moves(t, q)
<1>1. /\ thread[t] \in Local
      /\ Fits(thread[t], t, lock) /\ Counted(thread[t], faults)
      /\ Constructed \/ thread[t].op = "init"
      /\ t # None
      /\ thread[t].op = "init" => lock = None /\ polling = "off"
  BY LocalOf
<1>2. Counted(q, faults)
  BY <1>1 DEF Counted
<1> QED
  BY <1>1, <1>2, CountedGrows DEF Moves, Fits

LEMMA TryMoves ==
  ASSUME ClientInv, NEW t \in Threads, Try(t)
  PROVE  stub' \in Server \cup {None} /\ \E q : Moves(t, q)
<1>1. thread[t] \in Local /\ thread[t].pc = "try" /\ thread[t].rest # <<>>
  BY LocalOf DEF Try
<1>2. /\ Head(thread[t].rest) \in Server \cup {None}
      /\ Tail(thread[t].rest) \in Seq(Server \cup {None})
  BY <1>1, HeadTailProperties DEF Local
<1>3. lock' = lock /\ polling' = polling /\ faults' = faults
  BY DEF Try, environment, user
<1>4. CASE Head(thread[t].rest) = None
  <2> DEFINE q == [thread[t] EXCEPT !.rest = Tail(@)]
  <2>1. q \in Local /\ q.pc = "try" /\ q.op = thread[t].op /\ q.done = thread[t].done
        /\ q.success = thread[t].success
    BY <1>1, <1>2 DEF Local
  <2>2. thread' = [thread EXCEPT ![t] = q] /\ stub' = stub
    BY <1>4 DEF Try
  <2>3. Moves(t, q)
    BY <1>1, <1>3, <2>1, <2>2, ConnectMoves
  <2> QED
    BY <2>2, <2>3 DEF ClientInv, Typed
<1>5. CASE Head(thread[t].rest) # None
  <2> DEFINE q == [thread[t] EXCEPT !.pc = "probe"]
  <2>1. /\ q \in Local /\ q.pc = "probe" /\ q.op = thread[t].op
        /\ q.done = thread[t].done /\ q.success = thread[t].success
        /\ q.rest = thread[t].rest
    BY <1>1 DEF Local, PC
  <2>2. thread' = [thread EXCEPT ![t] = q] /\ stub' = Head(thread[t].rest)
    BY <1>5 DEF Try, Goto
  <2>3. Moves(t, q)
    BY <1>1, <1>3, <2>1, <2>2, ConnectMoves
  <2> QED
    BY <1>2, <2>2, <2>3
<1> QED
  BY <1>4, <1>5

LEMMA ConnectedMoves ==
  ASSUME ClientInv, NEW t \in Threads, Connected(t)
  PROVE  current' \in Server \cup {None} /\ \E q : Moves(t, q)
<1>1. thread[t] \in Local /\ thread[t].pc = "probe" /\ thread[t].rest # <<>>
  BY LocalOf DEF Connected, Fits
<1>2. Head(thread[t].rest) \in Server \cup {None}
  BY <1>1, HeadTailProperties DEF Local
<1> DEFINE q == [thread[t] EXCEPT !.pc = "ask"]
<1>3. q \in Local /\ q.pc = "ask" /\ q.op = thread[t].op /\ q.done = thread[t].done
      /\ q.success = thread[t].success
  BY <1>1 DEF Local, PC
<1>4. /\ thread' = [thread EXCEPT ![t] = q] /\ current' = Head(thread[t].rest)
      /\ lock' = lock /\ polling' = polling /\ faults' = faults
  BY DEF Connected, Goto, environment, user
<1>5. Moves(t, q)
  BY <1>1, <1>3, <1>4, ConnectMoves
<1> QED
  BY <1>2, <1>4, <1>5

LEMMA ConnectionFailsMoves ==
  ASSUME ClientInv, NEW t \in Threads, ConnectionFails(t)
  PROVE  faults' \in 0 .. MaxFaults /\ (faults' = faults \/ Fault) /\ \E q : Moves(t, q)
<1>1. thread[t] \in Local /\ thread[t].pc = "probe" /\ thread[t].rest # <<>>
  BY LocalOf DEF ConnectionFails, Fits
<1>2. Tail(thread[t].rest) \in Seq(Server \cup {None})
  BY <1>1, HeadTailProperties DEF Local
<1>3. faults' \in 0 .. MaxFaults /\ (faults' = faults \/ Fault)
  BY FaultCounts DEF ConnectionFails, ClientInv, Typed
<1> DEFINE q == [thread[t] EXCEPT !.pc = "try", !.rest = Tail(@)]
<1>4. q \in Local /\ q.pc = "try" /\ q.op = thread[t].op /\ q.done = thread[t].done
      /\ q.success = thread[t].success
  BY <1>1, <1>2 DEF Local, PC
<1>5. /\ thread' = [thread EXCEPT ![t] = q]
      /\ lock' = lock /\ polling' = polling
  <2>1. thread' = [thread EXCEPT ![t].pc = "try", ![t].rest = Tail(@)]
    BY DEF ConnectionFails
  <2>2. thread \in [Threads -> Local]
    BY DEF ClientInv, Typed
  <2> QED
    BY <1>1, <2>1, <2>2 DEF ConnectionFails, user
<1>6. Moves(t, q)
  BY <1>1, <1>3, <1>4, <1>5, ConnectMoves
<1> QED
  BY <1>3, <1>6

LEMMA NextRoundMoves ==
  ASSUME ClientInv, NEW t \in Threads, NextRound(t)
  PROVE  \E q : Moves(t, q)
<1>1. thread[t] \in Local /\ thread[t].pc = "try"
  BY LocalOf DEF NextRound
<1>2. lock' = lock /\ polling' = polling /\ faults' = faults
  BY DEF NextRound, environment, user
<1>3. CASE thread[t].round + 1 < MaxRetries
  <2> DEFINE q == [thread[t] EXCEPT !.round = @ + 1, !.rest = servers]
  <2>1. thread[t].round + 1 \in 0 .. MaxRetries - 1
    BY <1>1, <1>3, ClientAssumption DEF Local
  <2>2. q \in Local /\ q.pc = "try" /\ q.op = thread[t].op /\ q.done = thread[t].done
        /\ q.success = thread[t].success
    BY <1>1, <2>1 DEF Local, ClientInv, Typed
  <2>3. thread' = [thread EXCEPT ![t] = q]
    BY <1>3 DEF NextRound
  <2>4. Moves(t, q)
    BY <1>1, <1>2, <2>2, <2>3, ConnectMoves
  <2> QED
    BY <2>4
<1>4. CASE ~ (thread[t].round + 1 < MaxRetries)
  <2>1. thread' = [thread EXCEPT ![t] = Resume(t)]
    BY <1>4 DEF NextRound
  <2> QED
    BY <1>1, <1>2, <2>1, ResumeMoves
<1> QED
  BY <1>3, <1>4

\* The servers a server names, in any order.
LEMMA OrderingType ==
  ASSUME NEW S \in SUBSET Server, NEW f \in SetToSeqs(S)
  PROVE  f \in Seq(Server) /\ IsInjective(f) /\ Range(f) \subseteq S
<1>1. Cardinality(S) \in Nat
  BY ClientAssumption, FS_Subset, FS_CardinalityType
<1>2. /\ f \in [1 .. Cardinality(S) -> S]
      /\ \A i, j \in 1 .. Cardinality(S) : i # j => f[i] # f[j]
  BY DEF SetToSeqs
<1>3. f \in [1 .. Cardinality(S) -> Server]
  BY <1>2
<1> QED
  BY <1>1, <1>2, <1>3, SeqDef DEF IsInjective, Range

LEMMA HearMoves ==
  ASSUME ClientInv, NEW t \in Threads, Hear(t)
  PROVE  \E q : Moves(t, q)
<1>1. thread[t] \in Local /\ thread[t].pc = "ask"
  BY LocalOf DEF Hear
<1>2. PICK replicas \in SetToSeqs(live[stub]) :
        thread' = [thread EXCEPT ![t].pc = "heard", ![t].heard = replicas]
  BY DEF Hear
<1>3. replicas \in Seq(Server)
  BY OrderingType DEF Hear, ClientInv, Typed
<1> DEFINE q == [thread[t] EXCEPT !.pc = "heard", !.heard = replicas]
<1>4. q \in Local /\ q.pc = "heard" /\ q.op = thread[t].op /\ q.done = thread[t].done
      /\ q.success = thread[t].success
  BY <1>1, <1>3 DEF Local, PC
<1>5. /\ thread' = [thread EXCEPT ![t] = q]
      /\ lock' = lock /\ polling' = polling /\ faults' = faults
  <2>1. thread \in [Threads -> Local]
    BY DEF ClientInv, Typed
  <2> QED
    BY <1>1, <1>2, <2>1 DEF Hear, environment, user
<1>6. Moves(t, q)
  BY <1>1, <1>4, <1>5, ConnectMoves
<1> QED
  BY <1>6

LEMMA HearNothingMoves ==
  ASSUME ClientInv, NEW t \in Threads, HearNothing(t)
  PROVE  faults' \in 0 .. MaxFaults /\ (faults' = faults \/ Fault) /\ \E q : Moves(t, q)
<1>1. faults' \in 0 .. MaxFaults /\ (faults' = faults \/ Fault)
  BY FaultCounts DEF HearNothing, ClientInv, Typed
<1>2. /\ thread[t].pc = "ask" /\ thread' = [thread EXCEPT ![t] = Resume(t)]
      /\ lock' = lock
  BY DEF HearNothing
<1> QED
  BY <1>1, <1>2, ResumeMoves

LEMMA UpdateServersMoves ==
  ASSUME ClientInv, NEW t \in Threads, UpdateServers(t)
  PROVE  /\ servers' \in Seq(Server \cup {None}) /\ servers' # <<>>
         /\ \E q : Moves(t, q)
<1>1. thread[t] \in Local /\ thread[t].pc = "heard"
  BY LocalOf DEF UpdateServers
<1>2. /\ << current >> \in Seq(Server \cup {None}) /\ Len(<< current >>) = 1
      /\ thread[t].heard \in Seq(Server \cup {None})
  BY <1>1 DEF Local, ClientInv, Typed
<1>3. /\ servers' = << current >> \o thread[t].heard
      /\ thread' = [thread EXCEPT ![t] = Resume(t)]
      /\ lock' = lock /\ faults' = faults
  BY DEF UpdateServers, NewServers, environment
<1>4. /\ servers' \in Seq(Server \cup {None})
      /\ Len(servers') = 1 + Len(thread[t].heard)
  BY <1>2, <1>3, ConcatProperties
<1>5. servers' # <<>>
  <2>1. Len(thread[t].heard) \in Nat /\ Len(<<>>) = 0
    BY <1>2, LenProperties
  <2> QED
    BY <1>4, <2>1
<1> QED
  BY <1>1, <1>3, <1>4, <1>5, ResumeMoves

-----------------------------------------------------------------------------
\* Requests

LEMMA AcquireMoves ==
  ASSUME ClientInv, NEW t \in Threads, Acquire(t)
  PROVE  \E q : Moves(t, q)
<1>1. /\ thread[t] \in Local /\ thread[t].pc = "lock" /\ thread[t].op \in Operations
      /\ Counted(thread[t], faults)
      /\ Constructed \/ thread[t].op = "init"
  BY LocalOf DEF Acquire, Fits
<1> DEFINE q == [thread[t] EXCEPT !.pc = "attempt"]
<1>2. q \in Local /\ q.pc = "attempt" /\ q.op = thread[t].op /\ q.done = thread[t].done
      /\ q.success = thread[t].success
  BY <1>1 DEF Local, PC
<1>3. /\ thread' = [thread EXCEPT ![t] = q]
      /\ lock = None /\ lock' = t /\ faults' = faults
  BY DEF Acquire, Goto, environment
<1>4. Moves(t, q)
  <2> HIDE DEF q
  <2>1. Counted(q, faults')
    BY <1>1, <1>2, <1>3 DEF Counted
  <2> QED
    BY <1>1, <1>2, <1>3, <2>1, OperationIsNotInit DEF Moves, Fits
<1> QED
  BY <1>4

\* A request that is over.
LEMMA ReleaseMoves ==
  ASSUME ClientInv, NEW t \in Threads, thread[t].pc = "attempt",
         NEW request \in Local, NEW pc \in { "returned", "gaveUp" },
         request.op = thread[t].op,
         request.success => pc = "returned" /\ request.done \in 1 .. faults' + 1,
         ~ request.success => request.done <= faults',
         faults' = faults \/ Fault,
         Release(t, request, pc)
  PROVE  \E q : Moves(t, q)
<1>1. /\ thread[t] \in Local
      /\ thread[t].op \in Operations /\ lock = t
      /\ Constructed \/ thread[t].op = "init"
      /\ t # None
  BY LocalOf DEF Fits
<1> DEFINE q == [request EXCEPT !.pc = pc]
<1>2. /\ q \in Local /\ q.pc = pc /\ q.op = thread[t].op /\ q.done = request.done
      /\ q.success = request.success
  BY DEF Local, PC
<1>3. thread' = [thread EXCEPT ![t] = q] /\ lock' = None
  BY DEF Release
<1>4. Moves(t, q)
  <2> HIDE DEF q
  <2>1. Counted(q, faults')
    BY <1>2 DEF Counted
  <2>2. Fits(q, t, None) /\ q.op # "init"
    BY <1>1, <1>2, OperationIsNotInit DEF Fits
  <2> QED
    BY <1>1, <1>2, <1>3, <2>1, <2>2 DEF Moves
<1> QED
  BY <1>4

\* An attempt that fails.
LEMMA FailsMoves ==
  ASSUME ClientInv, NEW t \in Threads, thread[t].pc = "attempt",
         NEW request \in Local, request.op = thread[t].op,
         request.done <= faults', ~ request.success,
         request.attempts = thread[t].attempts,
         faults' = faults \/ Fault,
         Fails(t, request)
  PROVE  \E q : Moves(t, q)
<1>1. /\ thread[t] \in Local
      /\ thread[t].op \in Operations /\ lock = t
      /\ Constructed \/ thread[t].op = "init"
  BY LocalOf DEF Fits
<1>2. CASE request.attempts + 1 < MaxRetries
  <2> DEFINE q == [request EXCEPT !.pc = "try", !.attempts = @ + 1,
                                  !.round = 0, !.rest = servers]
  <2>1. request.attempts + 1 \in 0 .. MaxRetries - 1 /\ 0 \in 0 .. MaxRetries - 1
    BY <1>2, ClientAssumption DEF Local
  <2>2. q \in Local /\ q.pc = "try" /\ q.op = request.op /\ q.done = request.done
        /\ q.success = request.success
    BY <2>1 DEF Local, PC, ClientInv, Typed
  <2>3. thread' = [thread EXCEPT ![t] = q] /\ lock' = lock
    BY <1>2 DEF Fails
  <2>4. Moves(t, q)
    <3> HIDE DEF q
    <3>1. Counted(q, faults')
      BY <2>2 DEF Counted
    <3>2. Fits(q, t, lock) /\ q.op # "init"
      BY <1>1, <2>2, OperationIsNotInit DEF Fits
    <3> QED
      BY <1>1, <2>2, <2>3, <3>1, <3>2 DEF Moves
  <2> QED
    BY <2>4
<1>3. CASE ~ (request.attempts + 1 < MaxRetries)
  BY <1>3, ReleaseMoves DEF Fails
<1> QED
  BY <1>2, <1>3

LEMMA AnsweredMoves ==
  ASSUME ClientInv, NEW t \in Threads, Answered(t)
  PROVE  \E q : Moves(t, q)
<1>1. /\ thread[t] \in Local /\ thread[t].pc = "attempt" /\ faults' = faults
      /\ Counted(thread[t], faults)
  BY LocalOf DEF Answered, environment
<1>2. thread[t].done \in 0 .. faults /\ ~ thread[t].success /\ faults \in Nat
  BY <1>1, ClientAssumption DEF Counted, Local, ClientInv, Typed
<1> DEFINE request == [thread[t] EXCEPT !.success = TRUE, !.done = @ + 1]
<1>3. CASE Release(t, request, "returned")
  <2>1. /\ request \in Local /\ request.op = thread[t].op
        /\ request.done = thread[t].done + 1 /\ request.success
    <3>1. thread[t].done + 1 \in Nat
      BY <1>2
    <3> QED
      BY <1>1, <3>1 DEF Local
  <2>2. request.done \in 1 .. faults + 1
    BY <1>2, <2>1
  <2> HIDE DEF request
  <2> QED
    BY <1>1, <1>2, <1>3, <2>1, <2>2, ReleaseMoves
<1>4. CASE Release(t, thread[t], "returned")
  BY <1>1, <1>2, <1>4, ReleaseMoves
<1> QED
  BY <1>3, <1>4 DEF Answered

LEMMA FailuresMove ==
  ASSUME ClientInv, NEW t \in Threads,
         Refused(t) \/ Unsaved(t) \/ Unreachable(t) \/ Unanswered(t)
  PROVE  faults' \in 0 .. MaxFaults /\ (faults' = faults \/ Fault) /\ \E q : Moves(t, q)
<1>1. /\ thread[t] \in Local /\ thread[t].pc = "attempt"
      /\ Counted(thread[t], faults)
  BY LocalOf DEF Refused, Unsaved, Unreachable, Unanswered
<1>2. /\ thread[t].done \in 0 .. faults /\ ~ thread[t].success
      /\ faults \in 0 .. MaxFaults /\ faults \in Nat
  BY <1>1, ClientAssumption DEF Counted, Local, ClientInv, Typed
<1>3. ASSUME NEW request \in Local, request.op = thread[t].op,
             request.success = thread[t].success,
             request.attempts = thread[t].attempts,
             Fails(t, request),
             \/ request.done = thread[t].done /\ faults' = faults
             \/ request.done <= thread[t].done + 1 /\ Fault
      PROVE  faults' \in 0 .. MaxFaults /\ (faults' = faults \/ Fault) /\ \E q : Moves(t, q)
  <2>1. faults' \in 0 .. MaxFaults /\ (faults' = faults \/ Fault) /\ request.done <= faults'
    BY <1>2, <1>3, FaultCounts DEF Local
  <2> QED
    BY <1>1, <1>2, <1>3, <2>1, FailsMoves
<1>4. CASE Refused(t)
  <2> DEFINE request == [thread[t] EXCEPT !.refused = TRUE]
  <2>1. /\ request \in Local /\ request.op = thread[t].op
        /\ request.success = thread[t].success
        /\ request.done = thread[t].done /\ request.attempts = thread[t].attempts
    BY <1>1 DEF Local
  <2>2. Fails(t, request) /\ faults' = faults
    BY <1>4 DEF Refused, environment
  <2> HIDE DEF request
  <2> QED
    BY <1>3, <2>1, <2>2
<1>5. CASE Unsaved(t)
  <2> DEFINE request == [thread[t] EXCEPT !.refused = TRUE, !.done = @ + 1]
  <2>1. /\ request \in Local /\ request.op = thread[t].op
        /\ request.success = thread[t].success
        /\ request.done = thread[t].done + 1 /\ request.attempts = thread[t].attempts
    <3>1. thread[t].done + 1 \in Nat
      BY <1>2
    <3> QED
      BY <1>1, <3>1 DEF Local
  <2>2. Fails(t, request) /\ Fault
    BY <1>5 DEF Unsaved
  <2>3. request.done <= thread[t].done + 1
    BY <1>2, <2>1
  <2> HIDE DEF request
  <2> QED
    BY <1>3, <2>1, <2>2, <2>3
<1>6. CASE Unreachable(t)
  <2>1. Fails(t, thread[t]) /\ faults' = faults
    BY <1>6 DEF Unreachable, environment
  <2> QED
    BY <1>1, <1>3, <2>1
<1>7. CASE Unanswered(t)
  <2>1. PICK n \in {0, 1} :
          Fails(t, [thread[t] EXCEPT !.done = @ + n,
                                     !.reachable = @ \ { thread[t].bound }])
    BY <1>7 DEF Unanswered
  <2> DEFINE request == [thread[t] EXCEPT !.done = @ + n,
                                          !.reachable = @ \ { thread[t].bound }]
  <2>2. /\ request \in Local /\ request.op = thread[t].op
        /\ request.success = thread[t].success
        /\ request.attempts = thread[t].attempts
        /\ request.done = thread[t].done + n
    <3>1. thread[t].done + n \in Nat
      BY <1>2
    <3>2. thread[t].reachable \ { thread[t].bound } \in SUBSET Server
      BY <1>1 DEF Local
    <3> QED
      BY <1>1, <3>1, <3>2 DEF Local
  <2>3. request.done <= thread[t].done + 1 /\ Fault
    BY <1>2, <1>7, <2>2 DEF Unanswered
  <2>4. Fails(t, request)
    BY <2>1
  <2> HIDE DEF request
  <2> QED
    BY <1>3, <2>2, <2>3, <2>4
<1> QED
  BY <1>4, <1>5, <1>6, <1>7

\* A thread that is idle, or has reported, starts anew.
LEMMA FreshMoves ==
  ASSUME ClientInv, NEW t \in Threads, NEW q \in Local,
         Constructed, thread[t].pc \in { "idle", "returned", "gaveUp" },
         thread' = [thread EXCEPT ![t] = q], lock' = lock, q.done = 0, ~ q.success,
         faults' = faults \/ Fault,
         \/ q.pc \in { "idle", "ask" } /\ q.op = None
         \/ q.pc = "lock" /\ q.op \in Operations
  PROVE  Moves(t, q)
<1>1. Fits(thread[t], t, lock) /\ t # None
  BY LocalOf
<1>2. Counted(q, faults)
  BY ClientAssumption DEF Counted, ClientInv, Typed
<1> QED
  BY <1>1, <1>2, CountedGrows, NoneIsNothing, OperationIsNotInit DEF Moves, Fits

LEMMA FinishMoves ==
  ASSUME ClientInv, NEW t \in Threads, Finish(t)
  PROVE  /\ session' \in BOOLEAN /\ polling' \in { "off", "on", "stopped" }
         /\ \E q : Moves(t, q)
<1>1. /\ thread[t].pc \in { "returned", "gaveUp" } /\ Constructed
  BY LocalOf DEF Finish
<1>2. session' \in BOOLEAN /\ polling' \in { "off", "on", "stopped" }
  BY DEF Finish, ClientInv, Typed
<1>3. At("ask", None) \in Local /\ At("ask", None).pc = "ask" /\ At("ask", None).op = None
      /\ At("ask", None).done = 0 /\ ~ At("ask", None).success
  BY AtIsLocal DEF PC
<1>4. /\ lock' = lock /\ faults' = faults
      /\ \/ thread' = [thread EXCEPT ![t] = Idle]
         \/ thread' = [thread EXCEPT ![t] = At("ask", None)]
  BY DEF Finish, environment
<1>5. \E q : Moves(t, q)
  BY <1>1, <1>3, <1>4, IdleIsLocal, FreshMoves
<1> QED
  BY <1>2, <1>5

LEMMA CallMoves ==
  ASSUME ClientInv, NEW t \in Threads,
         (t \in Thread /\ Call(t)) \/ (t = Poller /\ Poll)
  PROVE  /\ calls' \in 0 .. MaxCalls
         /\ lock' = lock /\ faults' = faults
         /\ \E q : Moves(t, q)
<1>1. Constructed
  <2>1. CASE Poll
    BY <2>1, NoneIsNothing DEF Poll, ClientInv, Alone, Constructed
  <2> QED
    BY <2>1 DEF Call
<1>2. thread[t].pc = "idle" /\ lock' = lock /\ faults' = faults
  BY IdleIsLocal DEF Call, Poll, environment
<1>3. calls' \in 0 .. MaxCalls
  BY ClientAssumption DEF Call, Poll, user, ClientInv, Typed
<1>4. \/ \E op \in Operations : thread' = [thread EXCEPT ![t] = Request(op)]
      \/ thread' = [thread EXCEPT ![t] = At("ask", None)]
  BY OperationIsNotInit DEF Call, Poll, Operations
<1>5. At("ask", None) \in Local /\ At("ask", None).pc = "ask" /\ At("ask", None).op = None
      /\ At("ask", None).done = 0 /\ ~ At("ask", None).success
  BY AtIsLocal DEF PC
<1>6. \A op \in Operations : /\ Request(op) \in Local /\ Request(op).pc = "lock"
                             /\ Request(op).op = op /\ Request(op).done = 0
                             /\ ~ Request(op).success
  BY RequestIsLocal DEF ClientInv
<1>7. \E q : Moves(t, q)
  BY <1>1, <1>2, <1>4, <1>5, <1>6, FreshMoves
<1> QED
  BY <1>2, <1>3, <1>7

-----------------------------------------------------------------------------
\* The invariant is inductive

\* A crash takes a server from what every request could reach.
LEMMA CrashKeeps ==
  ASSUME ClientInv, NEW s \in Server, Crash(s)
  PROVE  ClientInv'
<1> DEFINE after(t) == [thread[t] EXCEPT !.reachable = @ \ {s}]
<1>1. /\ s \in up /\ up' = up \ {s} /\ live' = [live EXCEPT ![s] = {}]
      /\ thread' = [t \in Threads |-> after(t)]
      /\ UNCHANGED << connection, user, lock >> /\ Fault
  BY DEF Crash
<1>2. faults' \in 0 .. MaxFaults
  BY <1>1, FaultCounts
<1>3. ASSUME NEW t \in Threads
      PROVE  /\ after(t) \in Local
             /\ after(t).pc = thread[t].pc /\ after(t).op = thread[t].op
             /\ after(t).rest = thread[t].rest /\ after(t).done = thread[t].done
             /\ after(t).success = thread[t].success
  <2>1. thread[t] \in Local
    BY LocalOf
  <2>2. thread[t].reachable \ {s} \in SUBSET Server
    BY <2>1 DEF Local
  <2> QED
    BY <2>1, <2>2 DEF Local
<1>4. Idle.reachable \ {s} = Idle.reachable
  BY DEF Idle, At
<1>5. \A t \in Threads : thread[t] = Idle => after(t) = Idle
  BY <1>4 DEF Idle, At
<1> HIDE DEF after
<1>6. \A t \in Threads : thread'[t] = after(t)
  BY <1>1
<1>7. Typed'
  <2>1. thread' \in [Threads -> Local]
    BY <1>1, <1>3
  <2>2. up' \subseteq Server /\ live' \in [Server -> SUBSET Server]
    BY <1>1 DEF ClientInv, Typed
  <2> QED
    BY <1>1, <1>2, <2>1, <2>2 DEF ClientInv, Typed, connection, user
<1>8. \A t \in Threads : Fits(thread[t], t, lock)' /\ Counted(thread[t], faults)'
  <2> SUFFICES ASSUME NEW t \in Threads
               PROVE  Fits(thread[t], t, lock)' /\ Counted(thread[t], faults)'
    OBVIOUS
  <2>1. Fits(thread[t], t, lock) /\ Counted(thread[t], faults)
    BY LocalOf
  <2>2. lock' = lock
    BY <1>1
  <2>3. Counted(after(t), faults')
    <3>1. Counted(after(t), faults)
      BY <1>3, <2>1 DEF Counted
    <3> QED
      BY <1>1, <1>3, <3>1, CountedGrows
  <2> QED
    BY <1>3, <1>6, <2>1, <2>2, <2>3 DEF Fits, Counted
<1>9. Alone'
  <2> SUFFICES ASSUME NEW t \in Threads, thread'[t].op = "init"
               PROVE  /\ thread'[t].pc \in { "try", "probe", "ask", "heard" }
                      /\ lock' = None /\ polling' = "off"
                      /\ \A u \in Threads \ {t} : thread'[u] = Idle
    BY DEF Alone, Idle, At
  <2>1. thread[t].op = "init"
    BY <1>3, <1>6
  <2>2. /\ thread[t].pc \in { "try", "probe", "ask", "heard" }
        /\ lock = None /\ polling = "off"
        /\ \A u \in Threads \ {t} : thread[u] = Idle
    BY <2>1 DEF ClientInv, Alone
  <2> QED
    BY <1>1, <1>3, <1>5, <1>6, <2>2 DEF user
<1> QED
  BY <1>7, <1>8, <1>9 DEF ClientInv

\* Steps of the environment, and the window that is closed.
LEMMA QuietKeeps ==
  ASSUME ClientInv, thread' = thread, lock' = lock, faults' = faults,
         up' \subseteq Server, live' \in [Server -> SUBSET Server],
         UNCHANGED << servers, current, stub, found, session, calls >>,
         polling' = polling \/ (polling = "on" /\ polling' = "stopped")
  PROVE  ClientInv'
<1>1. Typed'
  BY DEF ClientInv, Typed
<1>2. Alone'
  BY DEF ClientInv, Alone, Idle, At
<1>3. \A t \in Threads : Fits(thread[t], t, lock)' /\ Counted(thread[t], faults)'
  BY DEF ClientInv, Fits, Counted
<1> QED
  BY <1>1, <1>2, <1>3 DEF ClientInv

LEMMA StartLive ==
  ASSUME ClientInv, NEW s \in Server, Start(s)
  PROVE  up' \subseteq Server /\ live' \in [Server -> SUBSET Server]
<1> DEFINE known == IF s = Seed THEN {} ELSE {Seed} \cup (live[Seed] \ {s})
<1>1. /\ live' = [p \in Server |-> IF p = s THEN known
                                   ELSE IF p \in known THEN live[p] \cup {s}
                                   ELSE live[p]]
      /\ up' = up \cup {s}
  BY DEF Start
<1>2. known \subseteq Server
  BY ClientAssumption DEF ClientInv, Typed
<1> HIDE DEF known
<1> QED
  BY <1>1, <1>2 DEF ClientInv, Typed

LEMMA ClientNext == ClientInv /\ [Next]_vars => ClientInv'
<1> SUFFICES ASSUME ClientInv, [Next]_vars PROVE ClientInv'
  OBVIOUS
<1> USE DEF environment, connection, user
<1>1. Typed
  BY DEF ClientInv, Typed
<1>2. ASSUME NEW t \in Threads, \E q : Moves(t, q),
             up' = up, live' = live,
             servers' \in Seq(Server \cup {None}), servers' # <<>>,
             current' \in Server \cup {None}, stub' \in Server \cup {None},
             session' \in BOOLEAN, polling' \in { "off", "on", "stopped" },
             found' \in BOOLEAN, calls' \in 0 .. MaxCalls,
             faults' \in 0 .. MaxFaults, faults' = faults \/ Fault
      PROVE  ClientInv'
  BY <1>1, <1>2, MoveKeeps DEF ClientInv, Typed
<1>3. CASE UNCHANGED vars
  BY <1>1, <1>3, QuietKeeps DEF vars, Typed
<1>4. ASSUME NEW t \in Threads, Try(t) PROVE ClientInv'
  BY <1>1, <1>2, <1>4, TryMoves DEF Try, Typed
<1>5. ASSUME NEW t \in Threads, Connected(t) PROVE ClientInv'
  BY <1>1, <1>2, <1>5, ConnectedMoves DEF Connected, Typed
<1>6. ASSUME NEW t \in Threads, ConnectionFails(t) PROVE ClientInv'
  BY <1>1, <1>2, <1>6, ConnectionFailsMoves DEF ConnectionFails, Typed
<1>7. ASSUME NEW t \in Threads, NextRound(t) PROVE ClientInv'
  BY <1>1, <1>2, <1>7, NextRoundMoves DEF NextRound, Typed
<1>8. ASSUME NEW t \in Threads, Hear(t) PROVE ClientInv'
  BY <1>1, <1>2, <1>8, HearMoves DEF Hear, Typed
<1>9. ASSUME NEW t \in Threads, HearNothing(t) PROVE ClientInv'
  BY <1>1, <1>2, <1>9, HearNothingMoves DEF HearNothing, Typed
<1>10. ASSUME NEW t \in Threads, UpdateServers(t) PROVE ClientInv'
  BY <1>1, <1>2, <1>10, UpdateServersMoves DEF UpdateServers, Typed
<1>11. ASSUME NEW t \in Threads, Acquire(t) PROVE ClientInv'
  BY <1>1, <1>2, <1>11, AcquireMoves DEF Acquire, Typed
<1>12. ASSUME NEW t \in Threads, Answered(t) PROVE ClientInv'
  BY <1>1, <1>2, <1>12, AnsweredMoves DEF Answered, Typed
<1>13. ASSUME NEW t \in Threads,
              Refused(t) \/ Unsaved(t) \/ Unreachable(t) \/ Unanswered(t)
       PROVE  ClientInv'
  <2>1. UNCHANGED << up, live, servers, current, stub, found, session, polling, calls >>
    BY <1>13 DEF Refused, Unsaved, Unreachable, Unanswered
  <2> QED
    BY <1>1, <1>2, <1>13, <2>1, FailuresMove DEF Typed
<1>14. ASSUME NEW t \in Threads, Finish(t) PROVE ClientInv'
  BY <1>1, <1>2, <1>14, FinishMoves DEF Finish, Typed
<1>15. ASSUME NEW t \in Threads, (t \in Thread /\ Call(t)) \/ (t = Poller /\ Poll)
       PROVE  ClientInv'
  <2>1. UNCHANGED << up, live, servers, current, stub, found, session, polling >>
    BY <1>15 DEF Call, Poll
  <2> QED
    BY <1>1, <1>2, <1>15, <2>1, CallMoves DEF Typed
<1>16. ASSUME NEW s \in Server, Start(s) PROVE ClientInv'
  BY <1>16, StartLive, QuietKeeps DEF Start
<1>17. ASSUME NEW s \in Server, Forget(s) PROVE ClientInv'
  <2>1. live' \in [Server -> SUBSET Server]
    BY <1>1, <1>17 DEF Forget, Typed
  <2> QED
    BY <1>1, <1>17, <2>1, QuietKeeps DEF Forget, Typed
<1>18. ASSUME Disconnect PROVE ClientInv'
  BY <1>1, <1>18, QuietKeeps DEF Disconnect, Typed
<1>19. ASSUME NEW t \in Threads, Progress(t) PROVE ClientInv'
  BY <1>4, <1>5, <1>6, <1>7, <1>8, <1>9, <1>10, <1>12, <1>13, <1>14, <1>19
  DEF Progress
<1>20. \A t \in Thread : t \in Threads
  BY DEF Threads
<1>21. Poller \in Threads
  BY DEF Threads
<1> QED
  BY <1>3, <1>6, <1>9, <1>11, <1>13, <1>15, <1>16, <1>17, <1>18, <1>19, <1>20,
     <1>21, CrashKeeps DEF Next

LEMMA ClientHolds == Spec => []ClientInv
<1> QED
  BY ClientInit, ClientNext, PTL DEF Spec

\* Every variable of the network layer keeps its type, the loops stay within their
\* bounds, and the lock is held exactly from "with self.lock" to the return of
\* request_with_failover, through every connection in between, by one thread.
THEOREM TypeCorrect == Spec => []TypeOK
<1>1. ClientInv => TypeOK
  <2> SUFFICES ASSUME ClientInv PROVE TypeOK
    OBVIOUS
  <2>1. ASSUME NEW t \in Threads
        PROVE  /\ thread[t].pc \in PC
               /\ thread[t].op \in Operations \cup { "init", None }
               /\ thread[t].attempts < MaxRetries /\ thread[t].round < MaxRetries
               /\ thread[t].pc = "attempt" => lock = t
               /\ thread[t].pc \in { "try", "probe" } => lock = t \/ ~ Constructed
               /\ lock = t => thread[t].pc \in { "try", "probe", "ask", "heard", "attempt" }
    <3>1. thread[t] \in Local /\ Fits(thread[t], t, lock)
      BY LocalOf
    <3>2. thread[t].attempts < MaxRetries /\ thread[t].round < MaxRetries
      BY <3>1, ClientAssumption DEF Local
    <3> QED
      BY <3>1, <3>2 DEF Local, Fits, Constructed
  <2> QED
    BY <2>1 DEF ClientInv, Typed, TypeOK, PC
<1> QED
  BY <1>1, ClientHolds, PTL

\* What an operation tells its caller: one that is not a deletion says "done" only
\* of what a server has carried out; one that says anything else was carried out at
\* most once for each lost answer or failed save, so never while nothing fails
\* (request_with_failover, network.py:125-154, and the ends of the operations).
THEOREM ReportsTruthHolds == Spec => []ReportsTruth
<1>1. ClientInv => ReportsTruth
  <2> SUFFICES ASSUME ClientInv, NEW t \in Threads,
                      thread[t].pc \in { "returned", "gaveUp" },
                      thread[t].op \notin { "deleteMessages", "deleteAccount" }
               PROVE  IF Report(thread[t]) = "done" THEN thread[t].done \in 1 .. faults + 1
                                                    ELSE thread[t].done <= faults
    BY DEF ReportsTruth
  <2>1. Counted(thread[t], faults)
    BY LocalOf
  <2>2. Report(thread[t]) = "done" <=> thread[t].pc = "returned" /\ thread[t].success
    <3>1. CASE thread[t].pc = "returned"
      <4>1. Report(thread[t]) = IF thread[t].success THEN "done" ELSE "refused"
        BY <3>1 DEF Report
      <4>2. CASE thread[t].success
        BY <3>1, <4>1, <4>2
      <4>3. CASE ~ thread[t].success
        BY <4>1, <4>3
      <4> QED
        BY <4>2, <4>3
    <3>2. CASE thread[t].pc = "gaveUp"
      BY <3>2 DEF Report
    <3> QED
      BY <3>1, <3>2
  <2> QED
    BY <2>1, <2>2 DEF Counted
<1> QED
  BY <1>1, ClientHolds, PTL

-----------------------------------------------------------------------------
\* The current server while nothing fails

\* The stub talks to the current server, which runs.
Linked == stub = current /\ current \in up

\* The constructor has returned without a server.
Unlinked == Constructed /\ ~ found

\* What a thread is about to do to the connection.  The constructor still has a
\* server to find; a later connection finds the current one at once.
Connects(own) ==
  /\ own.pc = "heard" => IsInjective(own.heard) /\ current \notin Range(own.heard)
  /\ own.op = "init" =>
       /\ own.pc \in { "try", "probe" } => ~ found
       /\ own.pc = "probe" => stub = Head(own.rest)
       /\ own.pc \in { "ask", "heard" } => Linked
  /\ own.op # "init" /\ own.pc \in { "try", "probe" } =>
       own.rest # <<>> /\ Head(own.rest) = current

\* No server knows itself, and the list is that of the current server, unless there
\* is none.
NoneKnowsItself == \A s \in Server : s \notin live[s]

Listed ==
  /\ Constructed => Linked /\ Head(servers) = current /\ IsInjective(servers)
  /\ \A t \in Threads : Connects(thread[t])

ListInv == ClientInv /\ NoneKnowsItself /\ (faults = 0 => Unlinked \/ Listed)

\* Putting a server that is not in a list at its head.
LEMMA HeadedIsInjective ==
  ASSUME NEW S, NEW x \in S, NEW s \in Seq(S), IsInjective(s), x \notin Range(s)
  PROVE  IsInjective(<< x >> \o s) /\ Head(<< x >> \o s) = x
<1>1. << x >> \in Seq(S) /\ Len(<< x >>) = 1 /\ << x >>[1] = x
  OBVIOUS
<1>2. /\ << x >> \o s \in Seq(S)
      /\ Len(<< x >> \o s) = 1 + Len(s)
      /\ \A i \in 1 .. 1 + Len(s) :
           (<< x >> \o s)[i] = IF i <= 1 THEN << x >>[i] ELSE s[i - 1]
  BY <1>1, ConcatProperties
<1>3. /\ Len(s) \in Nat /\ DOMAIN s = 1 .. Len(s)
      /\ DOMAIN (<< x >> \o s) = 1 .. 1 + Len(s)
  BY <1>2, LenProperties
<1>4. (<< x >> \o s)[1] = x
  BY <1>1, <1>2, <1>3
<1>5. \A i \in 2 .. 1 + Len(s) :
        (<< x >> \o s)[i] = s[i - 1] /\ i - 1 \in DOMAIN s
  BY <1>2, <1>3
<1>6. Head(<< x >> \o s) = x
  BY <1>2, <1>3, <1>4, HeadTailProperties, EmptySeq
<1>7. IsInjective(<< x >> \o s)
  <2> SUFFICES ASSUME NEW i \in 1 .. 1 + Len(s), NEW j \in 1 .. 1 + Len(s),
                      (<< x >> \o s)[i] = (<< x >> \o s)[j]
               PROVE  i = j
    BY <1>3 DEF IsInjective
  <2>1. CASE i = 1 \/ j = 1
    <3>1. \A k \in 2 .. 1 + Len(s) : (<< x >> \o s)[k] # x
      BY <1>5 DEF Range
    <3>2. \A k \in 1 .. 1 + Len(s) : k = 1 \/ k \in 2 .. 1 + Len(s)
      BY <1>3
    <3> QED
      BY <1>4, <2>1, <3>1, <3>2
  <2>2. CASE i # 1 /\ j # 1
    <3>1. i \in 2 .. 1 + Len(s) /\ j \in 2 .. 1 + Len(s)
      BY <1>3, <2>2
    <3>2. i - 1 = j - 1
      BY <1>5, <3>1 DEF IsInjective
    <3> QED
      BY <3>1, <3>2
  <2> QED
    BY <2>1, <2>2
<1> QED
  BY <1>6, <1>7

LEMMA ListInit == Init => ListInv
<1> SUFFICES ASSUME Init PROVE NoneKnowsItself /\ Listed
  BY ClientInit DEF ListInv
<1> DEFINE main == CHOOSE t \in Thread : TRUE
           q == [At("try", "init") EXCEPT !.rest = Configured]
<1>1. main \in Threads
  BY ClientAssumption DEF Threads
<1>2. At("try", "init") \in Local /\ At("try", "init").op = "init"
      /\ At("try", "init").pc = "try"
  BY AtIsLocal DEF PC
<1>3. q.pc = "try" /\ q.op = "init"
  BY <1>2 DEF Local
<1> HIDE DEF q
<1>4. thread[main] = q /\ \A t \in Threads \ {main} : thread[t] = Idle
  BY <1>1 DEF Init, q
<1>5. ~ Constructed
  BY <1>1, <1>3, <1>4 DEF Constructed
<1>6. \A t \in Threads : Connects(thread[t])
  BY <1>3, <1>4, IdleIsLocal, NoneIsNothing DEF Connects, Init
<1>7. NoneKnowsItself
  BY DEF NoneKnowsItself, Init
<1> QED
  BY <1>5, <1>6, <1>7 DEF Listed

\* One thread moves, and the connection stays.
LEMMA ListMoves ==
  ASSUME ClientInv, Listed, NEW t \in Threads, NEW q,
         thread' = [thread EXCEPT ![t] = q],
         UNCHANGED << up, servers, current, stub, found >>,
         Connects(q), Constructed \/ q.op = "init"
  PROVE  Listed'
<1>1. thread'[t] = q /\ \A u \in Threads \ {t} : thread'[u] = thread[u]
  BY DEF ClientInv, Typed
<1>2. Constructed' => Constructed
  BY <1>1 DEF Constructed
<1>3. \A own : Connects(own)' <=> Connects(own)
  BY DEF Connects, Linked
<1>4. \A u \in Threads : Connects(thread'[u])
  BY <1>1 DEF Listed
<1>5. \A u \in Threads : Connects(thread[u])'
  BY <1>4 DEF Connects, Linked
<1> QED
  BY <1>2, <1>5 DEF Listed, Linked

\* ... which it does for a thread that is not about to connect.
LEMMA ListUnconcerned ==
  ASSUME ClientInv, Listed, NEW t \in Threads, NEW q,
         thread' = [thread EXCEPT ![t] = q],
         UNCHANGED << up, servers, current, stub, found >>,
         q.pc \in { "idle", "ask", "lock", "attempt", "returned", "gaveUp" },
         q.op # "init", Constructed
  PROVE  Listed'
<1>1. Connects(q)
  BY DEF Connects
<1> QED
  BY <1>1, ListMoves

\* The current server is known to whoever is past the connection.
LEMMA LinkedNow ==
  ASSUME ClientInv, Listed, NEW t \in Threads
  PROVE  /\ thread[t].pc \in { "ask", "heard" } => Linked
         /\ thread[t].op # "init" /\ thread[t].pc # "idle" => Constructed
         /\ Connects(thread[t])
BY LocalOf DEF Listed, Connects

LEMMA ListTry ==
  ASSUME ClientInv, Listed, NEW t \in Threads, Try(t)
  PROVE  Listed'
<1>1. /\ thread[t] \in Local /\ thread[t].pc = "try" /\ thread[t].rest # <<>>
      /\ Connects(thread[t])
  BY LocalOf, LinkedNow DEF Try
<1>2. Constructed \/ thread[t].op = "init"
  BY LocalOf DEF Try
<1> DEFINE later == [thread[t] EXCEPT !.rest = Tail(@)]
           next == [thread[t] EXCEPT !.pc = "probe"]
<1>3. /\ later.pc = "try" /\ later.op = thread[t].op /\ later.rest = Tail(thread[t].rest)
      /\ next.pc = "probe" /\ next.op = thread[t].op /\ next.rest = thread[t].rest
  BY <1>1 DEF Local
<1>4. UNCHANGED << up, servers, current, found >>
  BY DEF Try, environment
<1>5. CASE Head(thread[t].rest) = None
  <2>1. thread[t].op = "init"
    <3>1. Constructed => Head(thread[t].rest) # None \/ thread[t].op = "init"
      BY <1>1, NoneIsNothing DEF Listed, Linked, Connects, ClientInv, Typed
    <3> QED
      BY <1>2, <1>5, <3>1
  <2>2. Connects(later)
    BY <1>1, <1>3, <2>1 DEF Connects
  <2>3. thread' = [thread EXCEPT ![t] = later] /\ stub' = stub
    BY <1>5 DEF Try
  <2> HIDE DEF later
  <2> QED
    BY <1>3, <1>4, <2>1, <2>2, <2>3, ListMoves
<1>6. CASE Head(thread[t].rest) # None
  <2>1. thread' = [thread EXCEPT ![t] = next] /\ stub' = Head(thread[t].rest)
    BY <1>6 DEF Try, Goto
  <2>2. CASE thread[t].op # "init"
    <3>1. Head(thread[t].rest) = current /\ Constructed
      BY <1>1, <1>2, <2>2 DEF Connects
    <3>2. stub' = stub
      BY <2>1, <3>1 DEF Listed, Linked
    <3>3. Connects(next)
      BY <1>1, <1>3, <2>2 DEF Connects
    <3> HIDE DEF next
    <3> QED
      BY <1>3, <1>4, <2>1, <3>1, <3>2, <3>3, ListMoves
  <2>3. CASE thread[t].op = "init"
    <3> HIDE DEF next
    <3>1. /\ thread'[t] = next /\ \A u \in Threads \ {t} : thread'[u] = Idle
      BY <2>1, <2>3 DEF ClientInv, Typed, Alone
    <3>2. ~ Constructed'
      BY <1>3, <2>3, <3>1 DEF Constructed
    <3>3. ~ found' /\ stub' = Head(next.rest)
      BY <1>1, <1>3, <1>4, <2>1, <2>3 DEF Connects
    <3>4. \A u \in Threads : Connects(thread[u])'
      BY <1>3, <2>3, <3>1, <3>3, IdleIsLocal, NoneIsNothing DEF Connects
    <3> QED
      BY <1>4, <3>2, <3>4 DEF Listed
  <2> QED
    BY <2>2, <2>3
<1> QED
  BY <1>5, <1>6

LEMMA ListConnected ==
  ASSUME ClientInv, Listed, NEW t \in Threads, Connected(t)
  PROVE  Listed'
<1>1. /\ thread[t] \in Local /\ thread[t].pc = "probe" /\ stub \in up
      /\ Connects(thread[t])
  BY LocalOf, LinkedNow DEF Connected
<1>2. Constructed \/ thread[t].op = "init"
  BY LocalOf DEF Connected
<1> DEFINE q == [thread[t] EXCEPT !.pc = "ask"]
<1>3. q.pc = "ask" /\ q.op = thread[t].op
  BY <1>1 DEF Local
<1>4. /\ thread' = [thread EXCEPT ![t] = q] /\ current' = Head(thread[t].rest)
      /\ UNCHANGED << up, servers, stub >>
      /\ found' = (found \/ ~ Constructed)
  BY DEF Connected, Goto, environment
<1> HIDE DEF q
<1>5. CASE thread[t].op # "init"
  <2>1. current' = current /\ found' = found /\ Constructed
    BY <1>1, <1>2, <1>4, <1>5 DEF Connects, ClientInv, Typed
  <2> QED
    BY <1>3, <1>4, <1>5, <2>1, ListUnconcerned
<1>6. CASE thread[t].op = "init"
  <2>1. /\ thread'[t] = q /\ \A u \in Threads \ {t} : thread'[u] = Idle
    BY <1>4, <1>6 DEF ClientInv, Typed, Alone
  <2>2. ~ Constructed' /\ Linked'
    BY <1>1, <1>3, <1>4, <1>6, <2>1 DEF Constructed, Connects, Linked
  <2>3. \A u \in Threads : Connects(thread[u])'
    BY <1>3, <1>6, <2>1, <2>2, IdleIsLocal, NoneIsNothing DEF Connects
  <2> QED
    BY <1>4, <2>2, <2>3 DEF Listed
<1> QED
  BY <1>5, <1>6

\* Without a fault the constructor goes on to a server that runs, and nobody else
\* fails to connect.
LEMMA ListFails ==
  ASSUME ClientInv, Listed, NEW t \in Threads, ConnectionFails(t), faults' = 0
  PROVE  Listed'
<1>1. stub \notin up
  BY FaultCounts DEF ConnectionFails
<1>2. /\ thread[t] \in Local /\ thread[t].pc = "probe" /\ thread[t].rest # <<>>
      /\ Connects(thread[t])
  BY LocalOf, LinkedNow DEF ConnectionFails, Fits
<1>3. thread[t].op = "init"
  BY <1>1, <1>2, LocalOf DEF Listed, Linked
<1> DEFINE q == [thread[t] EXCEPT !.pc = "try", !.rest = Tail(@)]
<1>4. q.pc = "try" /\ q.op = "init"
  BY <1>2, <1>3 DEF Local
<1>5. Connects(q)
  BY <1>2, <1>3, <1>4 DEF Connects
<1>6. /\ thread' = [thread EXCEPT ![t] = q]
      /\ UNCHANGED << up, servers, current, stub, found >>
  <2>1. thread' = [thread EXCEPT ![t].pc = "try", ![t].rest = Tail(@)]
    BY DEF ConnectionFails
  <2>2. thread \in [Threads -> Local]
    BY DEF ClientInv, Typed
  <2> QED
    BY <1>2, <2>1, <2>2 DEF ConnectionFails, connection
<1> HIDE DEF q
<1> QED
  BY <1>4, <1>5, <1>6, ListMoves

\* The constructor goes through the list again, or gives up and has found none.
LEMMA ListRound ==
  ASSUME ClientInv, Listed, NEW t \in Threads, NextRound(t)
  PROVE  Unlinked' \/ Listed'
<1>1. /\ thread[t] \in Local /\ thread[t].pc = "try" /\ thread[t].rest = <<>>
      /\ Connects(thread[t])
  BY LocalOf, LinkedNow DEF NextRound
<1>2. /\ thread[t].op = "init" /\ ~ found /\ lock = None /\ t # None
      /\ \A u \in Threads \ {t} : thread[u] = Idle
  <2>1. thread[t].op = "init"
    BY <1>1 DEF Connects
  <2> QED
    BY <1>1, <2>1, LocalOf DEF Connects, ClientInv, Alone
<1>3. UNCHANGED << up, servers, current, stub, found >>
  BY DEF NextRound, environment, connection
<1>4. CASE thread[t].round + 1 < MaxRetries
  <2> DEFINE q == [thread[t] EXCEPT !.round = @ + 1, !.rest = servers]
  <2>1. q.pc = "try" /\ q.op = "init"
    BY <1>1, <1>2 DEF Local
  <2>2. thread' = [thread EXCEPT ![t] = q]
    BY <1>4 DEF NextRound
  <2> HIDE DEF q
  <2>3. Connects(q)
    BY <1>2, <2>1 DEF Connects
  <2> QED
    BY <1>3, <2>1, <2>2, <2>3, ListMoves
<1>5. CASE ~ (thread[t].round + 1 < MaxRetries)
  <2>1. Resume(t) = Idle
    BY <1>2 DEF Resume
  <2>2. thread' = [thread EXCEPT ![t] = Idle]
    BY <1>5, <2>1 DEF NextRound
  <2>3. \A u \in Threads : thread'[u] = Idle
    BY <1>2, <2>2 DEF ClientInv, Typed
  <2> QED
    BY <1>2, <1>3, <2>3, IdleIsLocal, NoneIsNothing DEF Unlinked, Constructed
<1> QED
  BY <1>4, <1>5

LEMMA ListHear ==
  ASSUME ClientInv, NoneKnowsItself, Listed, NEW t \in Threads, Hear(t)
  PROVE  Listed'
<1>1. thread[t] \in Local /\ thread[t].pc = "ask" /\ Linked
  BY LocalOf, LinkedNow DEF Hear
<1>2. PICK replicas \in SetToSeqs(live[stub]) :
        thread' = [thread EXCEPT ![t].pc = "heard", ![t].heard = replicas]
  BY DEF Hear
<1>3. /\ live[stub] \in SUBSET Server /\ stub \notin live[stub]
  BY <1>1 DEF NoneKnowsItself, Linked, ClientInv, Typed
<1>4. IsInjective(replicas) /\ current \notin Range(replicas)
  BY <1>1, <1>3, OrderingType DEF Linked
<1> DEFINE q == [thread[t] EXCEPT !.pc = "heard", !.heard = replicas]
<1>5. q.pc = "heard" /\ q.op = thread[t].op /\ q.heard = replicas
  BY <1>1 DEF Local
<1>6. /\ thread' = [thread EXCEPT ![t] = q]
      /\ UNCHANGED << up, servers, current, stub, found >>
  <2>1. thread \in [Threads -> Local]
    BY DEF ClientInv, Typed
  <2> QED
    BY <1>1, <1>2, <2>1 DEF Hear, environment, connection
<1>7. Connects(q)
  BY <1>1, <1>4, <1>5 DEF Connects
<1>8. Constructed \/ q.op = "init"
  BY <1>1, <1>5, LocalOf
<1> HIDE DEF q
<1> QED
  BY <1>6, <1>7, <1>8, ListMoves

LEMMA ListUpdate ==
  ASSUME ClientInv, Listed, NEW t \in Threads, UpdateServers(t)
  PROVE  Listed'
<1>1. /\ thread[t] \in Local /\ thread[t].pc = "heard" /\ Linked
      /\ Connects(thread[t])
  BY LocalOf, LinkedNow DEF UpdateServers
<1>2. /\ servers' = << current >> \o thread[t].heard
      /\ thread' = [thread EXCEPT ![t] = Resume(t)]
      /\ UNCHANGED << up, current, stub, found >>
  BY DEF UpdateServers, NewServers, environment
<1>3. Head(servers') = current /\ IsInjective(servers')
  <2>1. current \in Server /\ thread[t].heard \in Seq(Server)
    BY <1>1 DEF Local, Linked, ClientInv, Typed
  <2> QED
    BY <1>1, <1>2, <2>1, HeadedIsInjective DEF Connects
<1>4. Resume(t).pc \in { "idle", "attempt" } /\ Resume(t).op # "init"
  <2>1. CASE lock = t
    BY <1>1, <2>1, LocalOf, OperationIsNotInit DEF Resume, Local, Fits
  <2>2. CASE lock # t
    BY <2>2, IdleIsLocal, NoneIsNothing DEF Resume
  <2> QED
    BY <2>1, <2>2
<1>5. thread'[t] = Resume(t) /\ \A u \in Threads \ {t} : thread'[u] = thread[u]
  BY <1>2 DEF ClientInv, Typed
<1>6. Linked'
  BY <1>1, <1>2 DEF Linked
<1>7. \A u \in Threads : Connects(thread[u])'
  BY <1>2, <1>4, <1>5, <1>6 DEF Connects, Listed
<1> QED
  BY <1>2, <1>3, <1>6, <1>7 DEF Listed

LEMMA ListFailsAttempt ==
  ASSUME ClientInv, Listed, NEW t \in Threads, thread[t].pc = "attempt",
         NEW request \in Local, request.op = thread[t].op, Fails(t, request),
         UNCHANGED << up, servers, current, stub, found >>
  PROVE  Listed'
<1>1. thread[t].op \in Operations /\ thread[t].op # "init" /\ Constructed
  BY LocalOf, OperationIsNotInit DEF Fits
<1>2. CASE request.attempts + 1 < MaxRetries
  <2> DEFINE q == [request EXCEPT !.pc = "try", !.attempts = @ + 1,
                                  !.round = 0, !.rest = servers]
  <2>1. q.pc = "try" /\ q.op = thread[t].op /\ q.rest = servers
    BY DEF Local
  <2>2. thread' = [thread EXCEPT ![t] = q]
    BY <1>2 DEF Fails
  <2> HIDE DEF q
  <2>3. Connects(q)
    BY <1>1, <2>1 DEF Connects, Listed, ClientInv, Typed
  <2> QED
    BY <1>1, <2>2, <2>3, ListMoves
<1>3. CASE ~ (request.attempts + 1 < MaxRetries)
  <2> DEFINE q == [request EXCEPT !.pc = "gaveUp"]
  <2>1. q.pc = "gaveUp" /\ q.op = thread[t].op
    BY DEF Local
  <2>2. thread' = [thread EXCEPT ![t] = q]
    BY <1>3 DEF Fails, Release
  <2> HIDE DEF q
  <2> QED
    BY <1>1, <2>1, <2>2, ListUnconcerned
<1> QED
  BY <1>2, <1>3

LEMMA ListRequests ==
  ASSUME ClientInv, Listed, NEW t \in Threads,
         \/ Acquire(t) \/ Answered(t) \/ Refused(t) \/ Unreachable(t)
         \/ Finish(t) \/ (t \in Thread /\ Call(t)) \/ (t = Poller /\ Poll)
  PROVE  Listed'
<1>1. thread[t] \in Local
  BY LocalOf
<1>2. UNCHANGED << up, servers, current, stub, found >>
  BY DEF Acquire, Answered, Refused, Unreachable, Finish, Call, Poll, environment,
         connection
<1>3. CASE Acquire(t)
  <2> DEFINE q == [thread[t] EXCEPT !.pc = "attempt"]
  <2>1. /\ thread[t].pc = "lock" /\ thread[t].op # "init" /\ Constructed
    BY <1>3, LocalOf, OperationIsNotInit DEF Acquire, Fits
  <2>2. q.pc = "attempt" /\ q.op = thread[t].op
    BY <1>1 DEF Local
  <2>3. thread' = [thread EXCEPT ![t] = q]
    BY <1>3 DEF Acquire, Goto
  <2> HIDE DEF q
  <2> QED
    BY <1>2, <2>1, <2>2, <2>3, ListUnconcerned
<1>4. CASE Answered(t)
  <2>1. thread[t].op # "init" /\ Constructed
    BY <1>4, LocalOf, OperationIsNotInit DEF Answered, Fits
  <2>2. ASSUME NEW request, request.op = thread[t].op, request \in Local,
               Release(t, request, "returned")
        PROVE  Listed'
    <3> DEFINE q == [request EXCEPT !.pc = "returned"]
    <3>1. q.pc = "returned" /\ q.op = thread[t].op
      BY <2>2 DEF Local
    <3>2. thread' = [thread EXCEPT ![t] = q]
      BY <2>2 DEF Release
    <3> HIDE DEF q
    <3> QED
      BY <1>2, <2>1, <3>1, <3>2, ListUnconcerned
  <2> DEFINE yes == [thread[t] EXCEPT !.success = TRUE, !.done = @ + 1]
  <2>3. yes.op = thread[t].op /\ yes \in Local
    <3>1. thread[t].done + 1 \in Nat
      BY <1>1 DEF Local
    <3> QED
      BY <1>1, <3>1 DEF Local
  <2>4. Release(t, yes, "returned") \/ Release(t, thread[t], "returned")
    BY <1>4 DEF Answered
  <2> HIDE DEF yes
  <2> QED
    BY <1>1, <2>2, <2>3, <2>4
<1>5. CASE Refused(t)
  <2> DEFINE request == [thread[t] EXCEPT !.refused = TRUE]
  <2>1. request \in Local /\ request.op = thread[t].op
    BY <1>1 DEF Local
  <2>2. thread[t].pc = "attempt" /\ Fails(t, request)
    BY <1>5 DEF Refused
  <2> QED
    BY <1>2, <2>1, <2>2, ListFailsAttempt
<1>6. CASE Unreachable(t)
  <2>1. thread[t].pc = "attempt" /\ Fails(t, thread[t])
    BY <1>6 DEF Unreachable
  <2> QED
    BY <1>1, <1>2, <2>1, ListFailsAttempt
<1>7. ASSUME NEW q, thread' = [thread EXCEPT ![t] = q], Constructed, q.op # "init",
             q.pc \in { "idle", "ask", "lock" }
      PROVE  Listed'
  BY <1>2, <1>7, ListUnconcerned
<1>8. At("ask", None).pc = "ask" /\ At("ask", None).op = None
  BY AtIsLocal DEF PC
<1>9. CASE Finish(t)
  <2>1. Constructed
    BY <1>9, LocalOf DEF Finish
  <2>2. \/ thread' = [thread EXCEPT ![t] = Idle]
        \/ thread' = [thread EXCEPT ![t] = At("ask", None)]
    BY <1>9 DEF Finish
  <2> QED
    BY <1>7, <1>8, <2>1, <2>2, IdleIsLocal, NoneIsNothing
<1>10. CASE (t \in Thread /\ Call(t)) \/ (t = Poller /\ Poll)
  <2>1. Constructed
    <3>1. CASE Poll
      BY <3>1, NoneIsNothing DEF Poll, ClientInv, Alone, Constructed
    <3> QED
      BY <1>10, <3>1 DEF Call
  <2>2. \/ \E op \in Operations : thread' = [thread EXCEPT ![t] = Request(op)]
        \/ thread' = [thread EXCEPT ![t] = At("ask", None)]
    BY <1>10, OperationIsNotInit DEF Call, Poll, Operations
  <2>3. \A op \in Operations : Request(op).pc = "lock" /\ Request(op).op = op
    BY RequestIsLocal DEF ClientInv
  <2> QED
    BY <1>7, <1>8, <2>1, <2>2, <2>3, NoneIsNothing, OperationIsNotInit
<1> QED
  BY <1>3, <1>4, <1>5, <1>6, <1>9, <1>10

\* Servers start, and forget each other.
LEMMA ListServers ==
  ASSUME ClientInv, Listed, NEW s \in Server, Start(s) \/ Forget(s)
  PROVE  Listed'
<1>1. up \subseteq up' /\ UNCHANGED << servers, current, stub, found, thread >>
  BY DEF Start, Forget, connection
<1>2. \A t \in Threads : Connects(thread[t])'
  BY <1>1 DEF Listed, Connects, Linked
<1> QED
  BY <1>1, <1>2 DEF Listed, Linked, Constructed

\* A server names the others.
LEMMA NoneKnowsItselfNext ==
  ASSUME ClientInv, NoneKnowsItself, [Next]_vars
  PROVE  NoneKnowsItself'
<1>1. CASE UNCHANGED live
  BY <1>1 DEF NoneKnowsItself
<1>2. ASSUME NEW s \in Server, Crash(s) \/ Forget(s) PROVE NoneKnowsItself'
  BY <1>2 DEF Crash, Forget, NoneKnowsItself, ClientInv, Typed
<1>3. ASSUME NEW s \in Server, Start(s) PROVE NoneKnowsItself'
  <2> DEFINE known == IF s = Seed THEN {} ELSE {Seed} \cup (live[Seed] \ {s})
  <2>1. live' = [p \in Server |-> IF p = s THEN known
                                  ELSE IF p \in known THEN live[p] \cup {s}
                                  ELSE live[p]]
    BY <1>3 DEF Start
  <2>2. s \notin known
    OBVIOUS
  <2> HIDE DEF known
  <2> QED
    BY <2>1, <2>2 DEF NoneKnowsItself
<1>4. ASSUME NEW t \in Threads,
             \/ Progress(t) \/ Acquire(t) \/ ConnectionFails(t) \/ HearNothing(t)
             \/ Unanswered(t) \/ Unsaved(t) \/ Call(t)
      PROVE  UNCHANGED live
  BY <1>4 DEF Progress, Acquire, ConnectionFails, HearNothing, Unanswered, Unsaved,
              Call, Try, Connected, NextRound, Hear, UpdateServers, Answered, Refused,
              Unreachable, Finish, environment
<1>5. Poll \/ Disconnect \/ UNCHANGED vars => UNCHANGED live
  BY DEF Poll, Disconnect, vars, environment
<1>6. \A t \in Thread : t \in Threads
  BY DEF Threads
<1> QED
  BY <1>1, <1>2, <1>3, <1>4, <1>5, <1>6 DEF Next

\* A constructor that has found no server has found none ever after.
LEMMA UnlinkedStays ==
  ASSUME ClientInv, Unlinked, [Next]_vars
  PROVE  Unlinked'
<1>1. ASSUME NEW t \in Threads, NEW q, Moves(t, q), UNCHANGED found
      PROVE  Unlinked'
  <2>1. q.op # "init"
    BY <1>1 DEF Moves, Unlinked, Constructed
  <2>2. thread'[t] = q /\ \A u \in Threads \ {t} : thread'[u] = thread[u]
    BY <1>1 DEF Moves, ClientInv, Typed
  <2> QED
    BY <1>1, <2>1, <2>2 DEF Unlinked, Constructed
<1>2. ASSUME UNCHANGED << found, thread >> PROVE Unlinked'
  BY <1>2 DEF Unlinked, Constructed
<1>3. ASSUME NEW t \in Threads,
             \/ Try(t) \/ Connected(t) \/ ConnectionFails(t) \/ NextRound(t)
             \/ Hear(t) \/ HearNothing(t) \/ UpdateServers(t)
      PROVE  Unlinked'
  <2>1. UNCHANGED found
    BY <1>3 DEF Try, Connected, ConnectionFails, NextRound, Hear, HearNothing,
                UpdateServers, connection, Unlinked, ClientInv, Typed
  <2> QED
    BY <1>1, <1>3, <2>1, TryMoves, ConnectedMoves, ConnectionFailsMoves,
       NextRoundMoves, HearMoves, HearNothingMoves, UpdateServersMoves
<1>4. ASSUME NEW t \in Threads,
             \/ Acquire(t) \/ Answered(t) \/ Refused(t) \/ Unsaved(t)
             \/ Unreachable(t) \/ Unanswered(t) \/ Finish(t)
             \/ t \in Thread /\ Call(t)
             \/ t = Poller /\ Poll
      PROVE  Unlinked'
  <2>1. UNCHANGED found
    BY <1>4 DEF Acquire, Answered, Refused, Unsaved, Unreachable, Unanswered, Finish,
                Call, Poll, connection
  <2> QED
    BY <1>1, <1>4, <2>1, AcquireMoves, AnsweredMoves, FailuresMove, FinishMoves,
       CallMoves
<1>5. ASSUME NEW s \in Server, Crash(s) PROVE Unlinked'
  <2> DEFINE after(t) == [thread[t] EXCEPT !.reachable = @ \ {s}]
  <2>1. thread' = [t \in Threads |-> after(t)] /\ UNCHANGED found
    BY <1>5 DEF Crash, connection
  <2>2. \A t \in Threads : after(t).op = thread[t].op
    BY LocalOf DEF Local
  <2> HIDE DEF after
  <2> QED
    BY <2>1, <2>2 DEF Unlinked, Constructed
<1>6. (\E s \in Server : Start(s) \/ Forget(s)) \/ Disconnect \/ UNCHANGED vars =>
        UNCHANGED << found, thread >>
  BY DEF Start, Forget, Disconnect, vars, connection
<1>7. (\A t \in Thread : t \in Threads) /\ Poller \in Threads
  BY DEF Threads
<1> QED
  BY <1>2, <1>3, <1>4, <1>5, <1>6, <1>7 DEF Next, Progress

LEMMA ListNext == ListInv /\ [Next]_vars => ListInv'
<1>1. ClientInv /\ [Next]_vars => ClientInv'
  BY ClientNext
<1> SUFFICES ASSUME ClientInv, NoneKnowsItself, [Next]_vars, faults' = 0,
                    faults = 0 => Unlinked \/ Listed, ~ Unlinked'
             PROVE  Listed'
  BY <1>1, NoneKnowsItselfNext DEF ListInv
<1>2. ASSUME faults' = faults PROVE Listed
  BY <1>2, UnlinkedStays
<1>3. ~ Fault
  BY FaultCounts
<1>4. CASE UNCHANGED vars
  <2>1. Listed /\ UNCHANGED << up, servers, current, stub, found, thread >>
    BY <1>2, <1>4 DEF vars
  <2> QED
    BY <2>1 DEF Listed, Linked, Constructed, Connects
<1>5. ASSUME NEW t \in Threads,
             \/ Try(t) \/ Connected(t) \/ NextRound(t) \/ Hear(t) \/ UpdateServers(t)
      PROVE  Listed'
  <2>1. Listed
    BY <1>2, <1>5 DEF Try, Connected, NextRound, Hear, UpdateServers, environment
  <2> QED
    BY <1>5, <2>1, ListTry, ListConnected, ListRound, ListHear, ListUpdate
<1>6. ASSUME NEW t \in Threads,
             \/ Acquire(t) \/ Answered(t) \/ Refused(t) \/ Unreachable(t)
             \/ Finish(t) \/ (t \in Thread /\ Call(t)) \/ (t = Poller /\ Poll)
      PROVE  Listed'
  <2>1. Listed
    BY <1>2, <1>6 DEF Acquire, Answered, Refused, Unreachable, Finish, Call, Poll,
                      environment
  <2> QED
    BY <1>6, <2>1, ListRequests
<1>7. ASSUME NEW t \in Threads, ConnectionFails(t) PROVE Listed'
  <2>1. Listed
    BY <1>2, <1>3, <1>7 DEF ConnectionFails
  <2> QED
    BY <1>7, <2>1, ListFails
<1>8. ASSUME NEW t \in Threads, HearNothing(t) PROVE Listed'
  <2>1. thread[t].pc = "ask" /\ stub \notin up /\ Listed
    BY <1>2, <1>3, <1>8 DEF HearNothing
  <2> QED
    BY <2>1, LinkedNow DEF Linked
<1>9. ASSUME NEW s \in Server, Start(s) \/ Forget(s) PROVE Listed'
  <2>1. Listed
    BY <1>2, <1>9 DEF Start, Forget
  <2> QED
    BY <1>9, <2>1, ListServers
<1>10. ASSUME Disconnect PROVE Listed'
  <2>1. Listed /\ UNCHANGED << up, servers, current, stub, found, thread >>
    BY <1>2, <1>10 DEF Disconnect, environment, connection
  <2> QED
    BY <2>1 DEF Listed, Linked, Constructed, Connects
<1>11. ASSUME NEW t \in Threads, Unanswered(t) \/ Unsaved(t) PROVE FALSE
  BY <1>3, <1>11 DEF Unanswered, Unsaved
<1>12. ASSUME NEW s \in Server, Crash(s) PROVE FALSE
  BY <1>3, <1>12 DEF Crash
<1>13. (\A t \in Thread : t \in Threads) /\ Poller \in Threads
  BY DEF Threads
<1>14. ASSUME NEW t \in Threads, Progress(t) PROVE Listed'
  BY <1>5, <1>6, <1>7, <1>8, <1>14 DEF Progress
<1> QED
  BY <1>4, <1>6, <1>7, <1>8, <1>9, <1>10, <1>11, <1>12, <1>13, <1>14 DEF Next

\* While no server crashes, no connection breaks and no save fails, a client whose
\* constructor has found a server talks to its current server, which heads a list in
\* which no server is named twice, whichever threads connect, poll and refresh in
\* between (connect_to_server and update_available_replicas, network.py:56-123).
THEOREM ListIsOfCurrentHolds == Spec => []ListIsOfCurrent
<1>1. ListInv => ListIsOfCurrent
  BY DEF ListInv, Unlinked, Listed, Linked, ListIsOfCurrent
<1> QED
  BY <1>1, ListInit, ListNext, PTL DEF Spec

=============================================================================
