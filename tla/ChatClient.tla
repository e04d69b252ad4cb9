----------------------------- MODULE ChatClient -----------------------------
(***************************************************************************)
(* The network layer of a client: ChatClient of client/network.py, and the *)
(* servers as the client sees them.                                        *)
(*                                                                         *)
(* The user interface runs every operation in a thread of its own, and one *)
(* thread polls for messages.  A request holds the lock for all its         *)
(* attempts and for the failovers between them; the discovery of replicas  *)
(* by the polling thread, or by a refresh of the user, does not take it.    *)
(* A step is what a thread does from one remote call, or one access to a   *)
(* field of the client that others write, to the next.                     *)
(***************************************************************************)
EXTENDS Naturals, Sequences, FiniteSets, SequencesExt

CONSTANTS
  Server,      \* the servers
  Seed,        \* the server without an introduction point
  Configured,  \* the servers in the configuration of the client, a sequence
  UpFirst,     \* the servers that run when the client starts, unless none does
  Thread,      \* the threads of the user interface
  Poller,      \* the polling thread
  Operation,   \* the operations the user calls
  MaxRetries,  \* max_retries
  MaxCalls,    \* bound: operations the user calls
  MaxFaults,   \* bound: crashes of servers and connections that break
  None         \* no value

Operations == { "accountLookup", "login", "createAccount", "listAccounts",
                "sendMessage", "requestMessages", "deleteMessages",
                "deleteAccount" }

ASSUME ClientAssumption ==
  /\ IsFiniteSet(Server)
  /\ Seed \in Server
  /\ Configured \in Seq(Server) /\ Configured # <<>>
  /\ UpFirst \subseteq Server
  /\ Poller \notin Thread
  /\ Thread # {}
  /\ Operation \subseteq Operations
  /\ MaxRetries \in Nat \ {0}
  /\ MaxCalls \in Nat
  /\ MaxFaults \in Nat
  /\ None \notin Server \cup Thread \cup {Poller} \cup Operations \cup {"init"}

VARIABLES
  up,       \* the servers whose chat service runs
  live,     \* live[s]: liveReplicas of s
  servers,  \* the list of servers; its first may be None
  current,  \* current_server
  stub,     \* the server that stub talks to
  found,    \* the constructor has connected to a server (history)
  lock,     \* the thread that holds the lock
  session,  \* there is a session key
  polling,  \* the polling thread: "off", "on", "stopped"
  thread,   \* thread[t]: where t is, and the request it makes
  calls,    \* operations the user has called
  faults    \* faults so far

vars == << up, live, servers, current, stub, found, lock, session, polling,
           thread, calls, faults >>

environment == << up, live, faults >>

connection == << servers, current, stub, found >>

user == << session, polling, calls >>

Threads == Thread \cup {Poller}

\* The locals of a thread.  "bound" is the server the request function was bound
\* to, "attempts" and "round" count the loops of request_with_failover and
\* connect_to_server, "rest" is what is left of the loop over the servers,
\* "heard" the replicas a server has named.  History of the request: the server
\* has answered an attempt with an error; the servers in the list that could be
\* reached all the time; how often the request was carried out.
At(pc, op) ==
  [ pc |-> pc, op |-> op, bound |-> None, attempts |-> 0, round |-> 0,
    rest |-> <<>>, heard |-> <<>>, success |-> FALSE,
    refused |-> FALSE, reachable |-> {}, done |-> 0 ]

Idle == At("idle", None)

Goto(t, pc) == thread' = [thread EXCEPT ![t].pc = pc]

Fault == faults < MaxFaults /\ faults' = faults + 1

\* The constructor, which connects, has returned.
Constructed == \A t \in Threads : thread[t].op # "init"

-----------------------------------------------------------------------------
\* connect_to_server and update_available_replicas

\* What t does after them: a request goes on with its next attempt; without the
\* lock t is in the constructor, polls, or refreshes.
Resume(t) == IF lock = t THEN [thread[t] EXCEPT !.pc = "attempt"] ELSE Idle

\* The next server of the list becomes the stub; None in the list raises.
Try(t) ==
  /\ thread[t].pc = "try"
  /\ thread[t].rest # <<>>
  /\ IF Head(thread[t].rest) = None
       THEN /\ thread' = [thread EXCEPT ![t].rest = Tail(@)]
            /\ UNCHANGED stub
       ELSE /\ stub' = Head(thread[t].rest)
            /\ Goto(t, "probe")
  /\ UNCHANGED << environment, user, servers, current, found, lock >>

\* The stub answers the lightweight request.
Connected(t) ==
  /\ thread[t].pc = "probe"
  /\ stub \in up
  /\ current' = Head(thread[t].rest)
  /\ found' = (found \/ ~ Constructed)
  /\ Goto(t, "ask")
  /\ UNCHANGED << environment, user, servers, stub, lock >>

\* It does not: go on with the next server.
ConnectionFails(t) ==
  /\ thread[t].pc = "probe"
  /\ \/ stub \notin up /\ UNCHANGED faults
     \/ stub \in up /\ Fault
  /\ thread' = [thread EXCEPT ![t].pc = "try", ![t].rest = Tail(@)]
  /\ UNCHANGED << connection, user, up, live, lock >>

\* No server of the list has answered: after a pause, again with what is now in
\* the list, or give up.
NextRound(t) ==
  /\ thread[t].pc = "try"
  /\ thread[t].rest = <<>>
  /\ thread' = [thread EXCEPT ![t] =
       IF thread[t].round + 1 < MaxRetries
         THEN [thread[t] EXCEPT !.round = @ + 1, !.rest = servers]
         ELSE Resume(t)]
  /\ UNCHANGED << environment, connection, user, lock >>

\* GetOtherAvailableReplicas: the stub names the servers it knows, in some order.
Hear(t) ==
  /\ thread[t].pc = "ask"
  /\ stub \in up
  /\ \E replicas \in SetToSeqs(live[stub]) :
       thread' = [thread EXCEPT ![t].pc = "heard", ![t].heard = replicas]
  /\ UNCHANGED << environment, connection, user, lock >>

HearNothing(t) ==
  /\ thread[t].pc = "ask"
  /\ \/ stub \notin up /\ UNCHANGED faults
     \/ stub \in up /\ Fault
  /\ thread' = [thread EXCEPT ![t] = Resume(t)]
  /\ UNCHANGED << connection, user, up, live, lock >>

\* Mutant of NewServers: the current server comes last.
CurrentLast(t) == thread[t].heard \o << current >>

\* The list becomes the current server and those that were named.
NewServers(t) == << current >> \o thread[t].heard

UpdateServers(t) ==
  /\ thread[t].pc = "heard"
  /\ servers' = NewServers(t)
  /\ thread' = [thread EXCEPT ![t] = Resume(t)]
  /\ UNCHANGED << environment, user, current, stub, found, lock >>

-----------------------------------------------------------------------------
\* request_with_failover

\* The request of operation op: the function is bound to the stub before the
\* lock is taken.
Request(op) ==
  [At("lock", op) EXCEPT !.bound = stub, !.reachable = up \cap Range(servers)]

NeedsSession == Operations \ { "accountLookup", "login", "createAccount" }

\* The user calls an operation, or refreshes the list of servers, in a thread of
\* its own.
Call(t) ==
  /\ Constructed
  /\ thread[t] = Idle
  /\ polling # "stopped"
  /\ calls < MaxCalls
  /\ calls' = calls + 1
  /\ \/ \E op \in Operation :
          /\ op \in NeedsSession => session
          /\ thread' = [thread EXCEPT ![t] = Request(op)]
     \/ /\ session
        /\ thread' = [thread EXCEPT ![t] = At("ask", None)]
  /\ UNCHANGED << environment, connection, lock, session, polling >>

Acquire(t) ==
  /\ thread[t].pc = "lock"
  /\ lock = None
  /\ lock' = t
  /\ Goto(t, "attempt")
  /\ UNCHANGED << environment, connection, user >>

\* Mutant of Release: the lock is kept.
ReleaseNothing(t, request, pc) ==
  /\ thread' = [thread EXCEPT ![t] = [request EXCEPT !.pc = pc]]
  /\ UNCHANGED lock

\* The request is over, as pc says, and the lock is released.
Release(t, request, pc) ==
  /\ thread' = [thread EXCEPT ![t] = [request EXCEPT !.pc = pc]]
  /\ lock' = None

\* Mutant of Fails: attempts are not counted.
FailsUncounted(t, request) ==
  /\ thread' = [thread EXCEPT ![t] =
                  [request EXCEPT !.pc = "try", !.round = 0, !.rest = servers]]
  /\ UNCHANGED lock

\* An attempt has raised an RpcError: connect again, to some server, and make the
\* next attempt, unless this was the last.
Fails(t, request) ==
  IF request.attempts + 1 < MaxRetries
    THEN /\ thread' = [thread EXCEPT ![t] =
                [request EXCEPT !.pc = "try", !.attempts = @ + 1,
                                !.round = 0, !.rest = servers]]
         /\ UNCHANGED lock
    ELSE Release(t, request, "gaveUp")

\* What a server may answer no to: a name or a password that is not known, or a name
\* that is taken, also by an earlier attempt of the same request.
MaySayNo == { "accountLookup", "login", "createAccount" }

\* The server carries the request out and answers, or says no.
Answered(t) ==
  /\ thread[t].pc = "attempt"
  /\ thread[t].bound \in up
  /\ \/ Release(t, [thread[t] EXCEPT !.success = TRUE, !.done = @ + 1], "returned")
     \/ thread[t].op \in MaySayNo /\ Release(t, thread[t], "returned")
  /\ UNCHANGED << environment, connection, user >>

\* What causes a log message.
Writes == { "createAccount", "sendMessage", "requestMessages", "deleteMessages",
            "deleteAccount" }

\* The server answers with an error: OperationHandler throws.
Refused(t) ==
  /\ thread[t].pc = "attempt"
  /\ thread[t].bound \in up
  /\ thread[t].op \in Writes
  /\ Fails(t, [thread[t] EXCEPT !.refused = TRUE])
  /\ UNCHANGED << environment, connection, user >>

\* So does a server that has carried the request out and cannot save it.
Unsaved(t) ==
  /\ thread[t].pc = "attempt"
  /\ thread[t].bound \in up
  /\ thread[t].op \in Writes
  /\ Fault
  /\ Fails(t, [thread[t] EXCEPT !.refused = TRUE, !.done = @ + 1])
  /\ UNCHANGED << connection, user, up, live >>

\* The server is down.
Unreachable(t) ==
  /\ thread[t].pc = "attempt"
  /\ thread[t].bound \notin up
  /\ Fails(t, thread[t])
  /\ UNCHANGED << environment, connection, user >>

\* The connection breaks, before or after the server has carried the request out.
\* (A server that crashes in between is one whose connection breaks and that
\* crashes next.)
Unanswered(t) ==
  /\ thread[t].pc = "attempt"
  /\ thread[t].bound \in up
  /\ Fault
  /\ \E n \in {0, 1} :
       Fails(t, [thread[t] EXCEPT !.done = @ + n,
                                  !.reachable = @ \ { thread[t].bound }])
  /\ UNCHANGED << connection, user, up, live >>

\* Mutant of Report: sending is reported as done, whatever came back.
ReportOptimistic(request) ==
  IF request.pc = "returned" /\ ~ request.success THEN "refused" ELSE "done"

\* What the operation tells its caller.  Without a response the two lists are
\* empty, the deletions do not look, and the other operations raise.
Report(request) ==
  IF request.pc = "returned" THEN IF request.success THEN "done" ELSE "refused" ELSE
  CASE request.op \in { "deleteMessages", "deleteAccount" } -> "done"
    [] request.op \in { "listAccounts", "requestMessages" } -> "empty"
    [] OTHER -> "raised"

\* The rest of the operation.
Finish(t) ==
  /\ thread[t].pc \in { "returned", "gaveUp" }
  /\ LET op == thread[t].op
         done == Report(thread[t]) = "done"
         entered == done /\ op \in { "login", "createAccount" }
     IN  /\ session' = CASE entered -> TRUE
                         [] done /\ op = "deleteAccount" -> FALSE
                         [] OTHER -> session
         /\ polling' = IF entered /\ polling = "off" THEN "on" ELSE polling
         /\ thread' = [thread EXCEPT ![t] =
                         IF t = Poller THEN At("ask", None) ELSE Idle]
  /\ UNCHANGED << environment, connection, lock, calls >>

-----------------------------------------------------------------------------
\* Polling

\* One turn of the polling loop: request messages if there is a session, then
\* update the list of servers.
Poll ==
  /\ polling = "on"
  /\ thread[Poller] = Idle
  /\ thread' = [thread EXCEPT ![Poller] =
                  IF session THEN Request("requestMessages") ELSE At("ask", None)]
  /\ UNCHANGED << environment, connection, user, lock >>

\* stop_polling_messages; the window is closed.
Disconnect ==
  /\ polling = "on"
  /\ polling' = "stopped"
  /\ UNCHANGED << environment, connection, lock, session, thread, calls >>

-----------------------------------------------------------------------------
\* The servers

\* Nobody can reach s any more.
Crash(s) ==
  /\ s \in up
  /\ Fault
  /\ up' = up \ {s}
  /\ live' = [live EXCEPT ![s] = {}]
  /\ thread' = [t \in Threads |->
                  [thread[t] EXCEPT !.reachable = @ \ {s}]]
  /\ UNCHANGED << connection, user, lock >>

\* s introduces itself to Seed and to those that Seed knows, all of which must
\* answer; Seed introduces itself to nobody.
Start(s) ==
  /\ s \notin up
  /\ LET known == IF s = Seed THEN {} ELSE {Seed} \cup (live[Seed] \ {s}) IN
       /\ known \subseteq up
       /\ live' = [p \in Server |-> IF p = s THEN known
                                    ELSE IF p \in known THEN live[p] \cup {s}
                                    ELSE live[p]]
  /\ up' = up \cup {s}
  /\ UNCHANGED << connection, user, lock, thread, faults >>

\* A relay of s to p has failed.
Forget(s) ==
  /\ s \in up
  /\ \E p \in live[s] \ up : live' = [live EXCEPT ![s] = @ \ {p}]
  /\ UNCHANGED << connection, user, up, lock, thread, faults >>

\* The constructor connects.
Init ==
  /\ up \in { {}, UpFirst }
  /\ live = [s \in Server |-> IF s \in up THEN up \ {s} ELSE {}]
  /\ servers = Configured
  /\ current = None
  /\ stub = None
  /\ found = FALSE
  /\ lock = None
  /\ session = FALSE
  /\ polling = "off"
  /\ LET main == CHOOSE t \in Thread : TRUE IN
       thread = [t \in Threads |->
                   IF t = main THEN [At("try", "init") EXCEPT !.rest = Configured]
                   ELSE Idle]
  /\ calls = 0
  /\ faults = 0

\* What a thread does on its own once it has the lock or needs none.
Progress(t) ==
  \/ Try(t) \/ Connected(t) \/ NextRound(t)
  \/ (stub \notin up /\ (ConnectionFails(t) \/ HearNothing(t)))
  \/ Hear(t) \/ UpdateServers(t)
  \/ Answered(t) \/ Refused(t) \/ Unreachable(t) \/ Finish(t)

Next ==
  \/ \E t \in Thread : Call(t)
  \/ \E t \in Threads :
       \/ Progress(t) \/ Acquire(t)
       \/ ConnectionFails(t) \/ HearNothing(t) \/ Unanswered(t)
       \/ Unsaved(t)
  \/ \E s \in Server : Crash(s) \/ Start(s) \/ Forget(s)
  \/ Poll
  \/ Disconnect

Spec == Init /\ [][Next]_vars

\* Threads are scheduled, answers that are sent arrive, and a thread that waits
\* for the lock gets it, if it is free again and again.
FairSpec ==
  Spec /\ \A t \in Threads : WF_vars(Progress(t)) /\ SF_vars(Acquire(t))

-----------------------------------------------------------------------------
\* Properties

\* Every variable has its type; the lock is held exactly by the thread that is
\* between "with self.lock" and the return of request_with_failover, and only
\* the constructor or that thread connects.
TypeOK ==
  /\ up \subseteq Server
  /\ live \in [Server -> SUBSET Server]
  /\ servers \in Seq(Server \cup {None}) /\ servers # <<>>
  /\ current \in Server \cup {None} /\ stub \in Server \cup {None}
  /\ found \in BOOLEAN
  /\ session \in BOOLEAN /\ polling \in { "off", "on", "stopped" }
  /\ calls \in 0 .. MaxCalls /\ faults \in 0 .. MaxFaults
  /\ \A t \in Threads :
       /\ thread[t].pc \in { "idle", "try", "probe", "ask", "heard", "lock",
                             "attempt", "returned", "gaveUp" }
       /\ thread[t].op \in Operations \cup { "init", None }
       /\ thread[t].attempts < MaxRetries /\ thread[t].round < MaxRetries
       /\ thread[t].pc = "attempt" => lock = t
       /\ thread[t].pc \in { "try", "probe" } => lock = t \/ ~ Constructed
       /\ lock = t => thread[t].pc \in { "try", "probe", "ask", "heard", "attempt" }

\* If the constructor has found a server, then as long as nothing has failed, whatever
\* the threads do to the list, the current server and the stub: the stub talks to the
\* current server, which heads the list, and the list has no server twice.  (Without
\* one the client goes on with current_server None, network.py:96, and puts it at the
\* head of the list, network.py:112.)
ListIsOfCurrent ==
  faults = 0 /\ Constructed /\ found =>
    /\ stub = current
    /\ Head(servers) = current
    /\ IsInjective(servers)

\* What is reported of an operation other than a deletion.  One that is reported as
\* done has been carried out, and one that is not has not been, unless something has
\* failed: through any number of attempts and failovers, each time that a request is
\* carried out and its caller does not learn of it costs a fault (a lost answer, or a
\* save that failed), after which a createAccount that is repeated finds its own
\* name taken and is reported as failed (network.py:140 and :259-268).
ReportsTruth ==
  \A t \in Threads :
    LET request == thread[t] IN
    /\ request.pc \in { "returned", "gaveUp" }
    /\ request.op \notin { "deleteMessages", "deleteAccount" }
    => IF Report(request) = "done" THEN request.done \in 1 .. faults + 1
                                   ELSE request.done <= faults

\* A request that no server has answered with an error gives up only if every
\* server in the list could not be reached at some moment (docs/CLIENT_SPEC.md:21
\* "If a server goes down while the client is active, we perform failover").
FailoverReaches ==
  \A t \in Threads :
    thread[t].pc = "gaveUp" /\ ~ thread[t].refused =>
      thread[t].reachable = {}

\* A request under way ends: the loops of request_with_failover and
\* connect_to_server are finite, and the lock comes to every thread.
RequestEnds ==
  \A t \in Threads :
    thread[t].pc = "lock" ~> thread[t].pc \in { "returned", "gaveUp" }

=============================================================================
