---------------------------- MODULE Replication ----------------------------
(***************************************************************************)
(* The replication protocol of the chat servers: ReplicationService.java,  *)
(* the part of LogReplay.java that keeps the log in memory and on disk, and *)
(* the startup sequence of App.java.                                       *)
(*                                                                         *)
(* Every server dispatches the log messages its clients cause, relays each *)
(* to the servers it believes to be alive, and catches up by introductions. *)
(* A call from one server to another is synchronous: the caller holds its  *)
(* replication monitor until the answer is there, and the handler needs the *)
(* callee's monitor.  A call is therefore one step, enabled when the callee *)
(* is not itself in the middle of a relay or an introduction.              *)
(*                                                                         *)
(* A server has a second monitor, that of LogReplay.  A dispatch takes it  *)
(* first and the replication monitor second; a handler takes them the other *)
(* way round, and may meet a dispatch that is between the two.             *)
(***************************************************************************)
EXTENDS Naturals, Sequences, FiniteSets, SequencesExt, LogSync

CONSTANTS
  Replica,     \* the servers
  Seed,        \* the server configured without an introduction point; the
               \* others are configured to introduce themselves to it
  Writer,      \* the servers whose clients cause log messages
  Durable,     \* the servers configured with a database file
  Kinds,       \* the kinds of log messages dispatched
  Faults,      \* what may go wrong, a subset of FaultKinds
  MaxIssued,   \* bound: log messages dispatched by one server
  MaxFaults,   \* bound: faults in one behaviour
  None         \* no entry

FaultKinds ==
  { "crash",      \* a server other than Seed crashes
    "seedCrash",  \* Seed crashes
    "applyCrash", \* a server crashes while it applies a backlog
    "save",       \* a message that was replayed cannot be written to the file
    "drop",       \* a connection breaks before or after the handler has run
    "late",       \* a connection breaks while the handler waits for its lock
    "sameMs" }    \* two messages of a server carry the same millisecond

ASSUME ConstantsAssumption ==
  /\ IsFiniteSet(Replica)
  /\ Seed \in Replica
  /\ Writer \subseteq Replica
  /\ Durable \subseteq Replica
  /\ Kinds \subseteq LogMessageCase
  /\ Faults \subseteq FaultKinds
  /\ MaxIssued \in Nat
  /\ MaxFaults \in Nat

\* LogMessage: seq numbers the messages of one originator and stands for the
\* payload, ts is the wall clock of the originator.  Of the payload of MARK_AS_READ
\* there are the chat messages it marks, each by the originator and the number of
\* its NEW_CHAT_MESSAGE; the other kinds mark nothing.
Entry == [orig : Replica, seq : Nat, ts : Nat, kind : Kinds,
          marks : SUBSET (Replica \X Nat)]

ASSUME NoneIsNoEntry == None \notin Entry /\ None \notin Replica

Phase ==
  { "down",         \* no process
    "booted",       \* disk replayed, replication service up, not introduced
    "introducing",  \* startServer is in introduce()
    "idle",         \* the chat service is up
    "dispatching",  \* dispatchMessage is about to call relayMessage: it holds
                    \* the monitor of LogReplay, and the message is saved
    "stuck",        \* ... and a handler holds the monitor of ReplicationService
                    \* and waits for that of LogReplay
    "relaying",     \* dispatchMessage is in the loop of relayMessage
    "resync",       \* ... in the introduce(replica) of that loop
    "again" }       \* ... in the second relay after that introduction

VARIABLES
  phase,    \* phase[r]: what the process of r is doing
  log,      \* log[r]: LogReplay.messages
  disk,     \* disk[r]: the messages in dbFile
  live,     \* live[r]: the keys of liveReplicas
  todo,     \* todo[r]: what is left of the loop of relayMessage
  target,   \* target[r]: the replica that answered needsResync
  queue,    \* queue[r]: introductionPoints
  current,  \* current[r]: the message being relayed
  waits,    \* waits[r]: the replica that was stuck by the call of r
  late,     \* calls whose caller gave up and whose handler has yet to run
  issued,   \* issued[r]: log messages dispatched so far (history)
  clock,    \* clock[r]: the timestamp of the last of them
  acked,    \* messages whose dispatch returned to the operation (history)
  unsaved,  \* messages whose dispatch failed, replayed but not saved (history)
  refused,  \* messages whose replay threw at another server (history)
  faults    \* number of faults so far

vars == << phase, log, disk, live, todo, target, queue, current, waits, late,
           issued, clock, acked, unsaved, refused, faults >>

local == << todo, target, queue, current, waits >>

-----------------------------------------------------------------------------
\* The processes and their monitors

\* The process runs and no thread of it holds the monitor across a call.
Free(p) == phase[p] \in { "booted", "idle" }

\* The chat service of r accepts operations.
Serving(r) ==
  phase[r] \in { "idle", "dispatching", "stuck", "relaying", "resync", "again" }

\* A handler of relay goes on to replay m, whether or not p already has it: p
\* knows the originator.
Accepts(p, m) == m.orig \in live[p]

\* The handler of m at p can run to its end; m is None for an introduction.  While
\* p is dispatching this is one that does not need the monitor of LogReplay.
Admits(p, m) ==
  \/ Free(p)
  \/ phase[p] = "dispatching" /\ m # None /\ ~ Accepts(p, m)

\* The handler takes the monitor of ReplicationService and waits for the other.
Sticks(p, m) ==
  phase[p] = "dispatching" /\ (m # None => Accepts(p, m))

\* r adds es to its log in memory and then, if it has a file, writes saved to it.
Keep(r, es, saved) ==
  /\ log' = [log EXCEPT ![r] = @ \o es]
  /\ disk' = IF r \in Durable THEN [disk EXCEPT ![r] = @ \o saved] ELSE disk

\* receiveMessage, without an exception: every message is replayed and saved.
ReceiveMessages(r, es) == Keep(r, es, es)

\* The next value of phase, todo, target and queue of r, which waits for nobody;
\* its call stack is otherwise left as it is.
Enter(r, ph, left, tgt, points) ==
  /\ phase' = [phase EXCEPT ![r] = ph]
  /\ todo' = [todo EXCEPT ![r] = left]
  /\ target' = [target EXCEPT ![r] = tgt]
  /\ queue' = [queue EXCEPT ![r] = points]
  /\ waits' = [waits EXCEPT ![r] = None]

\* The catch clause of relayMessage: forget p, go on with the next replica.
\* "known" is liveReplicas of every server after what the callee did.
DropTarget(r, p, known) ==
  /\ live' = [known EXCEPT ![r] = @ \ {p}]
  /\ Enter(r, "relaying", todo[r] \ {p}, None, <<>>)
  /\ UNCHANGED current

\* The process of r ends: its memory is lost, and with it the handlers that
\* wait in it.  "waiting" are the calls whose caller has given up.
Exit(r, known, waiting) ==
  /\ log' = [log EXCEPT ![r] = <<>>]
  /\ live' = [known EXCEPT ![r] = {}]
  /\ Enter(r, "down", {}, None, <<>>)
  /\ current' = [current EXCEPT ![r] = None]
  /\ late' = { c \in waiting : c.to # r }

\* A call of r that arrived at p; m is None for an introduction.
Call(r, p, m) == [from |-> r, to |-> p, message |-> m]

\* Mutant of Lost: a caller is not told of a callee that crashed and is up again.
LostIfDown(r, p) == phase[p] = "down"

\* p does not answer the call of r any more.
Lost(r, p) == phase[p] = "down" \/ (waits[r] = p /\ phase[p] # "stuck")

\* One fault of the given kind.
Fault(kind) ==
  /\ kind \in Faults
  /\ faults < MaxFaults
  /\ faults' = faults + 1

CrashOf(r) == IF r = Seed THEN "seedCrash" ELSE "crash"

\* The last message that r has replayed cannot be written to its file.
SaveFails(r) == r \in Durable /\ Fault("save")

-----------------------------------------------------------------------------
\* Whether a message can be replayed after others; messages is the log of a server

\* The chat messages a log has created.
Chats(messages) ==
  { << m.orig, m.seq >> :
      m \in { n \in Range(messages) : n.kind = "NEW_CHAT_MESSAGE" } }

HasKind(messages, kind) == \E m \in Range(messages) : m.kind = kind

\* markMessagesRead throws at a chat message that has not been created.
MustThrow(messages, m) == ~ m.marks \subseteq Chats(messages)

\* It also throws at a message that is deleted, and at one whose recipient has no
\* list of unread messages any more; so does deleteMessage.  Which messages a
\* deletion is about is left open.
MayThrow(messages, m) ==
  \/ MustThrow(messages, m)
  \/ m.kind = "MARK_AS_READ" /\ HasKind(messages, "DELETE_MESSAGES")
  \/ /\ m.kind \in { "MARK_AS_READ", "DELETE_MESSAGES" }
     /\ HasKind(messages, "DELETE_ACCOUNT")

\* The messages es can be replayed one after the other.
Replayable(messages, es) ==
  \A k \in 1 .. Len(es) : ~ MustThrow(messages \o SubSeq(es, 1, k - 1), es[k])

-----------------------------------------------------------------------------
\* Startup

\* LogReplay is rebuilt from the file and the replication service is started.  A
\* file that cannot be replayed ends the process.
Boot(r) ==
  /\ phase[r] = "down"
  /\ Replayable(<<>>, disk[r])
  /\ phase' = [phase EXCEPT ![r] = "booted"]
  /\ log' = [log EXCEPT ![r] = disk[r]]
  /\ UNCHANGED << disk, live, local, late,
                  issued, clock, acked, unsaved, refused, faults >>

\* introduce(): with no introduction point the chat service starts at once.
StartIntroductions(r) ==
  /\ phase[r] = "booted"
  /\ IF r = Seed
       THEN Enter(r, "idle", {}, None, <<>>)
       ELSE Enter(r, "introducing", {}, None, << Seed >>)
  /\ UNCHANGED << log, disk, live, current, late,
                  issued, clock, acked, unsaved, refused, faults >>

-----------------------------------------------------------------------------
\* Introductions: one turn of the loop of introduce(initialReplica)

Introducing(r) == phase[r] \in { "introducing", "resync" }

\* The messages p answers with, in the order r applies them.
Answer(r, p) == Backlog(log[p], log[r])

\* Mutant of NewPoints: the network state in the answer is ignored.
NoNewPoints(r, p) == { <<>> }

\* What r adds to introductionPoints after p answered; the order is that of
\* the values of a HashMap.
NewPoints(r, p) == SetToSeqs(live[p] \ (live[r] \cup { p, r }))

\* Mutant of NextPoint: introduce returns after its first turn.
NextPointSkipped(r, q) ==
  IF phase[r] = "introducing" THEN Enter(r, "idle", {}, None, q)
  ELSE Enter(r, "again", todo[r], target[r], q)

\* The loop of introduce goes on with the points in q, or returns.
NextPoint(r, q) ==
  IF q # <<>> THEN Enter(r, phase[r], todo[r], target[r], q)
  ELSE IF phase[r] = "introducing" THEN Enter(r, "idle", {}, None, <<>>)
  ELSE Enter(r, "again", todo[r], target[r], <<>>)

\* Mutant of Introduced: handleIntroduction does not enter the caller into the
\* network state of the callee.
IntroducedAnonymously(r) ==
  /\ Introducing(r)
  /\ LET p == Head(queue[r]) IN
       /\ Free(p) /\ waits[r] = None
       /\ ReceiveMessages(r, Answer(r, p))
       /\ live' = [live EXCEPT ![r] = @ \cup {p}]
       /\ \E more \in NewPoints(r, p) : NextPoint(r, Tail(queue[r]) \o more)
  /\ UNCHANGED << current, late,
                  issued, clock, acked, unsaved, refused, faults >>

\* The introduction point answers: r applies what it lacks and the two servers
\* know each other.
Introduced(r) ==
  /\ Introducing(r)
  /\ LET p == Head(queue[r]) IN
       /\ Free(p) /\ waits[r] = None
       /\ Replayable(log[r], Answer(r, p))
       /\ ReceiveMessages(r, Answer(r, p))
       /\ live' = [live EXCEPT ![r] = @ \cup {p}, ![p] = @ \cup {r}]
       /\ \E more \in NewPoints(r, p) : NextPoint(r, Tail(queue[r]) \o more)
  /\ UNCHANGED << current, late,
                  issued, clock, acked, unsaved, refused, faults >>

\* introduce throws: at startup the server exits, in a relay the replica that
\* needed the resync is dropped, whichever introduction point failed.
IntroductionThrows(r, known, waiting) ==
  IF phase[r] = "introducing"
    THEN Exit(r, known, waiting)
    ELSE /\ DropTarget(r, target[r], known)
         /\ late' = waiting
         /\ UNCHANGED log

\* The introduction point is down, or has crashed with the handler in it, or the
\* connection breaks before the handler has run (and then it may still run, later).
IntroductionFails(r) ==
  /\ Introducing(r)
  /\ LET p == Head(queue[r]) IN
       \/ /\ Lost(r, p)
          /\ UNCHANGED faults
          /\ IntroductionThrows(r, live, late)
       \/ /\ Fault("drop")
          /\ IntroductionThrows(r, live, late)
       \/ /\ phase[p] # "down" /\ waits[r] = None /\ Fault("late")
          /\ IntroductionThrows(r, live, late \cup { Call(r, p, None) })
  /\ UNCHANGED << disk, issued, clock, acked, unsaved, refused >>

\* The handler has run, and the connection breaks before its answer arrives.
IntroductionUnanswered(r) ==
  /\ Introducing(r)
  /\ Free(Head(queue[r])) /\ waits[r] = None
  /\ Fault("drop")
  /\ IntroductionThrows(r, [live EXCEPT ![Head(queue[r])] = @ \cup {r}], late)
  /\ UNCHANGED << disk, issued, clock, acked, unsaved, refused >>

\* The answer of p is applied only in part, and introduce throws: the messages es
\* have been replayed, and those of saved written.
AppliedInPart(r, p, es, saved) ==
  LET known == [live EXCEPT ![p] = @ \cup {r}] IN
  /\ disk' = IF r \in Durable THEN [disk EXCEPT ![r] = @ \o saved] ELSE disk
  /\ IF phase[r] = "introducing"
       THEN Exit(r, known, late)
       ELSE /\ DropTarget(r, target[r], known)
            /\ log' = [log EXCEPT ![r] = @ \o es]
            /\ UNCHANGED late

\* The replay of the message after the first k of the answer throws.
IntroductionRefused(r) ==
  /\ Introducing(r)
  /\ LET p == Head(queue[r])
         es == Answer(r, p)
     IN  /\ Free(p) /\ waits[r] = None
         /\ \E k \in 0 .. Len(es) - 1 :
              LET part == SubSeq(es, 1, k) IN
              /\ Replayable(log[r], part)
              /\ MayThrow(log[r] \o part, es[k + 1])
              /\ AppliedInPart(r, p, part, part)
              /\ refused' = refused \cup { es[k + 1] }
  /\ UNCHANGED << issued, clock, acked, unsaved, faults >>

\* The server crashes after the first k messages of the answer, or the next one is
\* replayed and cannot be saved.
AnswerHalfApplied(r) ==
  /\ Introducing(r)
  /\ LET p == Head(queue[r])
         es == Answer(r, p)
     IN  /\ Free(p) /\ waits[r] = None
         /\ \E k \in 0 .. Len(es) - 1 :
              LET part == SubSeq(es, 1, k) IN
              /\ Replayable(log[r], part)
              /\ \/ /\ Fault("applyCrash")
                    /\ disk' = IF r \in Durable
                                 THEN [disk EXCEPT ![r] = @ \o part] ELSE disk
                    /\ Exit(r, [live EXCEPT ![p] = @ \cup {r}], late)
                 \/ /\ SaveFails(r)
                    /\ ~ MustThrow(log[r] \o part, es[k + 1])
                    /\ AppliedInPart(r, p, SubSeq(es, 1, k + 1), part)
  /\ UNCHANGED << issued, clock, acked, unsaved, refused >>

-----------------------------------------------------------------------------
\* Dispatch and relay

\* The messages an operation of a client of r may dispatch; what a request marks as
\* read is in the database of r.
NewMessages(r) ==
  { m \in [orig : {r},
           seq : { issued[r] + 1 },
           ts : IF "sameMs" \in Faults /\ clock[r] > 0
                  THEN { clock[r], clock[r] + 1 } ELSE { clock[r] + 1 },
           kind : Kinds,
           marks : SUBSET Chats(log[r])] :
      m.kind # "MARK_AS_READ" => m.marks = {} }

\* r is about to dispatch m.
Stamps(r, m) ==
  /\ phase[r] = "idle"
  /\ r \in Writer
  /\ issued[r] < MaxIssued
  /\ issued' = [issued EXCEPT ![r] = @ + 1]
  /\ clock' = [clock EXCEPT ![r] = m.ts]

\* Mutant of Dispatch: the message is relayed without having been saved.
DispatchUnsaved(r) ==
  /\ \E m \in NewMessages(r) :
       /\ Stamps(r, m)
       /\ Keep(r, << m >>, <<>>)
       /\ current' = [current EXCEPT ![r] = m]
  /\ Enter(r, "dispatching", {}, None, <<>>)
  /\ UNCHANGED << live, late, acked, unsaved, refused, faults >>

\* dispatchBuilder, and dispatchMessage up to its call of relayMessage.
Dispatch(r) ==
  /\ \E m \in NewMessages(r) :
       /\ Stamps(r, m)
       /\ ReceiveMessages(r, << m >>)
       /\ current' = [current EXCEPT ![r] = m]
  /\ Enter(r, "dispatching", {}, None, <<>>)
  /\ UNCHANGED << live, late, acked, unsaved, refused, faults >>

\* Mutant of DispatchFails: the operation goes on and the message is relayed.
DispatchDespite(r) ==
  /\ \E m \in NewMessages(r) :
       /\ Stamps(r, m)
       /\ SaveFails(r)
       /\ Keep(r, << m >>, <<>>)
       /\ current' = [current EXCEPT ![r] = m]
       /\ unsaved' = unsaved \cup {m}
  /\ Enter(r, "dispatching", {}, None, <<>>)
  /\ UNCHANGED << live, late, acked, refused >>

\* The message is replayed and cannot be saved: the operation fails, and the
\* message stays in the log, where introductions find it.
DispatchFails(r) ==
  /\ \E m \in NewMessages(r) :
       /\ Stamps(r, m)
       /\ SaveFails(r)
       /\ Keep(r, << m >>, <<>>)
       /\ unsaved' = unsaved \cup {m}
  /\ UNCHANGED << phase, live, local, late, acked, refused >>

\* relayMessage, up to its loop over a copy of liveReplicas.
EnterRelay(r) ==
  /\ phase[r] = "dispatching"
  /\ Enter(r, "relaying", live[r], None, <<>>)
  /\ UNCHANGED << log, disk, live, current, late,
                  issued, clock, acked, unsaved, refused, faults >>

\* The handler of relay at p returns.
HandleRelay(p, m) ==
  IF Accepts(p, m) THEN ~ MustThrow(log[p], m) /\ ReceiveMessages(p, << m >>)
                   ELSE UNCHANGED << log, disk >>

\* The handler of relay at p throws: m cannot be replayed there, or is replayed and
\* cannot be saved.
RelayThrows(p, m) ==
  /\ Accepts(p, m)
  /\ \/ /\ MayThrow(log[p], m)
        /\ refused' = refused \cup {m}
        /\ UNCHANGED << log, disk, faults >>
     \/ /\ ~ MustThrow(log[p], m)
        /\ SaveFails(p)
        /\ Keep(p, << m >>, <<>>)
        /\ UNCHANGED refused

\* The replica a relay of r may be calling.
Callees(r) == CASE phase[r] = "relaying" /\ waits[r] = None -> todo[r]
                [] phase[r] = "relaying" /\ waits[r] # None -> { waits[r] }
                [] phase[r] = "again" -> { target[r] }
                [] OTHER -> {}

\* The callee has the message, or answers the second relay, whose answer
\* nobody reads.
Relayed(r) ==
  /\ \E p \in Callees(r) :
       /\ Admits(p, current[r]) /\ waits[r] = None
       /\ Accepts(p, current[r]) \/ phase[r] = "again"
       /\ HandleRelay(p, current[r])
       /\ Enter(r, "relaying", todo[r] \ {p}, None, <<>>)
  /\ UNCHANGED << live, current, late,
                  issued, clock, acked, unsaved, refused, faults >>

\* The callee does not know r: introduce to it before relaying again.
NeedsResync(r) ==
  /\ phase[r] = "relaying"
  /\ \E p \in todo[r] :
       /\ Admits(p, current[r]) /\ waits[r] = None
       /\ ~ Accepts(p, current[r])
       /\ Enter(r, "resync", todo[r], p, << p >>)
  /\ UNCHANGED << log, disk, live, current, late,
                  issued, clock, acked, unsaved, refused, faults >>

\* Mutant of RelayFails: a relay to a server that is down waits for it.
RelayWaits(r) ==
  /\ \E p \in Callees(r) :
       /\ Fault("drop")
       /\ UNCHANGED late
       /\ DropTarget(r, p, live)
  /\ UNCHANGED << log, disk, issued, clock, acked, unsaved, refused >>

\* The relay throws: the callee is down, or has crashed with the handler in it, or
\* the connection breaks before the handler has run (and then it may still run,
\* later).
RelayFails(r) ==
  /\ \E p \in Callees(r) :
       /\ \/ Lost(r, p) /\ UNCHANGED << faults, late >>
          \/ Fault("drop") /\ UNCHANGED late
          \/ /\ phase[p] # "down" /\ waits[r] = None /\ Fault("late")
             /\ late' = late \cup { Call(r, p, current[r]) }
       /\ DropTarget(r, p, live)
  /\ UNCHANGED << log, disk, issued, clock, acked, unsaved, refused >>

\* The callee throws, and is dropped although it is up and nothing was lost.
RelayRefused(r) ==
  /\ \E p \in Callees(r) :
       /\ Admits(p, current[r]) /\ waits[r] = None
       /\ RelayThrows(p, current[r])
       /\ DropTarget(r, p, live)
  /\ UNCHANGED << late, issued, clock, acked, unsaved >>

\* The handler has run, and the connection breaks before its answer arrives.
\* (A callee that crashes in that window is one whose connection breaks and
\* that crashes next.)
RelayUnanswered(r) ==
  /\ Fault("drop")
  /\ \E p \in Callees(r) :
       /\ Admits(p, current[r]) /\ waits[r] = None
       /\ HandleRelay(p, current[r])
       /\ DropTarget(r, p, live)
  /\ UNCHANGED << late, issued, clock, acked, unsaved, refused >>

\* Mutant of Finish: the operation returns before the relays are done.
FinishEarly(r) ==
  /\ phase[r] = "relaying"
  /\ phase' = [phase EXCEPT ![r] = "idle"]
  /\ current' = [current EXCEPT ![r] = None]
  /\ acked' = acked \cup { current[r] }
  /\ UNCHANGED << log, disk, live, todo, target, queue, waits, late, issued,
                  clock, unsaved, refused, faults >>

\* relayMessage returns, and with it the operation of the client.
Finish(r) ==
  /\ phase[r] = "relaying"
  /\ Callees(r) = {}
  /\ phase' = [phase EXCEPT ![r] = "idle"]
  /\ current' = [current EXCEPT ![r] = None]
  /\ acked' = acked \cup { current[r] }
  /\ UNCHANGED << log, disk, live, todo, target, queue, waits, late, issued,
                  clock, unsaved, refused, faults >>

\* The handler of a call runs whose caller gave up long ago.
LateCall(p) ==
  /\ \E c \in late :
       /\ c.to = p
       /\ Admits(p, c.message)
       /\ late' = late \ {c}
       /\ \/ /\ c.message = None
             /\ live' = [live EXCEPT ![p] = @ \cup { c.from }]
             /\ UNCHANGED << log, disk, refused, faults >>
          \/ /\ c.message # None
             /\ HandleRelay(p, c.message)
             /\ UNCHANGED << live, refused, faults >>
          \/ /\ c.message # None
             /\ RelayThrows(p, c.message)
             /\ UNCHANGED live
  /\ UNCHANGED << phase, local, issued, clock, acked, unsaved >>

-----------------------------------------------------------------------------
\* The calls of which r makes one next, or whose handler has yet to run.
InFlight(r) ==
  IF waits[r] # None THEN {}
  ELSE { Call(r, p, current[r]) : p \in Callees(r) } \cup
       (IF Introducing(r) THEN { Call(r, Head(queue[r]), None) } ELSE {})

\* The handler of the call of r meets a dispatch of the callee p, each with one of
\* the monitors of p: only a crash of p ends this.
CallSticks(r) ==
  /\ \E call \in InFlight(r) :
       /\ Sticks(call.to, call.message)
       /\ phase' = [phase EXCEPT ![call.to] = "stuck"]
       /\ waits' = [waits EXCEPT ![r] = call.to]
  /\ UNCHANGED << log, disk, live, todo, target, queue, current, late, issued,
                  clock, acked, unsaved, refused, faults >>

\* So does the handler of a call whose caller gave up.
LateCallSticks(p) ==
  /\ \E call \in late :
       /\ call.to = p
       /\ Sticks(p, call.message)
       /\ late' = late \ {call}
  /\ phase' = [phase EXCEPT ![p] = "stuck"]
  /\ UNCHANGED << log, disk, live, local,
                  issued, clock, acked, unsaved, refused, faults >>

\* The process of r is killed, outside the application of a backlog.  With
\* "late" its call may be left behind in a callee whose handler has yet to run.
Crash(r) ==
  /\ phase[r] # "down"
  /\ Fault(CrashOf(r))
  /\ \/ Exit(r, live, late)
     \/ /\ "late" \in Faults
        /\ \E call \in InFlight(r) :
             /\ phase[call.to] # "down"
             /\ Exit(r, live, late \cup { call })
  /\ UNCHANGED << disk, issued, clock, acked, unsaved, refused >>

Init ==
  /\ phase = [r \in Replica |-> "down"]
  /\ log = [r \in Replica |-> <<>>]
  /\ disk = [r \in Replica |-> <<>>]
  /\ live = [r \in Replica |-> {}]
  /\ todo = [r \in Replica |-> {}]
  /\ target = [r \in Replica |-> None]
  /\ queue = [r \in Replica |-> <<>>]
  /\ current = [r \in Replica |-> None]
  /\ waits = [r \in Replica |-> None]
  /\ late = {}
  /\ issued = [r \in Replica |-> 0]
  /\ clock = [r \in Replica |-> 0]
  /\ acked = {}
  /\ unsaved = {}
  /\ refused = {}
  /\ faults = 0

\* What a running process does by itself, once the servers it calls let it.
Progress(r) ==
  \/ StartIntroductions(r)
  \/ Introduced(r)
  \/ EnterRelay(r)
  \/ CallSticks(r)
  \/ Relayed(r)
  \/ NeedsResync(r)
  \/ RelayFails(r)
  \/ RelayRefused(r)
  \/ IntroductionFails(r)
  \/ IntroductionRefused(r)
  \/ Finish(r)

Next ==
  \E r \in Replica :
    \/ Boot(r)
    \/ Progress(r)
    \/ IntroductionUnanswered(r)
    \/ AnswerHalfApplied(r)
    \/ Dispatch(r)
    \/ DispatchFails(r)
    \/ RelayUnanswered(r)
    \/ LateCall(r)
    \/ LateCallSticks(r)
    \/ Crash(r)

Spec == Init /\ [][Next]_vars

\* A server that can take a step on its own does so sooner or later: its threads
\* are scheduled, and an answer that is sent arrives.  The fairness is strong for
\* the sake of a callee that is rebooted again and again: a call that waits in a
\* process fails with it, so the caller is not passed over for ever.
FairSpec == Spec /\ \A r \in Replica : SF_vars(Progress(r))

-----------------------------------------------------------------------------
\* Properties

\* The phases of dispatchMessage, and those in which a call is made.
DispatchPhases == { "dispatching", "stuck", "relaying", "resync", "again" }

CallPhases == { "introducing", "relaying", "resync", "again" }

\* The variables of a server that stand for its call stack: it is at an
\* introduction point exactly while it introduces itself, a replica waits for a
\* resync exactly in a relay that was told needsResync, a message is being relayed
\* exactly in the phases of dispatchMessage, and only a call is waited for.
CallStack ==
  \A r \in Replica :
    /\ Introducing(r) <=> queue[r] # <<>>
    /\ phase[r] \in { "resync", "again" } <=> target[r] # None
    /\ phase[r] \in DispatchPhases <=> current[r] # None
    /\ phase[r] \notin CallPhases => waits[r] = None

\* Every variable has its type, and the call stack of every server is one that
\* introduce and relayMessage (ReplicationService.java:88-158) can have.
TypeOK ==
  /\ phase \in [Replica -> Phase]
  /\ log \in [Replica -> Seq(Entry)]
  /\ disk \in [Replica -> Seq(Entry)]
  /\ live \in [Replica -> SUBSET Replica]
  /\ todo \in [Replica -> SUBSET Replica]
  /\ target \in [Replica -> Replica \cup {None}]
  /\ queue \in [Replica -> Seq(Replica)]
  /\ current \in [Replica -> Entry \cup {None}]
  /\ waits \in [Replica -> Replica \cup {None}]
  /\ late \subseteq [from : Replica, to : Replica, message : Entry \cup {None}]
  /\ issued \in [Replica -> Nat]
  /\ clock \in [Replica -> Nat]
  /\ acked \subseteq Entry
  /\ unsaved \subseteq Entry
  /\ refused \subseteq Entry
  /\ faults \in Nat
  /\ CallStack

\* The message is on the file of its originator, if that has one.
OnFile(m) == m.orig \in Durable => m \in Range(disk[m.orig])

\* An originator with a file can be asked, after any crash, for every message it
\* relayed and for every message of an operation that has returned; what another
\* server holds in memory or on disk is on the file of its originator, or is a
\* message whose operation failed (LogReplay.receiveMessage replays, then saves, and
\* dispatchMessage then relays).
WriteAhead ==
  /\ \A r \in Replica : \A m \in Range(log[r]) \cup Range(disk[r]) :
       OnFile(m) \/ m \in unsaved
  /\ \A c \in late : c.message # None => OnFile(c.message)
  /\ \A m \in acked : OnFile(m)

\* No server replays the same log message twice: a relay never brings what an
\* introduction has already brought, nor the other way round.
NoDuplicates == \A r \in Replica : IsInjective(log[r])

\* As long as nothing has failed, no server that holds a message of an originator
\* lacks an earlier one of it.  The cutoff of an introduction is the newest
\* timestamp, so a gap below it would never be filled.
NoGaps ==
  faults = 0 =>
    \A r \in Replica : \A m \in Range(log[r]) :
      \A n \in 1 .. m.seq - 1 :
        \E earlier \in Range(log[r]) : earlier.orig = m.orig /\ earlier.seq = n

\* Once an operation has returned, every server that serves clients has its
\* log message (docs/SERVER_SPEC.md:61).
AckedEverywhere ==
  \A r \in Replica : Serving(r) => acked \subseteq Range(log[r])

\* Nothing has failed, and no message has come to a server that could not replay it.
Undisturbed == faults = 0 /\ refused = {}

\* The same, as long as nothing has failed and no replay has thrown: whatever order
\* the servers start in, and whoever is in the middle of an introduction or a relay.
AckedUnlessFault == Undisturbed => AckedEverywhere

\* Servers that serve clients relay to each other, unless the replay of a message
\* has thrown somewhere (docs/SERVER_SPEC.md:57: "Each replica is aware of all other
\* active replicas").
Mesh ==
  refused = {} =>
    \A r, p \in Replica : Serving(r) /\ Serving(p) /\ r # p => p \in live[r]

\* The files of the servers implement the abstract replicated log.
stored == [r \in Replica |-> Range(disk[r])]

Abstract == INSTANCE ReplicatedLog
  WITH Replica <- Replica, Entry <- Entry, stored <- stored, failed <- unsaved

\* Whatever crashes, is lost, throws or comes late, a step of the system issues a
\* new message at its originator, fails to, copies messages that were issued, or
\* whose issue failed, to the file of another server, or leaves all files alone
\* (docs/SERVER_SPEC.md:47 and :61).
ImplementsReplicatedLog == Abstract!Spec

\* A relay under way returns to the client or ends with its process
\* (docs/SERVER_SPEC.md:57: the request is complete once the log message has
\* "either been delivered to all servers or failed").
RequestCompletes ==
  \A r \in Replica :
    phase[r] = "relaying" ~> phase[r] \in { "idle", "down" }

\* The servers of which r waits for one, or will once it has dealt with the others.
Awaited(r) ==
  Callees(r) \cup (IF Introducing(r) THEN { Head(queue[r]) } ELSE {})

\* r belongs to a set of servers that only wait for each other, or for one whose
\* two monitors are held by two of its threads.
Deadlocked(r) ==
  \E S \in SUBSET Replica :
    /\ r \in S
    /\ \A p \in S : \/ phase[p] = "stuck"
                    \/ Awaited(p) # {} /\ Awaited(p) \subseteq S

\* Whatever crashes or is lost, an introduction or a dispatch returns, or ends with
\* its process, unless its server is in a deadlock of monitors: nothing else (a
\* server that is down, a lost answer, a reboot in the middle of a call) holds one
\* up for ever (the catch clause of relayMessage, ReplicationService.java:102-109).
HangsOnlyInDeadlock ==
  \A r \in Replica :
    phase[r] \in DispatchPhases \cup CallPhases ~>
      \/ phase[r] \in { "booted", "idle", "down" }
      \/ Deadlocked(r)

\* As long as nothing has failed and no replay has thrown, servers between which
\* nothing is under way hold the same messages.
Quiet == \A r \in Replica : phase[r] \in { "down", "idle" }

Converged ==
  Undisturbed /\ Quiet =>
    \A r, p \in Replica :
      Serving(r) /\ Serving(p) => Range(log[r]) = Range(log[p])

=============================================================================
