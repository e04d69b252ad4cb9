----------------------------- MODULE ChatServer -----------------------------
(***************************************************************************)
(* One chat server and its clients: OperationHandler.java, the handlers of *)
(* App.java, and the dispatch of LogReplay.java to memory and file.        *)
(*                                                                         *)
(* gRPC runs every call on a worker thread.  A step is what a thread does  *)
(* from one synchronized method to the next.  The monitor of LogReplay is  *)
(* held from the replay of a message to the end of its save (and relay),   *)
(* while the database can be read in between.  There is one server here;   *)
(* relays and backlogs are the subject of Replication.                     *)
(***************************************************************************)
EXTENDS LogReplay

CONSTANTS
  Self,       \* the id of the server
  Worker,     \* the threads that handle calls
  Username,   \* the usernames clients ask for
  Members,    \* the usernames registered before, a sequence
  Operation,  \* the mutating operations clients call
  PageSize,   \* maximum_number of a request for messages
  MaxCalls,   \* bound: calls of mutating operations
  MaxCrashes, \* bound: crashes of the process
  MaxFailed,  \* bound: writes to the file that fail
  None        \* no value

Operations == { "createAccount", "sendMessage", "requestMessages",
                "deleteMessages", "deleteAccount" }

ASSUME ServerAssumption ==
  /\ Members \in Seq(Username) /\ IsInjective(Members)
  /\ Operation \subseteq Operations
  /\ PageSize \in Nat
  /\ MaxCalls \in Nat
  /\ MaxCrashes \in Nat
  /\ MaxFailed \in Nat

VARIABLES
  up,         \* the process runs
  memory,     \* the state of LogReplay
  disk,       \* the log messages in dbFile
  thread,     \* thread[w]: where the call that w handles is
  sessions,   \* the accounts for which a client holds a session key
  deliveries, \* deliveries[t]: responses that carried chat message t (history)
  calls,      \* number of calls so far; it also numbers the chat messages
  crashes,    \* number of crashes so far
  failed      \* number of failed writes so far

vars == << up, memory, disk, thread, sessions, deliveries, calls, crashes,
           failed >>

faults == << crashes, failed >>

\* The message a thread is about to dispatch, and the chat messages it answers
\* the call with.
Idle == [pc |-> "idle", message |-> None, batch |-> {}]

At(pc, m, batch) == [pc |-> pc, message |-> m, batch |-> batch]

\* The log messages that dispatchBuilder makes of the payloads.
NewAccount(id, username) ==
  [orig |-> Self, kind |-> "NEW_ACCOUNT", id |-> id, username |-> username]

NewChatMessage(id, chat) ==
  [orig |-> Self, kind |-> "NEW_CHAT_MESSAGE", id |-> id, chat |-> chat]

MarkAsRead(ids) == [orig |-> Self, kind |-> "MARK_AS_READ", ids |-> ids]

DeleteMessages(ids) == [orig |-> Self, kind |-> "DELETE_MESSAGES", ids |-> ids]

DeletedAccount(id) == [orig |-> Self, kind |-> "DELETE_ACCOUNT", id |-> id]

db == memory.db

\* No thread is inside dispatchMessage.
LogReplayFree == \A w \in Worker : thread[w].pc # "saving"

\* w takes the next call of operation op and goes on as "next".
TakesCall(w, op, next) ==
  /\ up
  /\ op \in Operation
  /\ thread[w] = Idle
  /\ calls < MaxCalls
  /\ calls' = calls + 1
  /\ thread' = [thread EXCEPT ![w] = next]
  /\ UNCHANGED << up, memory, disk, sessions, deliveries, faults >>

-----------------------------------------------------------------------------
\* The operations, up to the dispatch.  A call that is refused, or that throws,
\* changes nothing and is no step.

\* createAccount looks the username up before it takes an id.
CreateAccountCall(w) ==
  \E u \in Username :
    /\ ~ AccountExists(db, u)
    /\ TakesCall(w, "createAccount", At("numbering", NewAccount(None, u), {}))

\* sendMessage looks sender and recipient up.
SendMessageCall(w) ==
  \E sender \in sessions, u \in Username :
    /\ sender \in DOMAIN db.accounts
    /\ HasAccount(db, u)
    /\ db.usernames[u] # sender
    /\ TakesCall(w, "sendMessage",
         At("numbering",
            NewChatMessage(None, [ sender |-> sender,
                                   recipient |-> db.usernames[u],
                                   read |-> FALSE, number |-> calls + 1 ]), {}))

\* Mutant of RequestMessagesCall: everything is marked, one page is answered.
RequestMarksAll(w) ==
  \E user \in sessions :
    LET ids == FirstUnread(db, user, PageSize) IN
    /\ \A id \in Range(ids) :
         id \in DOMAIN db.chats /\ db.chats[id].sender \in DOMAIN db.accounts
    /\ TakesCall(w, "requestMessages",
         At("dispatch", MarkAsRead(Unread(db, user)),
            { db.chats[id].number : id \in Range(ids) }))

\* requestMessages reads a page of unread messages and the usernames of their
\* senders; it throws when a message or the account of a sender is gone.
RequestMessagesCall(w) ==
  \E user \in sessions :
    LET ids == FirstUnread(db, user, PageSize) IN
    /\ \A id \in Range(ids) :
         id \in DOMAIN db.chats /\ db.chats[id].sender \in DOMAIN db.accounts
    /\ TakesCall(w, "requestMessages",
         At("dispatch", MarkAsRead(ids),
            { db.chats[id].number : id \in Range(ids) }))

\* deleteMessages: every message must exist and be one the user sent or got.
DeleteMessagesCall(w) ==
  \E user \in sessions, ids \in SeqOf(DOMAIN db.chats, 2) :
    /\ ids # <<>>
    /\ \A id \in Range(ids) :
         user \in { db.chats[id].recipient, db.chats[id].sender }
    /\ TakesCall(w, "deleteMessages", At("dispatch", DeleteMessages(ids), {}))

\* deleteAccount asks for nothing but a session key.
DeleteAccountCall(w) ==
  \E user \in sessions :
    TakesCall(w, "deleteAccount", At("dispatch", DeletedAccount(user), {}))

\* login changes nothing but what the client knows.
Login ==
  /\ up
  /\ \E u \in Username :
       /\ HasAccount(db, u)
       /\ sessions' = sessions \cup { db.usernames[u] }
  /\ UNCHANGED << up, memory, disk, thread, deliveries, calls, faults >>

-----------------------------------------------------------------------------
\* Ids and dispatch

\* getAccountId and getMessageId.
TakeId(w) ==
  /\ thread[w].pc = "numbering"
  /\ LogReplayFree
  /\ LET m == thread[w].message
         n == IF m.kind = "NEW_ACCOUNT" THEN memory.nextAccount
                                        ELSE memory.nextMessage
     IN  /\ thread' = [thread EXCEPT
                         ![w] = At("dispatch", [m EXCEPT !.id = << Self, n >>], {})]
         /\ memory' = IF m.kind = "NEW_ACCOUNT"
                        THEN [memory EXCEPT !.nextAccount = n + 1]
                        ELSE [memory EXCEPT !.nextMessage = n + 1]
  /\ UNCHANGED << up, disk, sessions, deliveries, calls, faults >>

\* Mutants of Dispatch: a message is saved although its replay threw; the monitor
\* is not taken.
DispatchAnyway(w) ==
  /\ thread[w].pc = "dispatch"
  /\ LogReplayFree
  /\ memory' = Replay(Self, memory, thread[w].message)
  /\ thread' = [thread EXCEPT ![w].pc = "saving"]
  /\ UNCHANGED << up, disk, sessions, deliveries, calls, faults >>

DispatchUnlocked(w) ==
  /\ thread[w].pc = "dispatch"
  /\ memory' = Replay(Self, memory, thread[w].message)
  /\ thread' = [thread EXCEPT ![w] = IF memory'.thrown THEN Idle
                                     ELSE [@ EXCEPT !.pc = "saving"]]
  /\ UNCHANGED << up, disk, sessions, deliveries, calls, faults >>

\* dispatchMessage up to the save: an exception in the replay ends the call.
Dispatch(w) ==
  /\ thread[w].pc = "dispatch"
  /\ LogReplayFree
  /\ memory' = Replay(Self, memory, thread[w].message)
  /\ thread' = [thread EXCEPT ![w] = IF memory'.thrown THEN Idle
                                     ELSE [@ EXCEPT !.pc = "saving"]]
  /\ UNCHANGED << up, disk, sessions, deliveries, calls, faults >>

\* The message is appended to the file.
Save(w) ==
  /\ thread[w].pc = "saving"
  /\ disk' = Append(disk, thread[w].message)
  /\ thread' = [thread EXCEPT ![w].pc = "answering"]
  /\ UNCHANGED << up, memory, sessions, deliveries, calls, faults >>

\* Writing fails: the call ends with an error, the message stays in memory.
SaveFails(w) ==
  /\ thread[w].pc = "saving"
  /\ failed < MaxFailed
  /\ failed' = failed + 1
  /\ thread' = [thread EXCEPT ![w] = Idle]
  /\ UNCHANGED << up, memory, disk, sessions, deliveries, calls, crashes >>

\* Mutant of Answer: the answer does not wait for the save.
AnswerEarly(w) ==
  /\ thread[w].pc \in { "saving", "answering" }
  /\ deliveries' = [ t \in DOMAIN deliveries |->
                       deliveries[t] + IF t \in thread[w].batch THEN 1 ELSE 0 ]
  /\ sessions' = IF thread[w].message.kind = "NEW_ACCOUNT"
                   THEN sessions \cup { thread[w].message.id } ELSE sessions
  /\ thread' = [thread EXCEPT ![w] = Idle]
  /\ UNCHANGED << up, memory, disk, calls, faults >>

\* The client gets its answer: a session key for a new account, or the chat
\* messages it asked for.
Answer(w) ==
  /\ thread[w].pc = "answering"
  /\ deliveries' = [ t \in DOMAIN deliveries |->
                       deliveries[t] + IF t \in thread[w].batch THEN 1 ELSE 0 ]
  /\ sessions' = IF thread[w].message.kind = "NEW_ACCOUNT"
                   THEN sessions \cup { thread[w].message.id } ELSE sessions
  /\ thread' = [thread EXCEPT ![w] = Idle]
  /\ UNCHANGED << up, memory, disk, calls, faults >>

-----------------------------------------------------------------------------
\* The process

Crash ==
  /\ up
  /\ crashes < MaxCrashes
  /\ crashes' = crashes + 1
  /\ up' = FALSE
  /\ memory' = Fresh
  /\ thread' = [w \in Worker |-> Idle]
  /\ UNCHANGED << disk, sessions, deliveries, calls, failed >>

\* The server starts only if the whole file can be replayed.
Start ==
  /\ ~ up
  /\ ~ Rebuilt(Self, disk).thrown
  /\ up' = TRUE
  /\ memory' = Rebuilt(Self, disk)
  /\ UNCHANGED << disk, thread, sessions, deliveries, calls, faults >>

\* The members have registered, and their clients hold session keys.
Init ==
  /\ up = FALSE
  /\ memory = Fresh
  /\ disk = [ i \in DOMAIN Members |->
                NewAccount(<< Self, i >>, Members[i]) ]
  /\ thread = [w \in Worker |-> Idle]
  /\ sessions = { << Self, i >> : i \in DOMAIN Members }
  /\ deliveries = [t \in 1 .. MaxCalls |-> 0]
  /\ calls = 0
  /\ crashes = 0
  /\ failed = 0

Handle(w) ==
  \/ CreateAccountCall(w)
  \/ SendMessageCall(w)
  \/ RequestMessagesCall(w)
  \/ DeleteMessagesCall(w)
  \/ DeleteAccountCall(w)
  \/ TakeId(w)
  \/ Dispatch(w)
  \/ Save(w)
  \/ SaveFails(w)
  \/ Answer(w)

Next == Login \/ Crash \/ Start \/ \E w \in Worker : Handle(w)

Spec == Init /\ [][Next]_vars

-----------------------------------------------------------------------------
\* Properties

\* The log messages on disk that create an account, or a chat message.
Creations(kind) == { i \in DOMAIN disk : disk[i].kind = kind }

Id == {Self} \X (Nat \ {0})

Chat == [sender : Id, recipient : Id, read : BOOLEAN, number : Nat]

\* A message without an id, and one that can be dispatched.
Draft ==
  [orig : {Self}, kind : {"NEW_ACCOUNT"}, id : {None}, username : Username] \cup
  [orig : {Self}, kind : {"NEW_CHAT_MESSAGE"}, id : {None}, chat : Chat]

LogMessage ==
  [orig : {Self}, kind : {"NEW_ACCOUNT"}, id : Id, username : Username] \cup
  [orig : {Self}, kind : {"NEW_CHAT_MESSAGE"}, id : Id, chat : Chat] \cup
  [orig : {Self}, kind : {"MARK_AS_READ", "DELETE_MESSAGES"}, ids : Seq(Id)] \cup
  [orig : {Self}, kind : {"DELETE_ACCOUNT"}, id : Id]

\* No value is not a message.
ASSUME NoneAssumption == None \notin Draft \cup LogMessage

\* Every variable has its type, a thread has a message exactly while it handles a
\* call, an id exactly when it has left the counter, and saves what it replayed
\* last: LogReplay.dispatchMessage is never inside itself.
TypeOK ==
  /\ up \in BOOLEAN
  /\ memory.nextAccount \in Nat /\ memory.nextMessage \in Nat
  /\ memory.messages \in Seq(LogMessage)
  /\ disk \in Seq(LogMessage)
  /\ sessions \subseteq Id
  /\ deliveries \in [1 .. MaxCalls -> Nat]
  /\ calls \in 0 .. MaxCalls
  /\ crashes \in 0 .. MaxCrashes /\ failed \in 0 .. MaxFailed
  /\ \A w \in Worker :
       LET t == thread[w] IN
       /\ t.pc \in { "idle", "numbering", "dispatch", "saving", "answering" }
       /\ t.pc = "idle" <=> t.message = None
       /\ t.pc = "numbering" => t.message \in Draft
       /\ t.pc \in { "dispatch", "answering" } => t.message \in LogMessage
       /\ t.pc = "saving" => memory.messages # <<>> /\ t.message = Last(memory.messages)

\* As long as no write fails, no two accounts and no two messages get the same
\* id, whatever is lost in a crash and whatever is deleted (docs/SERVER_SPEC.md:19
\* "IDs will never be reused").
IdsUnique ==
  failed = 0 =>
    \A kind \in { "NEW_ACCOUNT", "NEW_CHAT_MESSAGE" } :
      \A i, j \in Creations(kind) : disk[i].id = disk[j].id => i = j

\* A username belongs to one account forever, also after that is deleted
\* (Database.deleteAccount: "The username remains claimed").
UsernamesUnique ==
  \A i, j \in Creations("NEW_ACCOUNT") :
    disk[i].username = disk[j].username => i = j

\* As long as no write fails, the unread list of an account is exactly its unread
\* messages, each once: what login counts and requestMessages hands out is what
\* messageMap says.
UnreadIndexAgrees ==
  failed = 0 =>
    \A user \in DOMAIN db.accounts :
      /\ IsInjective(Unread(db, user))
      /\ Range(Unread(db, user)) =
           { id \in DOMAIN db.chats :
               db.chats[id].recipient = user /\ ~ db.chats[id].read }

\* As long as no write fails, no chat message is handed out by two responses
\* (docs/SERVER_SPEC.md:35 "Once a message has been delivered, it is marked as read
\* and will not be redelivered").
DeliveredOnce == failed = 0 => \A t \in DOMAIN deliveries : deliveries[t] <= 1

\* As long as no process dies and no write fails, a message that is marked as read
\* has been handed out, or is in the answer of a call that is being handled.
ReadIsDelivered ==
  faults = << 0, 0 >> =>
    \A id \in DOMAIN db.chats :
      db.chats[id].read =>
        \/ deliveries[db.chats[id].number] > 0
        \/ \E w \in Worker : db.chats[id].number \in thread[w].batch

\* As long as no write fails, the file of the server can be replayed, so that the
\* server can start.
Restartable == failed = 0 => ~ Rebuilt(Self, disk).thrown

\* As long as no write fails, a restart is invisible: whenever no thread is inside
\* dispatchMessage, replaying the file gives the database and the log that the
\* running server has (docs/SERVER_SPEC.md:49).
RestartInvisible ==
  up /\ failed = 0 /\ LogReplayFree =>
    LET s == Rebuilt(Self, disk)
    IN  s.db = db /\ s.messages = memory.messages

=============================================================================
