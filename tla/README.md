# A verification of the replicated chat servers

TLA+ models of the chat system in `src/`: Java servers that keep a log of every
change, replay it into an in-memory database, append it to a file and relay it to
each other, and a Python client.  The modules are translated from the source; the
configurations check them with TLC on small instances; the `*Proofs` modules hold
theorems that TLAPS checks for every value of the constants.

## 1. The system

| Part | Source | State | Operations | Talks to |
|---|---|---|---|---|
| Database | `logic/Database.java`, `data/Data.java` | four maps: accounts, usernames, chat messages, unread ids by recipient | create, look up, mark as read, delete; all synchronized | called by LogReplay (writes) and OperationHandler (reads) |
| Log replay | `logic/LogReplay.java` | the log in memory, the file, two id counters | take an id; replay, save and dispatch a log message; cutoffs and newer messages; rebuild from the file; all synchronized | Database, ReplicationService |
| Replication | `logic/ReplicationService.java` | `liveReplicas` | relay a message to every live replica; handle relays and introductions; introduce itself; all synchronized | the same service of the other servers, by blocking calls without deadlines |
| Operations | `logic/OperationHandler.java`, `App.java` | none of its own (session keys are JWTs) | create account, log in, list accounts, send, request and delete messages, delete account, list replicas, each on a gRPC thread | Database, LogReplay, ReplicationService |
| Startup | `App.java` 58-82 | | replay the file, serve replication, introduce, serve clients | all of the above |
| Client network | `client/network.py` | server list, current server, channel and stub, session key, a lock, a polling thread | the eight operations with failover and retries, polling, replica discovery | the servers; callbacks into the user interface |
| User interface | `client/ui.py` | pages, the messages shown, the selection, the list of servers | login flow, user pages, message pages, send, delete | client network |
| Configuration, byte counters, wire formats | `Configuration.java`, `config.py`, `client.py`, `BytesTrackingInterceptor.py`, `*.proto`, `client/proto/` | | | |

What makes it hard, and what makes each part correct:

* **Replication.** Relays and introductions interleave between servers; the loop
  of `relayMessage` goes over a copy of `liveReplicas`; the cutoff of an
  introduction is one timestamp per originator, which stands for the whole past of
  that originator; the receiver of a backlog applies it kind by kind; monitors are
  held across remote calls; servers crash and come back with their file only;
  connections break before or after the handler has run, and a handler may run
  after its caller gave up; a message may overtake another on its way to a third
  server, whose replay of it then throws.  *Correct* means: no message is lost once
  others have it, no gap, no duplicate, everyone knows everyone, whoever serves clients
  has what was acknowledged, and a request ends.
* **Log replay and database.** Log, file and tables change in separate steps;
  `replayMessage` may throw half-way; counters are rebuilt from the file.
  *Correct* means: the file can be replayed and gives what the running server has,
  ids and usernames are never reused, the unread lists agree with the messages.
* **Operations.** Checks, ids and dispatches are separate synchronized calls with
  other threads in between.  *Correct* means: a message is handed out once, and is
  marked as read only when it is handed out.
* **Client.** Two threads, a lock that does not cover everything, retries of calls
  that are not idempotent.  *Correct* means: a failover reaches a live server, and
  a request has its effect once.
* **User interface.** One event loop, a thread for every operation, a polling thread,
  and dialogs that keep a handler waiting while callbacks go on.  *Correct* means: the
  windows show what the client has, what a handler acts on after a wait is what it was
  called for, and no message that was handed out is lost.

## 2. Modules

| Module | Models |
|---|---|
| `LogSync` | cutoffs, the newer messages and the order a backlog is applied in, as functions of two logs |
| `Replication` | servers, relays, introductions, crashes and files; EXTENDS `LogSync` |
| `ReplicatedLog` | what the files of all servers promise together (the abstract specification of `Replication`) |
| `Database` | the tables and their methods, as operators from a database to an outcome |
| `LogReplay` | replay of a log message, id counters, rebuild from the file; EXTENDS `Database` |
| `ChatServer` | one server with its worker threads and clients; EXTENDS `LogReplay` |
| `ChatClient` | the client's network layer with its threads, and the servers as it sees them |
| `AccountPages` | `listAccounts` of the server and the slices of its lists that the client shows |
| `ClientUI` | the user interface: event loop, callbacks, dialogs and background threads; EXTENDS `AccountPages` |
| `MCReplication`, `MCChatServer`, `MCChatClient`, `MCClientUI` | symmetry and values for TLC |
| `ReplicationProofs`, `FaultlessProofs` | theorems about `LogSync` and `Replication`: what holds through all faults; what holds until one |
| `FoldProofs` | lemmas about loops over sequences, instantiated with the body of a loop and what is to be known of it |
| `ChatServerProofs`, `OneThreadProofs` | theorems about `ChatServer`, `LogReplay` and `Database`: for any number of threads; for one |
| `ChatClientProofs` | theorems about `ChatClient` |
| `ClientUIProofs`, `ClientDataProofs` | theorems about `ClientUI` and `AccountPages`: types, dialogs and windows; messages, pages and users |

### Replication

State and code:

| Variable | Code |
|---|---|
| `phase[r]`, `todo`, `target`, `queue`, `current` | the process of `r` and the call stack of the thread in `introduce` or `relayMessage`: the rest of the loop's copy, the replica that answered `needsResync`, `introductionPoints`, the message |
| `waits[r]` | the server in which the handler of the call of `r` and a dispatch hold one monitor each |
| `log[r]`, `disk[r]` | `LogReplay.messages` and `dbFile` |
| `live[r]` | the keys of `liveReplicas` |
| `late` | calls whose caller gave up and whose handler still waits for the callee's monitor |
| `clock`, `issued`, `acked`, `faults` | the clock of `r`; history and bounds |
| `unsaved`, `refused` | history: the messages whose dispatch failed at its save; those whose replay threw at another server |

Actions: `Boot`, `StartIntroductions` (App 58-66), `Introduced`,
`IntroductionFails`, `IntroductionUnanswered`, `IntroductionRefused`,
`AnswerHalfApplied` (one turn of the loop of `introduce`), `Dispatch`,
`DispatchFails`, `EnterRelay`, `Relayed`, `NeedsResync`, `RelayFails`,
`RelayRefused`, `RelayUnanswered`, `Finish` (`dispatchMessage` and the loop of
`relayMessage`), `LateCall`, `CallSticks`, `LateCallSticks`, `Crash`.

`receiveMessage` replays, which may throw, and then saves, which may fail.  A replay
that throws (`IntroductionRefused`, `RelayRefused`) leaves no trace at the callee, and
its caller drops the callee from `liveReplicas`: this needs no fault.  A save that fails
(`DispatchFails`, `AnswerHalfApplied`, the second half of `RelayThrows`, with the fault
`"save"`) leaves the message in the log, where introductions find it, and not on the
file; if it is that of a dispatch the operation fails and nothing is relayed.

The monitors: a dispatch has that of LogReplay from `Dispatch` on and takes that of
ReplicationService with `EnterRelay`; in between the server is `dispatching`.  A
handler that arrives then takes the second one, and needs the first if it replays a
message or answers an introduction: the server is `stuck`, no thread of it can go on,
and `CallSticks` records in `waits` who is held up by it.  Only a handler that answers
`needsResync` gets through (`Admits`).

Abstractions, and why they are sound:

* A remote call is one step.  The caller holds its monitor from before the call
  until it has used the answer and the handler holds the callee's, so nobody sees
  a state in between; the callee must be `Free`, that is in no call of its own.
  A callee that crashes between handler and answer is `RelayUnanswered` or
  `IntroductionUnanswered` followed by `Crash`.
* `Dispatch` replays and saves in one step, under the monitor of LogReplay, and so does
  `DispatchFails`, which cannot save.
* `handleRelay` and `handleIntroduction` are one step also with respect to the
  monitor of LogReplay: they take it once.
* A message is its originator, number, timestamp, kind, and the chat messages it marks
  as read, each named by its originator and number.  What a replay does to a database is
  the subject of `LogReplay`; here it matters whether it throws.  It must for a mark of a
  chat message the server does not have (`MustThrow`).  Which messages a deletion is
  about is left open, so after one a replay may throw or not (`MayThrow`).  A replay that
  throws is taken to leave the tables as they were; `ChatServer` has those that do not.
* An id names one chat message: ids that are given twice are the subject of `ChatServer`.
* A file that cannot be replayed keeps its server down (`Boot`).
* The seed is the one server without an introduction point and all others name it,
  as the repository's README tells users to configure.

### ChatServer

`memory` is the state of LogReplay and Database, `disk` the file, `thread[w]` the
call a gRPC thread handles: its stage (`numbering` before it has an id,
`dispatch` before `dispatchMessage`, `saving` inside it, `answering` after it) and
its log message.  `sessions` are the accounts a client has a key for: JWTs do not
expire, so they are never taken back, also not when the account is deleted.

A step is what a thread does between two synchronized methods.  Reads that follow
one another without a write that could tell them apart are merged: sender and
recipient in `sendMessage`; the page and the usernames in `requestMessages`; the
permissions in `deleteMessages`.  A call that is refused or throws before its
dispatch changes nothing and is no step.  `deleteMessages` takes one or two ids,
possibly the same twice.  The server is alone: `relayMessage` has nobody to call.
Timestamps, texts and password hashes are left out; chat messages are numbered by
the call that sent them, so that a reused id can be told from its predecessor.
Not modelled: a write that stops in the middle of a log message.

### ChatClient

`thread[t]` is where a thread of the client is and the request it makes: `lock`
(request built, waiting), `attempt`, `try`/`probe`/`ask`/`heard` (inside
`connect_to_server` and `update_available_replicas`), `returned` or `gaveUp`
(`request_with_failover` has ended, the operation has not).  `bound` is the server
whose stub the request function belongs to: `self.stub.Login` is evaluated before the
call of `request_with_failover`.  A thread without the lock is in `ask` or `heard`
when it polls, refreshes the list, or runs the constructor (`op = "init"`).
`Report` is what each operation makes of a missing response.

A step is a remote call, or an access to a field other threads write: the remote
call of `update_available_replicas` and its later use of `current_server` are two.
A server that runs answers, with a result, with a no (`MaySayNo`: an account that is not
known, or a name that is taken, also by an earlier attempt of the same request) or with
an error (`Refused`, any handler that throws; gRPC raises the same exception for it);
`Unsaved` is a handler that throws after the request was carried out, because its save
failed.  A connection may break on either side of the handler.  The client may start
while no server is up; `found` records whether its constructor has connected.  `Start` summarises the introductions that `Replication` has
in detail.  Left out: pauses, password hashing, and what `ClientUI` has, callbacks
and `last_offset_timestamp`;
`start_polling_messages` tests and sets `running` in one step, so two logins at once
start one polling thread here; after `Disconnect` the process ends.

### ClientUI

| Variable | Code |
|---|---|
| `pending` | the callbacks that threads have queued with `root.after(0, ...)` |
| `dialogs` | the handlers that wait in `messagebox`, each with what it does afterwards; callbacks go on meanwhile in the nested loop of the dialog |
| `work` | the operations under way, one thread each: `lookup_username_async`, `handle_credentials`, `fetch_users` (`fetch`, then `list` once it has read the search text), `process_send_message`, `process_delete_messages`, `delete_account`, `refresh`, and the timer of 100 ms |
| `screen`, `entry`, `prompt` | which of the three screens is shown, `username_entry`, and what the button under the password does |
| `draft`, `popup` | `new_msg_window`, with a number to tell it from another and whether its message was sent; the content of `server_listbox` |
| `messages`, `unread`, `page`, `boxes`, `selected`, `nav` | `all_messages`, `unread_count`, `current_msg_page`, the checkboxes, `message_selection`, the state of the two page buttons |
| `sized`, `drawn` | `message_wrap_length` exists; the last `update_messages` did not raise for want of it |
| `users`, `userPage`, `search`, `previous`, `offset` | `all_users`, `current_user_page`, `user_search`, `prev_search`, `last_offset_timestamp` |
| `accounts`, `gone`, `arrived`, `handed`, `orphans`, `servers` | the server: the accounts that were created and those of them that were deleted; how many messages the user was sent, how many of them are marked as read, and those that are unread with their sender gone |
| `prefix`, `username`, `session`, `polling` | the fields of the network client that matter here |
| `asked`, `lost`, `late`, `meanwhile`, `clicks`, `faults` | history and bounds: the messages the user has asked to delete, those whose answer was lost after they were marked, the accounts that became known after a younger one was listed |

There is one action per gesture, callback, dialog and end of a background thread; they
have the names of the methods.  `Draws` is the drawing half of `update_messages`,
which five handlers end with.  A message is its place in the order in which the server
has them, an account a number with a timestamp (`Stamp`), a list of servers its version.
Accounts become known in any order, whatever their timestamps (`Others`): `createdAt` is
read before the dispatch, and other servers have clocks of their own and relay late.  A
poll may mark messages as read and get no answer (`HandsOut`); when the sender of an
unread message deletes its account (`OthersLeave`) the polls throw from then on.

Abstractions: what the network layer does inside an operation is the subject of
`ChatClient`; here an operation ends with its result or, without an answer, raises
(`Raises`) or reports failure.  Colours, focus, geometry and texts are left out; so is
what the list of users shows of the page (the slice is that of messages).  The windows
cannot be closed by the window manager, and a screen gets no gesture while a dialog is
open, as `messagebox` grabs the input.  All servers that the client talks to are taken to
have the same accounts and messages: a failover to one that lacks some is not modelled.
Others do not delete the accounts of the user (`Name`), and the user's own deletion is
not entered in `gone`, as nothing is asked for without a session.  Accounts of one
millisecond are listed in any order, that of a hash map (`Listings`).  Messages that come while the user is logged in
arrive together with the turn of the polling thread that finds them (`PollNew`): the
interface cannot tell the difference.

Several handlers act on what is there when the result of an operation comes, not on
what was there when it was started.  `meanwhile` records the gestures that a user makes
in that time without waiting (`Hastes`); the properties that the code keeps only for a
user who does wait name the one gesture that breaks them, and section 3 says how.

## 3. Runs

`*` marks the runs that show a disagreement between code and documentation.

| Run | Instance | Checks |
|---|---|---|
| `rep_reliable` | 3 servers, 2 of them write, chat messages and marks, 2 each; 1 crash of a server other than the seed | `NoGaps` until the crash; while no replay has thrown, `Mesh`, and until the crash `AckedUnlessFault` and `Converged` |
| `rep_faults` | 3 servers, 1 writes 2 messages of 2 kinds, any 2 faults of all seven kinds | `TypeOK`, `WriteAhead`, `ImplementsReplicatedLog`, `HangsOnlyInDeadlock` |
| `rep_pair` | 2 servers, both write 2 messages, any 3 faults except late handlers and equal timestamps | `NoDuplicates`, `HangsOnlyInDeadlock` |
| `chat_sequential` | 1 thread, 3 usernames, 5 calls of any kind, 1 crash, 1 failed write | `TypeOK`, `UsernamesUnique`; until a write fails `IdsUnique`, `UnreadIndexAgrees`, `Restartable`, `DeliveredOnce`; until any fault `ReadIsDelivered` |
| `chat_concurrent` | 2 threads, 4 calls that create, send and request, 1 crash | `RestartInvisible` |
| `client_requests` | 1 thread of the user and the polling thread, 2 servers of which 1 starts later, 2 attempts, 2 calls, 1 crash, broken connection or failed save | `TypeOK`, `ReportsTruth`, `RequestEnds`; until the fault, if the constructor found a server, `ListIsOfCurrent` |
| `client_ui` | 5 gestures, at most 2 of them before the chat screen, 2 things that come from outside (messages, accounts, deletions of accounts, changes of servers, lost answers); pages of 1 message and 1 user; 4 accounts of which 2 exist at first, one is older than an account that is known before it and two share a millisecond | `TypeOK`, `MessagesKept`, `MessagesInOrder`, `ShownIsPage`, `PageInRange`, `ListedOnce`, `PopupCurrent`, `PromptOfLookup`, `DraftKept`, `MessagesArrive` |
| `rep_mutual_relay` * | 2 servers that both write | `RequestCompletes` fails |
| `rep_relay_to_booted` * | 3 servers, 1 writes, 1 crash | `AckedEverywhere` fails |
| `chat_id_reuse` * | 2 threads that send | `IdsUnique` fails |
| `chat_cannot_restart` * | 2 threads, all operations | `Restartable` fails |
| `client_failover` * | 1 login, 2 servers, 5 attempts, 1 crash | `FailoverReaches` fails |

Bounds.  Three servers are the least with a seed, a newcomer and a third party that
both know; a gap needs two messages of one originator; two faults are a crash and
something that meets the restart.  Five calls are two or three messages, a request
and a deletion, in any order with two registered users; two threads are the least
that race.  The client's two threads race on the lock, the list and the stub; two attempts
with two rounds of connecting each exercise both nested loops.  In the user interface,
two gestures lead to the chat screen and three remain, which are two pages and a
deletion, or a deletion and a gesture while it is under way; with one message and one
user to a page two messages, or two accounts, make two pages.  Deadlock checking is
off: a bounded model stops when its bounds are used up.

Fairness (`FairSpec`).  `SF_vars(Progress(r))` for every server: its threads are
scheduled and an answer that was sent arrives.  Strong rather than weak fairness makes
a difference only for a caller whose callee is rebooted again and again: a real call
fails with the process it waits in, while the step of the model is enabled at some
moments of each round only.  Nothing is assumed of faults, of restarts (`Boot`) or of
clients (`Dispatch`).  There is no deadline on a call in the code, and none in the
model.  For the client (`ChatClient!FairSpec`): weak fairness of
what a thread does on its own, which includes that a running server answers, and
strong fairness of taking the lock.  `threading.Lock` promises no order, but the
polling thread pauses for seconds between two requests, so a waiting thread gets
the lock.  Nothing is assumed of faults, of servers that start, or of the user.  For the
user interface: weak fairness of the event loop, and of a turn of the polling thread in
which the server marks what it reads: not all requests for messages fail before that.
Whether their answers come is left open, and the user may leave any dialog open for ever.

What the five violations show:

* `rep_mutual_relay`: both servers hold their monitor in `relayMessage` and wait
  for the other's `handleRelay`; nothing ever ends the call.
  One server that dispatches is enough for the other deadlock, that of its own two
  monitors, when a relay or an introduction arrives at the wrong moment; these are
  the two ways to hang, and `HangsOnlyInDeadlock` says that there is no third.
* `rep_relay_to_booted`: a server that restarted answers relays before its own
  introduction has fetched what it missed.  The relayed message raises the cutoff
  of its originator, so the missed one is never sent.
* `chat_id_reuse`: thread 1 takes id 1, thread 2 takes id 2 and dispatches it,
  thread 1 dispatches id 1, which sets the counter back to 2.
* `chat_cannot_restart`: `markMessagesRead` throws after it set `read`; memory and
  file differ from then on, and a deletion that memory accepts cannot be replayed.
* `client_failover`: the failover connects to the running server, but every attempt
  calls the method of the old stub.  The next operation of the user works.

The same models show more when their constants are changed; these are the limits
of the passing runs, and the reason for their constants:

| Change | What fails, and how |
|---|---|
| `rep_reliable`, `Faults = {}`, property `NoDuplicates` | without any fault, a server that joins during a relay gets the message in its backlog and by the relay |
| `rep_reliable`, `Faults = {}`, `MaxIssued = 1`, property `AckedEverywhere` | without any fault, a server reads a message that was relayed to it and relays its mark to a third server before the message comes there: the replay of the mark throws, and the third server, which serves, does not have an operation that was acknowledged |
| the same, `Mesh` without `refused = {}` | the third server, which is up and in reach, is dropped by the one whose mark it could not replay, and stays so until it is started again or relays a message of its own, which makes it introduce itself |
| `rep_reliable`, `Converged` also after the crash | an introduction only pulls: what a restarted server alone has, and what was sent while it was dropped, is not exchanged |
| `rep_reliable`, `Faults = {"seedCrash"}` | the seed introduces itself to nobody after a restart: `Mesh` |
| `rep_reliable`, `MaxFaults = 2`, `MaxIssued = 1` | of two servers that restart at once one may be in the other's `liveReplicas` already and is not introduced to: `Mesh` |
| `rep_reliable`, `Faults = {"applyCrash"}`, `Kinds = {"NEW_ACCOUNT", "NEW_CHAT_MESSAGE"}`, property `AckedEverywhere` | half a backlog, in the order of its kinds, raises the cutoff over messages that are missing |
| `rep_reliable`, `Faults = {"sameMs"}`, `Kinds = {"NEW_CHAT_MESSAGE"}`, property `AckedEverywhere` | the second message of a millisecond is not newer than the first and misses in a backlog |
| `rep_pair`, `"late"` in `Faults` | a handler that runs after the introduction has already brought its message: `NoDuplicates` |
| `chat_sequential`, property `RestartInvisible` | a deletion of two ids that throws at the second has removed the first from memory only |
| `chat_sequential`, `Restartable` and `IdsUnique` also after a failed write | a message that could not be written is delivered and its mark is: the file cannot be replayed; the gap in the ids makes a restarted server reuse them |
| `chat_sequential`, `DeliveredOnce` also after a failed write, 6 calls | a message that could not be written is in the unread list of its recipient; after a restart its id is given to a message for somebody else: one message is in two lists and is handed out twice |
| `chat_sequential`, two threads | two requests hand out the same page; a page deleted before it is marked is lost; two threads create one username (which `docs/SERVER_SPEC.md` admits) |
| `client_requests`, `ReportsTruth` of deletions | `delete_message` and `delete_account` report success whatever came back, and the latter drops the session key |
| `client_requests`, `ListIsOfCurrent` without `found` | if the constructor finds no server, `current_server` stays None while the stub is that of the last server tried, and the next update of the list puts None at its head |
| `client_requests`, `ListIsOfCurrent` also after a fault | a discovery that meets a failover lists one server twice and another not at all |
| `client_ui`, `MessagesKept` also when a message is ticked during a deletion, `MaxMsg = 2` | the handler removes what is selected when its dialog is closed: a message the user ticked meanwhile goes from the list, not from the server |
| `client_ui`, `PromptOfLookup` also when the name is edited during the lookup | the password of one account is asked for because another one exists, and is hashed with the other's prefix |
| `client_ui`, `DraftKept` also when a window is opened during a send | the new window is destroyed, with its text, in place of the one whose message was sent |
| `client_ui`, `ListedOnce` also when pages are loaded at once | both threads read the same offset: the page is listed twice |
| `client_ui`, `ListedOnce` with `Stamp[a] <= OffsetAfter(users) => a \in Range(users)` as its last line | an account of the millisecond in which a page ends is never listed |
| `client_ui`, `ListedOnce` without `late` | an account that becomes known after a younger one was listed is never listed: its timestamp is below the offset |
| `client_ui`, `MessagesArrive` without `orphans` | a sender of an unread message deletes its account: every later request for the inbox throws |
| `client_ui`, `PageInRange` also after two logins at once, `MaxLogins = 3` | the second result lowers `unread_count` under the page that is shown |
| `client_ui`, `ShownIsPage` without `drawn` | before the first `<Configure>` event the drawing stops after one checkbox, whose message can be selected but not read |
| `rep_faults` with crashes only and `MaxIssued = 1`, `WF_vars` in place of `SF_vars` | a relay is passed over by a server that is booted and exits again for ever, because its introduction point is down |

The second and the third row show what three servers can do without any fault.  The
passing runs therefore state `Mesh`, `AckedUnlessFault` and `Converged` of behaviours in
which no replay has thrown, while `NoGaps`, and all of `rep_faults` and `rep_pair`, go
through replays that throw.

## 4. Proofs

All theorems hold for every value of the bounds: those about replication for every
finite set of servers and every subset of the faults, from `ConstantsAssumption` and
`NoneIsNoEntry`; those about a chat server for every set of threads, usernames, members
and operations and every page size, from `ServerAssumption` and `NoneAssumption`; those
about the client for every set of servers, threads, accounts and operations, from
`ClientAssumption`, `PagesAssumption` and `UIAssumption`.  The runs evaluate these
assumptions.  Where a theorem has a hypothesis of its own, it is named here, and
section 3 says what fails without it.

### Replication

* `ReplicationProofs!BacklogIsSelection`: a backlog is a rearrangement of the selected
  messages, each once, by kind and within a kind in the sender's order.  It rests on
  `PlaceIsBijection`: counting predecessors numbers the positions 1 to n.
* `ReplicationProofs!BacklogIsNew`: a backlog holds nothing the caller has and nothing
  twice, since all that the caller has of an originator is at or below its cutoff
  (`CutoffIsLatest`).
* `ReplicationProofs!TypeCorrect`: `Spec => []TypeOK`.  `TypeOK` is inductive: its
  part `CallStack` ties `phase` to `queue`, `target` and `current`, and that is what
  makes `Head(queue[r])` and `current[r]` defined where the actions use them.
* `ReplicationProofs!FileStep`: every step either *copies* messages that some log,
  file or call already holds to at most one file, or *issues* one message of one
  server or *fails* to.  The next two theorems follow from it and need no further case
  analysis of `Next`.
* `ReplicationProofs!WriteAheadHolds`: `Spec => []WriteAhead`.  `WriteAhead` alone is
  not inductive: a relay takes its message from `current`, which it does not
  mention.  The invariant is `IInv`: `TypeOK`; every message in a log or on a file is on
  the file of its originator or in `unsaved` (`Recoverable`), and one that a thread or a
  forgotten call holds, or that was acknowledged, is on that file (`Sent`); and none has
  a number above the count of its originator (`Numbered`).
* `ReplicationProofs!ImplementsAbstractLog`: if every server has a file,
  `Spec => ImplementsReplicatedLog`, with `stored[r]` the set of messages on the
  file of `r` and `failed` the messages in `unsaved`.  A copy maps to `Deliver` (by
  `Recoverable`), an issue to `Issue` and a failure to `FailToIssue` (by `Numbered`),
  everything else to a stutter.
* `ReplicationProofs!NoDuplicatesHolds`: `Spec => []NoDuplicates`, for two servers and
  no late handlers, through all other faults and replays that throw.  An introduction brings nothing twice by
  `BacklogIsNew`; `Unsent` says that a message under way is not in the log of a server
  it is still to be relayed to, which holds because the relaying server holds its
  monitor and so answers no introduction (`Targets`); and a log is never behind its
  file (`Stored`).
* `FaultlessProofs!MeshHolds`: `Mesh` as long as nothing has failed (`Mesh` itself speaks
  of behaviours in which no replay has thrown).  All of `FaultlessProofs` is about such
  behaviours, `Undisturbed`; `FaultlessStep` says which nine actions they consist of, and
  that a step which disturbs leaves a trace in `faults` or `refused`.  The invariant says
  that servers know each other mutually (`Links`), that whoever knows anybody knows the
  seed (`Joining`), and that of two servers the seed knows one knows the other or has
  its introduction queued (`Pairs`); `Calm` excludes the ways out of order.  Through a
  crash, `Mesh` is checked for three servers and proved for none.
* `FaultlessProofs!NoGapsHolds`, `AckedUnlessFaultHolds`, `ConvergedHolds`, if no replay
  has thrown and timestamps are distinct (`"sameMs"` is not among the faults: a cutoff can fall between
  two messages of one millisecond).  The first is `Contiguous`, which a relay keeps because
  the servers an originator knows have all its messages but the one under way (`Spread`),
  and an introduction because timestamps are numbers here (`Known`).  The other
  two combine `Spread` with `Mesh`: whoever serves is known to every originator.

### One chat server

The loops of the Java code are folds over sequences.  `FoldProofs!FoldAppend` (one more
element is one more turn), `FoldFirst` (one more in front is one more first turn) and
`FoldKeeps` (what each turn keeps holds after the loop) are proved once, by the least
counterexample, for an arbitrary body and predicate; `MarkLoop`, `DeleteLoop` and
`RebuiltTyped` are instances, and `Keeping` and `Joining` in the proofs about the client.
`DeleteLoop` says exactly when the loop of DELETE_MESSAGES throws and what it has removed
by then.

* `ChatServerProofs!TypeCorrect`: `Spec => []TypeOK`, for any number of threads; every
  file that can arise is replayed to tables, counters and a log of their types, and only
  the thread whose message was replayed last is inside `dispatchMessage`.
* `ChatServerProofs!RestartInvisibleHolds`: `Spec => []RestartInvisible`, for any number
  of threads, if nothing is deleted (`Additive`).  The invariant `Mirror` says of a thread
  inside `dispatchMessage` that the file *with* its message replays to what memory holds,
  and of one before it that its message will not throw.  With deletions the property is
  false, as section 3 says, and so the run leaves them out as well.

`OneThreadProofs` is about a server with one thread (`Alone`), that is about calls that
are handled one after the other.  All its properties but one hold until a write fails.

* `UsernamesUniqueHolds`: `Named` says that memory, and the file if it can be replayed,
  claim every username on disk, and that a name a call is about to register is not on
  disk; this needs nothing of failed writes.
* `IdsUniqueHolds`, `UnreadIndexAgreesHolds`, `RestartableHolds`: from the invariant
  `Track`, which relates memory to `File`, the replay of the file.  They differ, since a
  deletion that throws half-way removes messages from memory only; but memory is always
  `Smaller` (the same tables with fewer messages), so a message that memory accepts is
  accepted by the file too (`DispatchReady`).  `Sound` says that the counters of the file
  are beyond every id in use and the unread lists in step, `Follows` how far memory and
  its counters are ahead while a call is under way.
* `DeliveredOnceHolds`, `ReadIsDeliveredHolds`: from `Told`.  Every chat message has the
  number of its call; one that is unread in the file has not been answered, and what a
  call is about to answer was unread when the call looked and is read in the file when
  it answers.

### The client

* `ChatClientProofs!TypeCorrect` and `ReportsTruthHolds`: `Spec => []TypeOK` and
  `Spec => []ReportsTruth`, for any number of threads and servers.  The invariant
  `ClientInv` adds that the lock is held exactly through the attempts of a request
  (`Fits`), that the constructor runs alone, and that a request is carried out at most
  once for every fault so far, and once more when it comes back with success (`Counted`).
* `ChatClientProofs!ListIsOfCurrentHolds`: `Spec => []ListIsOfCurrent`.  While nothing
  fails, either the constructor ended without a server (`Unlinked`), of which nothing is
  said, or the stub talks to the current server, which runs (`Linked`), a connection
  begins with it, and what a thread has heard from it does not name it (`Connects`).
* `ClientUIProofs!PromptOfLookupHolds`: `Spec => []PromptOfLookup`, for any number of
  gestures, operations under way and accounts.  The prompt is made from the entry and
  from a callback that may be older, so the invariant is `LookupInv`: lookups under
  way are of the name that is shown, what a queued result has found is still so, and
  an account is created, which replaces the prefix, only where no login is prompted.
  `Unconcerned` says what a step without a part in this leaves alone, and
  `LookupInvStep` treats the actions that do have one.
* `ClientUIProofs!PopupCurrentHolds` and `ShownIsPageHolds`: `Spec => []PopupCurrent`
  and `Spec => []ShownIsPage`.  The first needs only that callbacks are queued and
  served at the two ends of a sequence; the second is inductive by itself, as every
  step that changes the list or the page of a chat screen draws, and a new chat screen
  has not been drawn.
* `ClientUIProofs!TypeCorrect`: `Spec => []TypeOK`, in seven groups of variables
  (`Typed`), each of which is kept on its own by every step from all of them.  `KeepKeeps`
  and `JoinedTyped` say what the list comprehension of a deletion leaves and what the
  callbacks in the queue hold.

`ClientDataProofs` is about what the user interface is handed.  Four of its properties have
an exception for a user who does not wait (`meanwhile`), so its invariants count what is
under way: an operation in its thread, its result in the queue of the event loop, and the
dialog about it.  `Lone` says that there is one of the three at most; `Quiet`, `Gains` and
`Loses` say what a step does to a queue, and `WorkStep`, `PendingStep` and `DialogsStep`
which actions do it, once for all kinds of operations.

* `MessagesInOrderHolds`: the messages in the list and in the queue, `InHand`, change by
  `InHandStep` in five ways only: not at all, by the next messages at the end, to none, by
  a deletion from the list, or not though messages were marked, whose answer was lost
  (`LostOnTheWay`).
* `MessagesKeptHolds`: the invariant `KeptInv` adds that while a deletion is under way the
  selected messages are those the server was asked to delete.
* `PageInRangeHolds`: from `LoginInv`.  A new `unread_count` comes with a login, of which
  there is one at a time, and only at the password screen, where the page is the first.
* `DraftKeptHolds` (an action property): by `DraftInv`, messages are only sent from the
  window that is open, and no result or dialog of a sent message is left while the message
  of that window has not been sent.
* `ListedOnceHolds`: `PagesContinue` says of `ListAccounts` and the offset alone that a
  page continues the list it is asked for, for any set of accounts, any order of those of
  one millisecond and any part `due` of them; `FetchInv` that a page under way was asked
  for the list it is added to, or replaces it.  The accounts that are due are those that
  were not deleted and were known before a younger one was listed (`Due`); an account that
  becomes known is due only if the list, with what is queued for it, has none younger.

### Only model-checked

* Liveness (`HangsOnlyInDeadlock`, `RequestEnds`, `MessagesArrive`): fairness and ENABLED
  are out of the prover's reach.
* `Mesh` after the crash of a server other than the seed, and `NoGaps` after a replay has
  thrown, for three servers.

The prover has no induction theorem over data (the library's take an operator as a
parameter), but the least number of a set gives what is needed of concrete predicates
(`SmallestNumber`), and `FoldProofs` carries that over to loops.

## 5. Not modelled, and what could come next

* `ReplicatedDatabase`: several databases that replay the same log messages in the
  orders `Replication` allows.  `Replication` and `LogReplay` have the two halves; what a
  replay that throws half-way leaves in the tables of another server is in neither.
* A client that fails over to a server which lacks some of its accounts or messages.
* Two polling threads of one client, started by two logins at once.
* Byte counters (`BytesTrackingInterceptor.py`), read by the tests only; configuration
  files, whose values are the constants of the models; generated code
  (`chat_pb2*.py`); the wire formats, which are the records of the models.
