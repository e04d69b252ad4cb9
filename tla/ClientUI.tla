------------------------------ MODULE ClientUI ------------------------------
(***************************************************************************)
(* The user interface of the client: ChatUI of client/ui.py, on top of the *)
(* operations of client/network.py as ChatClient models them.              *)
(*                                                                         *)
(* One thread runs the event loop of Tk.  It serves the gestures of the    *)
(* user and the callbacks that other threads queue with root.after(0).     *)
(* Every operation on the network runs in a thread of its own and queues   *)
(* its result; a polling thread queues the messages and servers it hears   *)
(* of.  A dialog keeps its handler waiting, and the gestures of the user,  *)
(* but not the callbacks, which go on in a nested loop: what a handler     *)
(* read before its dialog may be gone after it.                            *)
(***************************************************************************)
EXTENDS AccountPages

CONSTANTS
  Name,         \* the accounts of the user, who may log in to them or create them
  FirstUsers,   \* the accounts that exist when the client starts
  MaxMsg,       \* MAX_MSG_TO_DISPLAY
  MaxNews,      \* bound: what comes from outside, that is messages to the user,
                \* accounts created and deleted, changes of the list of servers
                \* and operations that get no answer, together
  MaxClicks,    \* bound: gestures of the user
  MaxLogins,    \* bound: those of them before there is a chat screen
  None          \* no value

ASSUME UIAssumption ==
  /\ FirstUsers \subseteq Account /\ Name \subseteq Account
  /\ "" \in SearchText
  /\ MaxMsg \in Nat \ {0}
  /\ {MaxNews, MaxClicks, MaxLogins} \subseteq Nat
  /\ None \notin Nat \cup [name : Name, login : BOOLEAN]
                     \cup [window : Nat, sent : BOOLEAN]

VARIABLES
  \* the event loop
  pending,   \* the callbacks queued with after(0), first come first served
  dialogs,   \* what the handlers do whose dialog is open, the topmost first
  work,      \* the operations under way, each in a thread of its own
  \* the windows
  screen,    \* "login", "password", "chat" or "closed"
  entry,     \* the text of username_entry, None once the screen is gone
  prompt,    \* what the Login / Create Account button is for, None without one
  draft,     \* new_msg_window: None, or the window and whether its message was sent
  popup,     \* the servers that the last server window shows, None if closed
  \* the messages
  messages,  \* all_messages, by the place in which the server has them
  unread,    \* unread_count
  page,      \* current_msg_page
  boxes,     \* the messages shown with a checkbox, in order
  selected,  \* those whose variable in message_selection is set
  nav,       \* whether the buttons "Older" and "Newer Messages" are enabled
  drawn,     \* the last update_messages did not raise
  sized,     \* on_resize has set message_wrap_length
  \* the users
  users,     \* all_users
  userPage,  \* current_user_page
  search,    \* the text of user_search
  previous,  \* prev_search
  offset,    \* last_offset_timestamp of the client
  \* the network
  accounts,  \* the accounts that were created, as the server knows
  gone,      \* those of them that were deleted
  arrived,   \* the number of messages sent to the user; those of one turn of the
             \* polling thread arrive with it, those before the login at once
  handed,    \* the number of those marked as read
  orphans,   \* unread messages whose sender is gone
  servers,   \* the version of the list of servers
  prefix,    \* the account whose bcrypt prefix the client has
  username,  \* the account the client has logged in as
  session,   \* there is a session key
  polling,   \* the polling thread runs
  \* bounds and history
  clicks,    \* gestures so far
  faults,    \* operations that got no answer
  asked,     \* messages the user has asked to delete
  lost,      \* messages marked as read in a request whose answer did not come
  late,      \* accounts that became known when a younger one had been listed for
             \* the same search
  meanwhile  \* what the user did while an operation of the same kind was under
             \* way, a subset of Hastes

Hastes == { "edit",    \* change the name while it is looked up
            "login",   \* log in again while a login is under way
            "select",  \* tick a message while a deletion is under way
            "open",    \* open a message window while a message is sent
            "fetch" }  \* load users while users are loaded

loop == << pending, dialogs, work >>
login == << screen, entry, prompt >>
display == << page, boxes, selected, nav, drawn >>
pane == << messages, unread, display, sized >>
people == << users, userPage, search, previous, offset >>
registry == << accounts, gone >>
inbox == << arrived, handed, orphans >>
network == << registry, inbox, servers, prefix, username, session, polling >>
past == << asked, lost, late >>
history == << clicks, faults, past, meanwhile >>

vars == << loop, login, draft, popup, pane, people, network, history >>

-----------------------------------------------------------------------------
\* The event loop

Open == screen # "closed"

\* A gesture of the user, who sees no dialog.
Click ==
  /\ Open
  /\ dialogs = <<>>
  /\ clicks < MaxClicks
  /\ clicks' = clicks + 1

\* A gesture on the login or the password screen.
ClickAtLogin(name) ==
  /\ Click
  /\ screen = name
  /\ clicks < MaxLogins

\* A gesture on the chat screen, or on a window it has opened.
ClickInChat ==
  /\ Click
  /\ screen = "chat"

\* A gesture at which the user did not wait for what is under way.
Hasty(kind, underWay) ==
  meanwhile' = IF underWay THEN meanwhile \cup {kind} ELSE meanwhile

\* threading.Thread(target = ...).start()
Start(job) == work' = Append(work, job)

Operation(op) == [op |-> op]

\* root.after(0, callback)
Queued(callback) == Append(pending, callback)

Callback(do) == [do |-> do]

\* The event loop takes the next callback, which is one of the given kind.
Serves(do) ==
  /\ Open
  /\ pending # <<>>
  /\ Head(pending).do = do

\* A dialog on top of those that are open; "rest" is what its handler does next.
Shows(rest) == dialogs' = << rest >> \o dialogs

\* The user closes the topmost dialog, whose handler goes on with "rest".
Closes(rest) ==
  /\ Open
  /\ dialogs # <<>>
  /\ Head(dialogs) = rest
  /\ dialogs' = Tail(dialogs)

\* A thread whose operation is one of the given kind ends.
Ends(i, op) ==
  /\ Open
  /\ i \in DOMAIN work
  /\ work[i].op = op
  /\ work' = RemoveAt(work, i)

\* An operation of the kind, or its result, is still to come.
UnderWay(op, do) ==
  \/ \E i \in DOMAIN work : work[i].op = op
  \/ \E i \in DOMAIN pending : pending[i].do = do

\* How much more may come from outside.
News ==
  MaxNews - (arrived + servers + faults + Cardinality(accounts \ FirstUsers)
             + Cardinality(gone))

NoAnswer == News > 0 /\ faults' = faults + 1

\* The client raises, having got no response, and its thread ends with it.
Raises(i) ==
  /\ \E op \in { "lookup", "login", "create", "send" } : Ends(i, op)
  /\ NoAnswer
  /\ UNCHANGED << pending, dialogs, login, draft, popup, pane, people, network,
                  clicks, past, meanwhile >>

\* A dialog that only informs.
Dismiss ==
  /\ Closes("nothing")
  /\ UNCHANGED << pending, work, login, draft, popup, pane, people, network,
                  history >>

-----------------------------------------------------------------------------
\* Login and account creation

EditName ==
  /\ ClickAtLogin("login")
  /\ entry' \in Name \ {entry}
  /\ Hasty("edit", UnderWay("lookup", "lookup"))
  /\ UNCHANGED << loop, screen, prompt, draft, popup, pane, people, network,
                  faults, past >>

CheckUsername ==
  /\ ClickAtLogin("login")
  /\ Start([op |-> "lookup", name |-> entry])
  /\ UNCHANGED << pending, dialogs, login, draft, popup, pane, people, network,
                  faults, past, meanwhile >>

\* The server answers; the client keeps the bcrypt prefix of an account that
\* exists.
LookupUsername(i) ==
  /\ Ends(i, "lookup")
  /\ LET exists == work[i].name \in accounts \ gone IN
       /\ prefix' = IF exists THEN work[i].name ELSE prefix
       /\ pending' = Queued([do |-> "lookup", exists |-> exists])
  /\ UNCHANGED << dialogs, login, draft, popup, pane, people, registry, inbox,
                  servers, username, session, polling, history >>

\* Mutant of HandleLookupResult: prompt_password is left to its default.
HandleLookupAsLogin ==
  /\ Serves("lookup")
  /\ pending' = Tail(pending)
  /\ IF screen = "login"
       THEN /\ prompt' = [name |-> entry, login |-> TRUE]
            /\ screen' = "password" /\ entry' = None
       ELSE UNCHANGED login
  /\ UNCHANGED << dialogs, work, draft, popup, pane, people, network, history >>

\* The name is read again.  Once the login screen is gone its entry is too, and
\* the handler raises.
HandleLookupResult ==
  /\ Serves("lookup")
  /\ pending' = Tail(pending)
  /\ IF screen = "login"
       THEN /\ prompt' = [name |-> entry, login |-> Head(pending).exists]
            /\ screen' = "password" /\ entry' = None
       ELSE UNCHANGED login
  /\ UNCHANGED << dialogs, work, draft, popup, pane, people, network, history >>

\* Login, or Create Account; an empty password is refused at once.
ProcessCredentials ==
  /\ ClickAtLogin("password")
  /\ \/ /\ Start([op |-> IF prompt.login THEN "login" ELSE "create",
                  name |-> prompt.name])
        /\ Hasty("login", \/ UnderWay("login", "login")
                          \/ UnderWay("create", "create"))
        /\ UNCHANGED dialogs
     \/ /\ Shows("nothing")
        /\ UNCHANGED << work, meanwhile >>
  /\ UNCHANGED << pending, login, draft, popup, pane, people, network, faults,
                  past >>

\* The list of users has an account that is younger than the given one, or is about
\* to have it.
Overtaken(a) ==
  \/ \E b \in Range(users) : Stamp[a] < Stamp[b]
  \/ \E i \in DOMAIN pending :
       /\ pending[i].do = "users"
       /\ \E b \in Range(pending[i].found) : Stamp[a] < Stamp[b]

\* An account is created at the server of the client, or relayed to it.
Appears(a) ==
  /\ accounts' = accounts \cup {a}
  /\ late' = IF a \notin accounts /\ Overtaken(a) THEN late \cup {a} ELSE late

\* The password may be right only with the prefix of the account.
LogIn(i) ==
  /\ Ends(i, "login")
  /\ \/ /\ work[i].name \in accounts \ gone /\ prefix = work[i].name
        /\ username' = work[i].name /\ session' = TRUE /\ polling' = TRUE
        /\ pending' = Queued([do |-> "login", success |-> TRUE,
                              unread |-> arrived - handed])
     \/ /\ pending' = Queued([do |-> "login", success |-> FALSE, unread |-> 0])
        /\ UNCHANGED << username, session, polling >>
  /\ UNCHANGED << dialogs, login, draft, popup, pane, people, registry, inbox,
                  servers, prefix, history >>

\* Mutant of CreateAccount: the client does not start to poll.
CreateUnpolled(i) ==
  /\ Ends(i, "create")
  /\ Appears(work[i].name)
  /\ LET success == work[i].name \notin accounts IN
       /\ username' = IF success THEN work[i].name ELSE username
       /\ session' = (session \/ success)
       /\ pending' = Queued([do |-> "create", success |-> success])
  /\ prefix' = work[i].name
  /\ UNCHANGED << dialogs, login, draft, popup, pane, people, gone, inbox,
                  servers, polling, clicks, faults, asked, lost, meanwhile >>

\* Somebody may have created the account since the lookup.
CreateAccount(i) ==
  /\ Ends(i, "create")
  /\ Appears(work[i].name)
  /\ LET success == work[i].name \notin accounts IN
       /\ username' = IF success THEN work[i].name ELSE username
       /\ session' = (session \/ success)
       /\ polling' = (polling \/ success)
       /\ pending' = Queued([do |-> "create", success |-> success])
  /\ prefix' = work[i].name
  /\ UNCHANGED << dialogs, login, draft, popup, pane, people, gone, inbox,
                  servers, clicks, faults, asked, lost, meanwhile >>

HandleLoginResult ==
  /\ Serves("login")
  /\ pending' = Tail(pending)
  /\ IF Head(pending).success
       THEN unread' = Head(pending).unread /\ Shows("chat")
       ELSE Shows("nothing") /\ UNCHANGED unread
  /\ UNCHANGED << work, login, draft, popup, messages, display, sized, people,
                  network, history >>

HandleAccountCreationResult ==
  /\ Serves("create")
  /\ pending' = Tail(pending)
  /\ Shows(IF Head(pending).success THEN "chat" ELSE "nothing")
  /\ UNCHANGED << work, login, draft, popup, pane, people, network, history >>

-----------------------------------------------------------------------------
\* The chat screen

\* What update_messages draws of the given list, page and unread count.  Without
\* a wrap length it raises at the first message, after its checkbox.
Draws(list, p, n) ==
  LET visible == Slice(list, p, MaxMsg) IN
  /\ page' = p
  /\ selected' = {}
  /\ drawn' = (sized \/ visible = <<>>)
  /\ boxes' = IF drawn' THEN visible ELSE << Head(visible) >>
  /\ nav' = IF drawn'
              THEN [ older |-> p > 0,
                     newer |-> \/ p + 1 < PageCount(Len(list), MaxMsg)
                               \/ Len(list) < n ]
              ELSE nav

\* load_user_list, on the given page.
LoadUserList(p, jobs) ==
  /\ userPage' = p
  /\ work' = Append(jobs, Operation("fetch"))
  /\ Hasty("fetch", UnderWay("fetch", "users") \/ UnderWay("list", "users"))

\* create_chat_screen, after the dialog about the login: all windows and widgets
\* are new, and the messages are drawn later.
CreateChatScreen ==
  /\ Closes("chat")
  /\ screen' = "chat" /\ prompt' = None
  /\ draft' = None /\ popup' = None /\ search' = ""
  /\ boxes' = <<>> /\ drawn' = FALSE
  /\ nav' = [older |-> FALSE, newer |-> Len(messages) > unread]
  /\ LoadUserList(0, work)
  /\ pending' = Queued([do |-> "update", messages |-> <<>>])
  /\ UNCHANGED << entry, messages, unread, page, selected, sized, users, previous,
                  offset, network, clicks, faults, past >>

OnResize ==
  /\ screen = "chat"
  /\ sized' = TRUE
  /\ UNCHANGED << loop, login, draft, popup, messages, unread, display, people,
                  network, history >>

-----------------------------------------------------------------------------
\* Messages

\* The server reads the messages up to the n-th, which it cannot if the sender of
\* one is gone, and marks them as read.  The answer comes, or after all attempts
\* there is none and the list is taken to be empty.
HandsOut(n) ==
  /\ Open /\ polling /\ session
  /\ orphans \cap (handed + 1 .. n) = {}
  /\ handed' = n
  /\ \/ /\ pending' = Queued([ do |-> "update",
                              messages |-> [k \in 1 .. n - handed |-> handed + k] ])
        /\ UNCHANGED << faults, lost >>
     \/ /\ arrived' - arrived < News
        /\ faults' = faults + 1
        /\ lost' = lost \cup (handed + 1 .. n)
        /\ UNCHANGED pending
  /\ UNCHANGED << dialogs, work, login, draft, popup, pane, people, registry,
                  orphans, servers, prefix, username, session, polling, clicks,
                  asked, late, meanwhile >>

\* One turn of the polling thread: a page of unread messages.  A turn that fails
\* before the server has marked them changes nothing.
Poll ==
  /\ handed < arrived
  /\ UNCHANGED arrived
  /\ HandsOut(Least(arrived, handed + MaxMsg))

\* The same for messages that have arrived since the turn before.
PollNew ==
  /\ handed = arrived
  /\ arrived' \in handed + 1 .. handed + Least(News, MaxMsg)
  /\ HandsOut(arrived')

\* Mutant of UpdateMessages: it returns at once where there is no chat display.
UpdateIfDisplayed ==
  /\ Serves("update")
  /\ pending' = Tail(pending)
  /\ IF screen = "chat"
       THEN /\ messages' = messages \o Head(pending).messages
            /\ Draws(messages', page, unread)
       ELSE UNCHANGED << messages, display >>
  /\ UNCHANGED << dialogs, work, login, draft, popup, unread, sized, people,
                  network, history >>

\* Mutant of UpdateMessages: the newest messages come first.
UpdateInFront ==
  /\ Serves("update")
  /\ pending' = Tail(pending)
  /\ messages' = Head(pending).messages \o messages
  /\ IF screen = "chat" THEN Draws(messages', page, unread) ELSE UNCHANGED display
  /\ UNCHANGED << dialogs, work, login, draft, popup, unread, sized, people,
                  network, history >>

\* The new messages join the list: an id is compared with messages, and is never
\* one of them.  Before there is a chat display the handler then raises.
UpdateMessages ==
  /\ Serves("update")
  /\ pending' = Tail(pending)
  /\ messages' = messages \o Head(pending).messages
  /\ IF screen = "chat" THEN Draws(messages', page, unread) ELSE UNCHANGED display
  /\ UNCHANGED << dialogs, work, login, draft, popup, unread, sized, people,
                  network, history >>

\* Mutant of ChangeMsgPage: the new page is not drawn.
ChangePageUndrawn(step) ==
  /\ ClickInChat
  /\ nav[step]
  /\ page' = IF step = "older" THEN 0 ELSE page + 1
  /\ page' < PageCount(Len(messages), MaxMsg)
  /\ UNCHANGED << boxes, selected, nav, drawn >>
  /\ UNCHANGED << loop, login, draft, popup, messages, unread, sized, people,
                  network, faults, past, meanwhile >>

\* Older or Newer Messages, within the pages of the list or of the messages that
\* were unread at login.
ChangeMsgPage(step) ==
  /\ ClickInChat
  /\ nav[step]
  /\ step = "older" => page > 0
  /\ LET new == IF step = "older" THEN page - 1 ELSE page + 1
         most == IF Len(messages) > unread THEN Len(messages) ELSE unread
     IN  /\ new < PageCount(most, MaxMsg)
         /\ Draws(messages, new, unread)
  /\ UNCHANGED << loop, login, draft, popup, messages, unread, sized, people,
                  network, faults, past, meanwhile >>

\* A checkbox is ticked, or cleared.
TickMessage ==
  /\ ClickInChat
  /\ \E m \in Range(boxes) :
       selected' = IF m \in selected THEN selected \ {m} ELSE selected \cup {m}
  /\ Hasty("select",
           \/ UnderWay("delete", "deleted")
           \/ "deleted" \in Range(dialogs))
  /\ UNCHANGED << loop, login, draft, popup, messages, unread, page, boxes, nav,
                  drawn, sized, people, network, faults, past >>

DeleteSelectedMessages ==
  /\ ClickInChat
  /\ selected \cap Range(boxes) # {}
  /\ Start(Operation("delete"))
  /\ asked' = asked \cup selected
  /\ UNCHANGED << pending, dialogs, login, draft, popup, pane, people, network,
                  faults, lost, late, meanwhile >>

\* The client reports success, unless it has no session.
DeleteMessages(i) ==
  /\ Ends(i, "delete")
  /\ pending' = Queued([do |-> "deleted", success |-> session])
  /\ UNCHANGED << dialogs, login, draft, popup, pane, people, network, history >>

HandleDeleteMessagesResult ==
  /\ Serves("deleted")
  /\ pending' = Tail(pending)
  /\ Shows(IF Head(pending).success THEN "deleted" ELSE "nothing")
  /\ UNCHANGED << work, login, draft, popup, pane, people, network, history >>

\* Mutant of RemoveDeleted: the page is left as it is.
RemoveOnPage ==
  /\ Closes("deleted")
  /\ messages' = Within(messages, Range(messages) \ selected)
  /\ unread' = Least(unread, Len(messages'))
  /\ Draws(messages', page, unread')
  /\ UNCHANGED << pending, work, login, draft, popup, sized, people, network,
                  history >>

\* After the dialog: the messages that are selected now leave the list.
RemoveDeleted ==
  /\ Closes("deleted")
  /\ messages' = Within(messages, Range(messages) \ selected)
  /\ unread' = Least(unread, Len(messages'))
  /\ Draws(messages', 0, unread')
  /\ UNCHANGED << pending, work, login, draft, popup, sized, people, network,
                  history >>

-----------------------------------------------------------------------------
\* Users

EditSearch ==
  /\ ClickInChat
  /\ search' \in SearchText \ {search}
  /\ UNCHANGED << loop, login, draft, popup, pane, users, userPage, previous,
                  offset, network, faults, past, meanwhile >>

Search ==
  /\ ClickInChat
  /\ LoadUserList(0, work)
  /\ UNCHANGED << pending, dialogs, login, draft, popup, pane, users, search,
                  previous, offset, network, faults, past >>

\* Prev Page or Next Page; beyond the list more users are requested.
ChangeUserPage(new) ==
  /\ ClickInChat
  /\ IF new < PageCount(Len(users), MaxUsers)
       THEN userPage' = new /\ UNCHANGED << work, meanwhile >>
       ELSE LoadUserList(userPage, work)
  /\ UNCHANGED << pending, dialogs, login, draft, popup, pane, users, search,
                  previous, offset, network, faults, past >>

\* The thread reads the search text, and starts a list of its own for a new one.
FetchUsers(i) ==
  /\ Open
  /\ i \in DOMAIN work
  /\ work[i].op = "fetch"
  /\ work' = [work EXCEPT ![i] = [op |-> "list", text |-> search]]
  /\ previous' = search
  /\ users' = IF search # previous THEN <<>> ELSE users
  /\ late' = IF search # previous THEN {} ELSE late
  /\ offset' = OffsetAfter(users')
  /\ UNCHANGED << pending, dialogs, login, draft, popup, pane, userPage, search,
                  network, clicks, faults, asked, lost, meanwhile >>

\* Without a response the list is empty; without a session its handler raises.
ListUsers(i) ==
  /\ Ends(i, "list")
  /\ \/ /\ session
        /\ \E order \in Listings[accounts \ gone] :
             pending' = Queued([ do |-> "users",
                                 found |-> ListAccounts(order, work[i].text, offset) ])
        /\ UNCHANGED faults
     \/ /\ session /\ NoAnswer
        /\ pending' = Queued([do |-> "users", found |-> <<>>])
     \/ /\ ~ session
        /\ UNCHANGED << pending, faults >>
  /\ UNCHANGED << dialogs, login, draft, popup, pane, people, network, clicks,
                  past, meanwhile >>

HandleUserResults ==
  /\ Serves("users")
  /\ pending' = Tail(pending)
  /\ IF Head(pending).found = <<>>
       THEN Shows("nothing") /\ UNCHANGED << users, userPage >>
       ELSE /\ userPage' = IF users # <<>> THEN userPage + 1 ELSE userPage
            /\ users' = users \o Head(pending).found
            /\ UNCHANGED dialogs
  /\ UNCHANGED << work, login, draft, popup, pane, search, previous, offset,
                  network, history >>

-----------------------------------------------------------------------------
\* Sending

\* The windows that are open, or that messages are being sent from.
Windows ==
  { work[i].window : i \in { k \in DOMAIN work : work[k].op = "send" } }
  \cup IF draft = None THEN {} ELSE {draft.window}

\* Another window.
NewWindow == CHOOSE n \in 0 .. Len(work) + 1 : n \notin Windows

\* New Message, or a double click on a user or a message: another window, and one
\* that was open before is destroyed with what was written in it.
OpenNewMessageWindow ==
  /\ ClickInChat
  /\ draft' = [window |-> NewWindow, sent |-> FALSE]
  /\ Hasty("open", UnderWay("send", "sent"))
  /\ UNCHANGED << loop, login, popup, pane, people, network, faults, past >>

\* Mutant of SendMessage: the window is closed before the result is there.
SendAndClose ==
  /\ ClickInChat
  /\ draft # None
  /\ Range(users) \ {username} # {}
  /\ Start([op |-> "send", window |-> draft.window])
  /\ draft' = None
  /\ UNCHANGED << pending, dialogs, login, popup, pane, people, network, faults,
                  past, meanwhile >>

\* Send: to one of the users that have been loaded, other than the user; anything
\* else, and an empty message, is refused at once.
SendMessage ==
  /\ ClickInChat
  /\ draft # None
  /\ \/ /\ Range(users) \ {username} # {}
        /\ Start([op |-> "send", window |-> draft.window])
        /\ UNCHANGED dialogs
     \/ /\ Shows("nothing")
        /\ UNCHANGED work
  /\ UNCHANGED << pending, login, draft, popup, pane, people, network, faults,
                  past, meanwhile >>

\* The client raises if the server refuses, and reports failure without a session.
ProcessSendMessage(i) ==
  /\ Ends(i, "send")
  /\ pending' = Queued([do |-> "sent", success |-> session])
  /\ draft' = IF session /\ draft # None /\ draft.window = work[i].window
                THEN [draft EXCEPT !.sent = TRUE] ELSE draft
  /\ UNCHANGED << dialogs, login, popup, pane, people, network, history >>

HandleSendMessageResult ==
  /\ Serves("sent")
  /\ pending' = Tail(pending)
  /\ Shows(IF Head(pending).success THEN "sent" ELSE "nothing")
  /\ UNCHANGED << work, login, draft, popup, pane, people, network, history >>

\* After the dialog: the window that is open now is destroyed.
DestroySent ==
  /\ Closes("sent")
  /\ draft' = None
  /\ UNCHANGED << pending, work, login, popup, pane, people, network, history >>

-----------------------------------------------------------------------------
\* Servers

\* A server window, which takes the place of the one that was open: that one is no
\* longer updated.
ViewServers ==
  /\ ClickInChat
  /\ popup' = servers
  /\ UNCHANGED << loop, login, draft, pane, people, network, faults, past,
                  meanwhile >>

CloseServers ==
  /\ ClickInChat
  /\ popup # None
  /\ popup' = None
  /\ UNCHANGED << loop, login, draft, pane, people, network, faults, past,
                  meanwhile >>

\* Refresh Servers: a thread asks for the servers, a timer of 100 ms updates the
\* window, and nothing orders the two.
RefreshServers ==
  /\ ClickInChat
  /\ popup # None
  /\ work' = work \o << Operation("refresh"), Operation("timer") >>
  /\ UNCHANGED << pending, dialogs, login, draft, popup, pane, people, network,
                  faults, past, meanwhile >>

TimerExpires(i) ==
  /\ Ends(i, "timer")
  /\ pending' = Queued(Callback("servers"))
  /\ UNCHANGED << dialogs, login, draft, popup, pane, people, network, history >>

\* Mutant of NewServers: update_available_replicas does not call back.
NewServersSilently ==
  /\ News > 0
  /\ servers' = servers + 1
  /\ UNCHANGED pending

\* update_available_replicas hears of other servers than the list has.
NewServers ==
  /\ News > 0
  /\ servers' = servers + 1
  /\ pending' = Queued(Callback("servers"))

UpdateReplicas ==
  /\ Open
  /\ \/ polling /\ NewServers /\ UNCHANGED work
     \/ \E i \in DOMAIN work :
          /\ Ends(i, "refresh")
          /\ NewServers \/ UNCHANGED << servers, pending >>
  /\ UNCHANGED << dialogs, login, draft, popup, pane, people, registry, inbox,
                  prefix, username, session, polling, history >>

UpdateServerList ==
  /\ Serves("servers")
  /\ pending' = Tail(pending)
  /\ popup' = IF popup # None THEN servers ELSE None
  /\ UNCHANGED << dialogs, work, login, draft, pane, people, network, history >>

-----------------------------------------------------------------------------
\* The end

\* Mutant of Disconnects: the windows stay.
DisconnectsRootOnly ==
  /\ screen' = "closed"
  /\ polling' = FALSE
  /\ pending' = <<>> /\ dialogs' = <<>> /\ work' = <<>>
  /\ UNCHANGED << entry, prompt, draft, popup, pane, people, registry, inbox,
                  servers, prefix, username, session, faults, past, meanwhile >>

\* stop_polling_messages and root.destroy(); the other threads are daemons.
Disconnects ==
  /\ screen' = "closed"
  /\ polling' = FALSE
  /\ pending' = <<>> /\ dialogs' = <<>> /\ work' = <<>>
  /\ draft' = None /\ popup' = None
  /\ UNCHANGED << entry, prompt, pane, people, registry, inbox, servers, prefix,
                  username, session, faults, past, meanwhile >>

LogOut ==
  /\ ClickInChat
  /\ Disconnects

ConfirmDeleteAccount ==
  /\ ClickInChat
  /\ Shows("confirm")
  /\ UNCHANGED << pending, work, login, draft, popup, pane, people, network,
                  faults, past, meanwhile >>

AnswerConfirm ==
  /\ Closes("confirm")
  /\ Start(Operation("deleteAccount")) \/ UNCHANGED work
  /\ UNCHANGED << pending, login, draft, popup, pane, people, network, history >>

\* The result is handled in the thread of the operation, which waits for the
\* dialog.  That the account is gone, if a server has answered at all, is left out:
\* without a session nothing of it is asked for again.
DeleteAccount(i) ==
  /\ Ends(i, "deleteAccount")
  /\ session' = FALSE
  /\ Shows(IF session THEN "goodbye" ELSE "nothing")
  /\ UNCHANGED << pending, login, draft, popup, pane, people, registry, inbox,
                  servers, prefix, username, polling, history >>

AccountDeleted ==
  /\ Closes("goodbye")
  /\ pending' = Queued(Callback("disconnect"))
  /\ UNCHANGED << work, login, draft, popup, pane, people, network, history >>

Disconnect ==
  /\ Serves("disconnect")
  /\ Disconnects
  /\ UNCHANGED clicks

-----------------------------------------------------------------------------
\* Somebody else creates an account, or what another server has created is relayed.
Others ==
  /\ Open
  /\ News > 0
  /\ \E a \in Account \ accounts : Appears(a)
  /\ UNCHANGED << loop, login, draft, popup, pane, people, gone, inbox, servers,
                  prefix, username, session, polling, clicks, faults, asked, lost,
                  meanwhile >>

\* Somebody else deletes their account, and leaves unread messages behind.
OthersLeave ==
  /\ Open
  /\ News > 0
  /\ \E a \in accounts \ (gone \cup Name) : gone' = gone \cup {a}
  /\ \E sent \in SUBSET (handed + 1 .. arrived) : orphans' = orphans \cup sent
  /\ UNCHANGED << loop, login, draft, popup, pane, people, accounts, arrived,
                  handed, servers, prefix, username, session, polling, history >>

Init ==
  /\ pending = <<>> /\ dialogs = <<>> /\ work = <<>>
  /\ screen = "login" /\ prompt = None /\ draft = None /\ popup = None
  /\ entry \in Name
  /\ messages = <<>> /\ unread = 0 /\ page = 0
  /\ boxes = <<>> /\ selected = {} /\ drawn = FALSE /\ sized = FALSE
  /\ nav = [older |-> FALSE, newer |-> FALSE]
  /\ users = <<>> /\ userPage = 0 /\ offset = 0
  /\ search = "" /\ previous = ""
  /\ accounts = FirstUsers /\ gone = {}
  /\ arrived \in 0 .. MaxNews /\ handed = 0 /\ orphans = {} /\ servers = 0
  /\ prefix = None /\ username = None /\ session = FALSE /\ polling = FALSE
  /\ clicks = 0 /\ faults = 0 /\ meanwhile = {}
  /\ asked = {} /\ lost = {} /\ late = {}

\* The event loop serves the next callback.
ServeCallback ==
  \/ HandleLookupResult \/ HandleLoginResult \/ HandleAccountCreationResult
  \/ UpdateMessages \/ HandleDeleteMessagesResult \/ HandleUserResults
  \/ HandleSendMessageResult \/ UpdateServerList \/ Disconnect

Gesture ==
  \/ EditName \/ CheckUsername \/ ProcessCredentials
  \/ TickMessage \/ DeleteSelectedMessages
  \/ \E step \in {"older", "newer"} : ChangeMsgPage(step)
  \/ EditSearch \/ Search
  \/ ChangeUserPage(userPage + 1)
  \/ userPage > 0 /\ ChangeUserPage(userPage - 1)
  \/ OpenNewMessageWindow \/ SendMessage
  \/ ViewServers \/ CloseServers \/ RefreshServers
  \/ ConfirmDeleteAccount \/ LogOut

\* The user answers the topmost dialog.
Answer ==
  \/ Dismiss \/ CreateChatScreen \/ RemoveDeleted \/ DestroySent
  \/ AnswerConfirm \/ AccountDeleted

\* An operation goes on, or ends.
Operate(i) ==
  \/ LookupUsername(i) \/ LogIn(i) \/ CreateAccount(i)
  \/ FetchUsers(i) \/ ListUsers(i)
  \/ ProcessSendMessage(i) \/ DeleteMessages(i) \/ DeleteAccount(i)
  \/ TimerExpires(i) \/ Raises(i)

Next ==
  \/ ServeCallback \/ Gesture \/ Answer
  \/ \E i \in DOMAIN work : Operate(i)
  \/ OnResize \/ Poll \/ PollNew \/ UpdateReplicas \/ Others \/ OthersLeave

Spec == Init /\ [][Next]_vars

\* The event loop runs, and so does the polling thread, not all of whose requests fail
\* before a server has marked what it reads.  Nothing else is assumed of the network,
\* nor anything of the user, who may leave a dialog open.
FairSpec == Spec /\ WF_vars(ServeCallback) /\ WF_vars(Poll)

-----------------------------------------------------------------------------
\* Properties

Job == [op : {"fetch", "delete", "refresh", "timer", "deleteAccount"}]
       \cup [op : {"send"}, window : Nat]
       \cup [op : {"lookup", "login", "create"}, name : Name]
       \cup [op : {"list"}, text : SearchText]

Callbacks ==
  [do : {"servers", "disconnect"}]
  \cup [do : {"lookup"}, exists : BOOLEAN]
  \cup [do : {"login"}, success : BOOLEAN, unread : Nat]
  \cup [do : {"create", "deleted", "sent"}, success : BOOLEAN]
  \cup [do : {"update"}, messages : Seq(Nat)]
  \cup [do : {"users"}, found : Seq(Account)]

Rests == { "nothing", "chat", "deleted", "sent", "confirm", "goodbye" }

\* Every variable has its type; a password is asked for exactly after a lookup,
\* and only a chat screen has message and server windows.
TypeOK ==
  /\ pending \in Seq(Callbacks) /\ dialogs \in Seq(Rests) /\ work \in Seq(Job)
  /\ screen \in { "login", "password", "chat", "closed" }
  /\ entry \in Name \cup {None}
  /\ prompt \in [name : Name, login : BOOLEAN] \cup {None}
  /\ screen = "login" => entry # None
  /\ screen = "password" => prompt # None
  /\ draft \in [window : Nat, sent : BOOLEAN] \cup {None} /\ popup \in Nat \cup {None}
  /\ draft # None \/ popup # None => screen = "chat"
  /\ messages \in Seq(Nat) /\ unread \in Nat /\ page \in Nat
  /\ boxes \in Seq(Nat) /\ selected \subseteq Nat
  /\ nav \in [{"older", "newer"} -> BOOLEAN]
  /\ drawn \in BOOLEAN /\ sized \in BOOLEAN
  /\ users \in Seq(Account) /\ userPage \in Nat /\ offset \in Nat
  /\ search \in SearchText /\ previous \in SearchText
  /\ accounts \subseteq Account /\ gone \subseteq Account
  /\ arrived \in Nat /\ handed \in 0 .. arrived /\ orphans \subseteq handed + 1 .. arrived
  /\ servers \in Nat
  /\ {prefix, username} \subseteq Name \cup {None} /\ session \in BOOLEAN /\ polling \in BOOLEAN
  /\ clicks \in Nat /\ faults \in Nat
  /\ asked \subseteq Nat /\ lost \subseteq Nat /\ late \subseteq Account
  /\ meanwhile \subseteq Hastes

\* The messages of callbacks that are queued.
Joined(callbacks) ==
  FoldLeft(LAMBDA list, c : IF c.do = "update" THEN list \o c.messages ELSE list,
           <<>>, callbacks)

\* The messages in the list and those of callbacks the event loop has yet to serve.
InHand == messages \o Joined(pending)

\* The server hands a message out once.  Whatever is polled before there is a chat
\* screen, behind an open dialog or during a deletion, it stays with the client
\* until the user has asked to delete it, unless the answer that brought it did not
\* come, or the user changes the selection while a deletion is under way (ui.py:762
\* "Remove deleted messages from current list": it removes what is selected by then).
MessagesKept ==
  Open /\ "select" \notin meanwhile =>
    (1 .. handed) \ Range(InHand) \subseteq asked \cup lost

\* "Older messages are shown at the top" (docs/CLIENT_SPEC.md:39): in the list,
\* across callbacks that come before the screen, in dialogs and between deletions.
MessagesInOrder ==
  \A i, j \in DOMAIN InHand : i < j => InHand[i] < InHand[j]

\* The checkboxes, from which a deletion takes its ids, are those of the current
\* page, unless the last update_messages raised.
ShownIsPage ==
  screen = "chat" /\ drawn => boxes = Slice(messages, page, MaxMsg)

\* The current page holds a message of the list, or one that was unread at login,
\* across deletions on any page, unless the user has logged in twice at once.
PageInRange ==
  page > 0 /\ "login" \notin meanwhile => page * MaxMsg < Len(messages) \/ page * MaxMsg < unread

\* Pages that are loaded one after the other, for one search text after another,
\* list the matching accounts by age ("Older users (who joined first) are listed at
\* the top", docs/CLIENT_SPEC.md:34), none twice.  They skip none, as long as it is
\* not deleted, but those created in the same millisecond as one that is listed, and
\* those that became known after a younger one was listed.
ListedOnce ==
  "fetch" \notin meanwhile =>
    /\ IsInjective(users)
    /\ \A i, j \in DOMAIN users : i < j => Stamp[users[i]] <= Stamp[users[j]]
    /\ Range(users) \subseteq Matches[previous]
    /\ \A a \in (accounts \ (gone \cup late)) \cap Matches[previous] :
         Stamp[a] < OffsetAfter(users) => \E b \in Range(users) : Stamp[b] = Stamp[a]

\* "The list UI will automatically update when a change in available replicas is
\* detected by the client" (docs/CLIENT_SPEC.md:47): the last server window shows
\* the servers of the client, or an update of it is queued, whether the polling
\* thread or a refresh, before or after its timer, has heard of them.
PopupCurrent ==
  popup \notin {None, servers} =>
    \E i \in DOMAIN pending : pending[i].do = "servers"

\* A name that is asked for its password to log in was created, and the prefix the
\* password is hashed with is that of the name, unless the name was edited while it
\* was looked up (handle_lookup_result reads it again).
PromptOfLookup ==
  screen = "password" /\ prompt.login /\ "edit" \notin meanwhile =>
    prompt.name \in accounts /\ prefix = prompt.name

\* A message window whose message was not sent stays until the client is closed or
\* the user opens another in its place, which throws away what was written
\* (ui.py:645-646): the answer to an attempt to send it that failed does not take it
\* away, nor does anything that comes while it is open.  Excluded are a window that
\* was opened while a message was being sent (handle_send_message_result destroys the
\* window that is open by then) and a user who has logged in twice at once (the second
\* chat screen destroys all windows).
DraftKept ==
  [][ /\ draft # None /\ ~ draft.sent
      /\ draft' = None \/ draft'.window # draft.window
      => \/ screen' = "closed"
         \/ OpenNewMessageWindow
         \/ meanwhile \cap {"open", "login"} # {} ]_vars

\* Messages that wait at the server for a user who has logged in get into the list,
\* all of those whose answers come and whatever dialogs are left open, as long as the
\* session lasts and no sender of an unread message deletes its account.
MessagesArrive ==
  session /\ handed < arrived ~>
    \/ handed = arrived /\ InHand = messages
    \/ orphans # {} \/ ~ session \/ ~ Open

=============================================================================
