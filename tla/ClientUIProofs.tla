--------------------------- MODULE ClientUIProofs ---------------------------
(***************************************************************************)
(* What the user interface shows and asks for, for every number of         *)
(* gestures, messages, accounts and operations: the checkboxes are those   *)
(* of the page, an open list of servers is current or about to be, a       *)
(* password is asked for an account that was looked up, and everything has *)
(* its type.                                                               *)
(***************************************************************************)
EXTENDS ClientUI, FiniteSetTheorems, SequenceTheorems, TLAPS

USE DEF registry, inbox, past

\* The constants, as the proofs use them.
LEMMA Constants ==
  /\ Stamp \in Seq(Nat \ {0}) /\ Len(Stamp) \in Nat /\ Account = 1 .. Len(Stamp)
  /\ Account \subseteq Nat /\ FirstUsers \subseteq Account /\ Name \subseteq Account
  /\ MaxMsg \in Nat \ {0} /\ MaxUsers \in Nat \ {0} /\ MaxNews \in Nat
<1>1. Stamp \in Seq(Nat \ {0}) /\ MaxUsers \in Nat \ {0}
  BY PagesAssumption DEF PagesAssumption
<1>2. Len(Stamp) \in Nat /\ Account = 1 .. Len(Stamp)
  BY <1>1, LenProperties DEF Account
<1>3. /\ FirstUsers \subseteq Account /\ Name \subseteq Account
      /\ MaxMsg \in Nat \ {0} /\ MaxNews \in Nat
  BY UIAssumption DEF UIAssumption
<1> QED
  BY <1>1, <1>2, <1>3

\* What a drawing leaves is the page it was asked to draw.
LEMMA DrawnIsPage ==
  ASSUME NEW list, NEW p, NEW n, Draws(list, p, n), drawn'
  PROVE  page' = p /\ boxes' = Slice(list, p, MaxMsg)
BY DEF Draws

\* The checkboxes, from which a deletion takes its ids, are those of the current
\* page, unless the last update_messages raised: whatever is polled, deleted or
\* turned over, however long the list gets.
THEOREM ShownIsPageHolds == Spec => []ShownIsPage
<1>1. Init => ShownIsPage
  BY DEF Init, ShownIsPage
<1>2. ShownIsPage /\ [Next]_vars => ShownIsPage'
  <2> SUFFICES ASSUME ShownIsPage, [Next]_vars, screen' = "chat", drawn'
               PROVE  boxes' = Slice(messages', page', MaxMsg)
    BY DEF ShownIsPage, Slice, Least
  <2>1. CASE UNCHANGED << screen, messages, page, boxes, drawn >>
    BY <2>1 DEF ShownIsPage, Slice, Least
  <2>2. CASE UpdateMessages
    <3>1. screen = "chat" /\ Draws(messages', page, unread)
      BY <2>2 DEF UpdateMessages, login
    <3> QED
      BY <3>1, DrawnIsPage
  <2>3. CASE CreateChatScreen
    BY <2>3 DEF CreateChatScreen
  <2>4. CASE RemoveDeleted
    BY <2>4, DrawnIsPage DEF RemoveDeleted
  <2>5. CASE Disconnects
    BY <2>5 DEF Disconnects
  <2>6. ASSUME NEW step, ChangeMsgPage(step)
        PROVE  boxes' = Slice(messages', page', MaxMsg)
    <3>1. /\ messages' = messages
          /\ \E p : Draws(messages, p, unread)
      BY <2>6 DEF ChangeMsgPage
    <3> QED
      BY <3>1, DrawnIsPage
  <2>7. CASE ServeCallback
    BY <2>1, <2>2, <2>5, <2>7
    DEF ServeCallback, HandleLookupResult, HandleLoginResult,
        HandleAccountCreationResult, HandleDeleteMessagesResult,
        HandleUserResults, HandleSendMessageResult, UpdateServerList, Disconnect,
        login, pane, display
  <2>8. CASE Gesture
    BY <2>1, <2>5, <2>6, <2>8
    DEF Gesture, EditName, CheckUsername, ProcessCredentials, TickMessage,
        DeleteSelectedMessages, EditSearch, Search, ChangeUserPage,
        OpenNewMessageWindow, SendMessage, ViewServers, CloseServers,
        RefreshServers, ConfirmDeleteAccount, LogOut, login, pane, display
  <2>9. CASE Answer
    BY <2>1, <2>3, <2>4, <2>9
    DEF Answer, Dismiss, DestroySent, AnswerConfirm, AccountDeleted, login, pane,
        display
  <2>10. ASSUME NEW i \in DOMAIN work, Operate(i)
         PROVE  boxes' = Slice(messages', page', MaxMsg)
    BY <2>1, <2>10
    DEF Operate, LookupUsername, LogIn, CreateAccount, FetchUsers, ListUsers,
        ProcessSendMessage, DeleteMessages, DeleteAccount, TimerExpires, Raises,
        login, pane, display
  <2>11. CASE OnResize \/ Poll \/ PollNew \/ UpdateReplicas \/ Others \/ OthersLeave
    BY <2>1, <2>11
    DEF OnResize, Poll, PollNew, HandsOut, UpdateReplicas, Others, OthersLeave, login, pane,
        display
  <2>12. CASE UNCHANGED vars
    BY <2>1, <2>12 DEF vars, login, pane, display
  <2> QED
    BY <2>7, <2>8, <2>9, <2>10, <2>11, <2>12 DEF Next
<1> QED
  BY <1>1, <1>2, PTL DEF Spec

-----------------------------------------------------------------------------
\* The queue of the event loop

IsSequence(q) == \E S : q \in Seq(S)

\* A queue that is served loses its head only.
LEMMA ServedQueue ==
  ASSUME NEW q, IsSequence(q), q # <<>>
  PROVE  /\ IsSequence(Tail(q))
         /\ \A i \in DOMAIN q : q[i] = Head(q) \/ \E j \in DOMAIN Tail(q) : Tail(q)[j] = q[i]
         /\ \A j \in DOMAIN Tail(q) : \E i \in DOMAIN q : Tail(q)[j] = q[i]
<1>1. PICK S : q \in Seq(S)
  BY DEF IsSequence
<1>2. Tail(q) \in Seq(S) /\ Len(Tail(q)) = Len(q) - 1
  BY <1>1
<1>3. ASSUME NEW i \in DOMAIN q
      PROVE  q[i] = Head(q) \/ \E j \in DOMAIN Tail(q) : Tail(q)[j] = q[i]
  <2>1. CASE i = 1
    BY <1>1, <2>1
  <2>2. CASE i # 1
    <3>1. i - 1 \in DOMAIN Tail(q) /\ Tail(q)[i - 1] = q[i]
      BY <1>1, <2>2
    <3> QED
      BY <3>1
  <2> QED
    BY <2>1, <2>2
<1>4. ASSUME NEW j \in DOMAIN Tail(q)
      PROVE  \E i \in DOMAIN q : Tail(q)[j] = q[i]
  <2>1. j + 1 \in DOMAIN q /\ Tail(q)[j] = q[j + 1]
    BY <1>1
  <2> QED
    BY <2>1
<1> QED
  BY <1>2, <1>3, <1>4 DEF IsSequence

\* A queue that grows keeps what it has, and gets the new element only.
LEMMA GrownQueue ==
  ASSUME NEW q, IsSequence(q), NEW e
  PROVE  /\ IsSequence(Append(q, e))
         /\ \A i \in DOMAIN q : i \in DOMAIN Append(q, e) /\ Append(q, e)[i] = q[i]
         /\ \E i \in DOMAIN Append(q, e) : Append(q, e)[i] = e
         /\ \A i \in DOMAIN Append(q, e) :
              Append(q, e)[i] = e \/ (i \in DOMAIN q /\ Append(q, e)[i] = q[i])
<1>1. PICK S : q \in Seq(S)
  BY DEF IsSequence
<1>2. q \in Seq(S \cup {e})
  BY <1>1
<1>3. Append(q, e) \in Seq(S \cup {e}) /\ Len(Append(q, e)) = Len(q) + 1
  BY <1>2
<1>4. Len(q) + 1 \in DOMAIN Append(q, e) /\ Append(q, e)[Len(q) + 1] = e
  BY <1>2
<1>5. \A i \in DOMAIN q : i \in DOMAIN Append(q, e) /\ Append(q, e)[i] = q[i]
  BY <1>2
<1>6. \A i \in DOMAIN Append(q, e) :
        Append(q, e)[i] = e \/ (i \in DOMAIN q /\ Append(q, e)[i] = q[i])
  BY <1>2
<1> QED
  BY <1>3, <1>4, <1>5, <1>6 DEF IsSequence

\* What is left of a sequence without one element were its elements.
LEMMA ShrunkSequence ==
  ASSUME NEW q, IsSequence(q), NEW k \in DOMAIN q
  PROVE  /\ IsSequence(RemoveAt(q, k))
         /\ \A j \in DOMAIN RemoveAt(q, k) : \E i \in DOMAIN q : RemoveAt(q, k)[j] = q[i]
<1>1. PICK S : q \in Seq(S)
  BY DEF IsSequence
<1> DEFINE front == SubSeq(q, 1, k - 1)
           rest == SubSeq(q, k + 1, Len(q))
<1>2. k \in 1 .. Len(q)
  BY <1>1
<1>3. /\ front \in Seq(S) /\ Len(front) = k - 1
      /\ rest \in Seq(S) /\ Len(rest) = Len(q) - k
  BY <1>1, <1>2
<1>4. /\ \A j \in 1 .. k - 1 : front[j] = q[j]
      /\ \A j \in 1 .. Len(q) - k : rest[j] = q[k + j]
  BY <1>1, <1>2
<1>5. RemoveAt(q, k) = front \o rest
  BY DEF RemoveAt
<1> HIDE DEF front, rest
<1>6. front \o rest \in Seq(S) /\ Len(front \o rest) = Len(q) - 1
  BY <1>1, <1>2, <1>3
<1>7. ASSUME NEW j \in DOMAIN (front \o rest)
      PROVE  \E i \in DOMAIN q : (front \o rest)[j] = q[i]
  <2>1. j \in 1 .. Len(q) - 1
    BY <1>1, <1>6
  <2>2. CASE j <= k - 1
    <3>1. (front \o rest)[j] = q[j] /\ j \in DOMAIN q
      BY <1>1, <1>2, <1>3, <1>4, <2>1, <2>2
    <3> QED
      BY <3>1
  <2>3. CASE ~ (j <= k - 1)
    <3>1. (front \o rest)[j] = rest[j - (k - 1)]
      BY <1>1, <1>2, <1>3, <2>1, <2>3
    <3>2. rest[j - (k - 1)] = q[k + (j - (k - 1))]
      BY <1>1, <1>2, <1>4, <2>1, <2>3
    <3>3. k + (j - (k - 1)) \in DOMAIN q
      BY <1>1, <1>2, <2>1, <2>3
    <3> QED
      BY <3>1, <3>2, <3>3
  <2> QED
    BY <2>2, <2>3
<1> QED
  BY <1>5, <1>6, <1>7 DEF IsSequence

-----------------------------------------------------------------------------
\* The window of the servers

PopupInv == IsSequence(pending) /\ PopupCurrent

\* The last server window shows the servers of the client, or an update of it is
\* queued, however refreshes, their timers and the polling thread interleave.
THEOREM PopupCurrentHolds == Spec => []PopupCurrent
<1>1. Init => PopupInv
  <2>1. <<>> \in Seq({})
    OBVIOUS
  <2> QED
    BY <2>1 DEF Init, PopupInv, PopupCurrent, IsSequence
<1>2. PopupInv /\ [Next]_vars => PopupInv'
  <2> SUFFICES ASSUME PopupInv, [Next]_vars
               PROVE  PopupInv'
    OBVIOUS
  <2> USE DEF PopupInv
  <2>1. CASE UNCHANGED << pending, popup, servers >>
    BY <2>1 DEF PopupCurrent, IsSequence
  <2>2. CASE \E do : Serves(do) /\ do # "servers" /\ pending' = Tail(pending)
                      /\ UNCHANGED << popup, servers >>
    <3>1. pending # <<>> /\ Head(pending).do # "servers"
      BY <2>2 DEF Serves
    <3> QED
      BY <2>2, <3>1, ServedQueue DEF PopupCurrent, IsSequence
  <2>3. CASE \E e : pending' = Queued(e) /\ UNCHANGED << popup, servers >>
    <3>1. PICK e : pending' = Append(pending, e)
      BY <2>3 DEF Queued
    <3>2. IsSequence(pending')
      BY <3>1, GrownQueue
    <3>3. \A i \in DOMAIN pending : i \in DOMAIN pending' /\ pending'[i] = pending[i]
      BY <3>1, GrownQueue
    <3> QED
      BY <2>3, <3>2, <3>3 DEF PopupCurrent
  <2>4. CASE popup' \in {None, servers'} /\ (pending' = pending \/ pending' = <<>>)
    <3>1. <<>> \in Seq({})
      OBVIOUS
    <3> QED
      BY <2>4, <3>1 DEF PopupCurrent, IsSequence
  <2>5. CASE NewServers
    <3>1. PICK i \in DOMAIN pending' : pending'[i] = Callback("servers")
      BY <2>5, GrownQueue DEF NewServers, Queued
    <3>2. pending'[i].do = "servers"
      BY <3>1 DEF Callback
    <3>3. IsSequence(pending')
      BY <2>5, GrownQueue DEF NewServers, Queued
    <3> QED
      BY <3>2, <3>3 DEF PopupCurrent, IsSequence
  <2>6. CASE UpdateServerList
    <3>1. pending # <<>> /\ pending' = Tail(pending) /\ popup' \in {None, servers'}
      BY <2>6 DEF UpdateServerList, Serves, network
    <3> QED
      BY <3>1, ServedQueue DEF PopupCurrent, IsSequence
  <2>7. CASE CreateChatScreen
    <3>1. popup' = None
      BY <2>7 DEF CreateChatScreen
    <3> QED
      BY <2>7, <3>1, GrownQueue
      DEF CreateChatScreen, Queued, PopupCurrent, IsSequence
  <2>8. CASE ServeCallback
    BY <2>2, <2>4, <2>6, <2>8
    DEF ServeCallback, HandleLookupResult, HandleLoginResult,
        HandleAccountCreationResult, UpdateMessages, HandleDeleteMessagesResult,
        HandleUserResults, HandleSendMessageResult, Disconnect, Disconnects,
        network
  <2>9. CASE Gesture
    BY <2>1, <2>4, <2>9
    DEF Gesture, EditName, CheckUsername, ProcessCredentials, TickMessage,
        DeleteSelectedMessages, ChangeMsgPage, EditSearch, Search, ChangeUserPage,
        OpenNewMessageWindow, SendMessage, ViewServers, CloseServers,
        RefreshServers, ConfirmDeleteAccount, LogOut, Disconnects, loop, network
  <2>10. CASE Answer
    BY <2>1, <2>3, <2>7, <2>10
    DEF Answer, Dismiss, RemoveDeleted, DestroySent, AnswerConfirm,
        AccountDeleted, network
  <2>11. ASSUME NEW i \in DOMAIN work, Operate(i)
         PROVE  PopupInv'
    BY <2>1, <2>3, <2>11
    DEF Operate, LookupUsername, LogIn, CreateAccount, FetchUsers, ListUsers,
        ProcessSendMessage, DeleteMessages, DeleteAccount, TimerExpires, Raises,
        network
  <2>12. CASE OnResize \/ Poll \/ PollNew \/ Others \/ OthersLeave
    BY <2>1, <2>3, <2>12 DEF OnResize, Poll, PollNew, HandsOut, Others, OthersLeave, loop, network
  <2>13. CASE UpdateReplicas
    BY <2>1, <2>5, <2>13 DEF UpdateReplicas
  <2>14. CASE UNCHANGED vars
    BY <2>1, <2>14 DEF vars, loop, network
  <2> QED
    BY <2>8, <2>9, <2>10, <2>11, <2>12, <2>13, <2>14 DEF Next
<1>3. PopupInv => PopupCurrent
  BY DEF PopupInv
<1> QED
  BY <1>1, <1>2, <1>3, PTL DEF Spec

-----------------------------------------------------------------------------
\* The name a password is asked for

\* The name that is looked up, or was.
Subject == IF screen = "login" THEN entry ELSE prompt.name

\* What PromptOfLookup says, but of the name that is looked up.
SubjectFound == Subject \in accounts /\ prefix = Subject

\* An account is created only where no password is asked for to log in; lookups
\* under way are of one name, and what was found is still so when the event loop
\* hears of it, unless the name was edited.
LookupInv ==
  /\ IsSequence(pending) /\ IsSequence(work)
  /\ screen \in { "login", "password" } =>
       /\ Subject \in Name
       /\ screen = "login" \/ prompt.login =>
            \A i \in DOMAIN work : work[i].op # "create"
  /\ screen \in { "login", "password" } /\ "edit" \notin meanwhile =>
       /\ \A i \in DOMAIN work : work[i].op = "lookup" => work[i].name = Subject
       /\ screen = "login" =>
            \A i \in DOMAIN pending :
              pending[i].do = "lookup" /\ pending[i].exists => SubjectFound
       /\ screen = "password" /\ prompt.login => SubjectFound

\* No lookup or creation is started.
JobsKept ==
  /\ IsSequence(work')
  /\ \A i \in DOMAIN work' :
       work'[i].op \in { "lookup", "create" } =>
         \E j \in DOMAIN work : work'[i] = work[j]

\* No result of a lookup is queued.
CallbacksKept ==
  /\ IsSequence(pending')
  /\ \A i \in DOMAIN pending' :
       pending'[i].do = "lookup" => \E j \in DOMAIN pending : pending'[i] = pending[j]

\* A step that has no part in lookups.
Unconcerned ==
  /\ JobsKept /\ CallbacksKept
  /\ UNCHANGED << screen, entry, prompt, prefix >>
  /\ accounts \subseteq accounts'
  /\ meanwhile \subseteq meanwhile'

LEMMA UnconcernedKeepsLookupInv ==
  ASSUME LookupInv, Unconcerned
  PROVE  LookupInv'
<1>1. Subject' = Subject
  BY DEF Subject, Unconcerned
<1>2. screen' = screen /\ prompt' = prompt
  BY DEF Unconcerned, LookupInv
<1>3. ASSUME screen \in { "login", "password" }, SubjectFound
      PROVE  SubjectFound'
  <2>1. Subject \in accounts' /\ prefix' = Subject
    BY <1>3 DEF Unconcerned, SubjectFound
  <2> QED
    BY <1>1, <2>1 DEF SubjectFound
<1>4. "edit" \notin meanwhile' => "edit" \notin meanwhile
  BY DEF Unconcerned
<1>5. IsSequence(work') /\ IsSequence(pending')
  BY DEF Unconcerned, JobsKept, CallbacksKept
<1>6. ASSUME NEW i \in DOMAIN work', work'[i].op \in { "lookup", "create" }
      PROVE  \E j \in DOMAIN work : work'[i] = work[j]
  BY <1>6 DEF Unconcerned, JobsKept
<1>7. ASSUME NEW i \in DOMAIN pending', pending'[i].do = "lookup"
      PROVE  \E j \in DOMAIN pending : pending'[i] = pending[j]
  BY <1>7 DEF Unconcerned, CallbacksKept
<1>8. screen' \in { "login", "password" } =>
        /\ Subject' \in Name
        /\ screen' = "login" \/ prompt'.login =>
             \A i \in DOMAIN work' : work'[i].op # "create"
  BY <1>1, <1>2, <1>6 DEF LookupInv
<1>9. ASSUME screen \in { "login", "password" }, "edit" \notin meanwhile'
      PROVE  /\ \A i \in DOMAIN work' :
                  work'[i].op = "lookup" => work'[i].name = Subject'
             /\ screen' = "login" =>
                  \A i \in DOMAIN pending' :
                    pending'[i].do = "lookup" /\ pending'[i].exists => SubjectFound'
             /\ screen' = "password" /\ prompt'.login => SubjectFound'
  <2>1. \A i \in DOMAIN work : work[i].op = "lookup" => work[i].name = Subject
    BY <1>4, <1>9 DEF LookupInv
  <2>2. screen = "login" =>
          \A i \in DOMAIN pending :
            pending[i].do = "lookup" /\ pending[i].exists => SubjectFound
    BY <1>4, <1>9 DEF LookupInv
  <2>3. screen = "password" /\ prompt.login => SubjectFound
    BY <1>4, <1>9 DEF LookupInv
  <2>4. \A i \in DOMAIN work' : work'[i].op = "lookup" => work'[i].name = Subject'
    BY <1>1, <1>6, <2>1
  <2>5. screen = "login" =>
          \A i \in DOMAIN pending' :
            pending'[i].do = "lookup" /\ pending'[i].exists => SubjectFound'
    BY <1>3, <1>7, <1>9, <2>2
  <2> QED
    BY <1>2, <1>3, <1>9, <2>3, <2>4, <2>5
<1> QED
  BY <1>2, <1>5, <1>8, <1>9 DEF LookupInv

\* The ways in which a step leaves the lookups among the jobs and callbacks alone.
LEMMA JobsOf ==
  ASSUME IsSequence(work)
  PROVE  /\ work' = work => JobsKept
         /\ \A job : job.op \notin { "lookup", "create" } /\ Start(job) => JobsKept
         /\ \A i \in DOMAIN work : work' = RemoveAt(work, i) => JobsKept
<1>1. work' = work => JobsKept
  BY DEF JobsKept, IsSequence
<1>2. ASSUME NEW job, job.op \notin { "lookup", "create" }, Start(job)
      PROVE  JobsKept
  <2>1. IsSequence(work')
    BY <1>2, GrownQueue DEF Start
  <2>2. \A i \in DOMAIN work' :
          work'[i] = job \/ (i \in DOMAIN work /\ work'[i] = work[i])
    BY <1>2, GrownQueue DEF Start
  <2> QED
    BY <1>2, <2>1, <2>2 DEF JobsKept
<1>3. ASSUME NEW i \in DOMAIN work, work' = RemoveAt(work, i)
      PROVE  JobsKept
  <2>1. IsSequence(work')
    BY <1>3, ShrunkSequence
  <2>2. \A j \in DOMAIN work' : \E k \in DOMAIN work : work'[j] = work[k]
    BY <1>3, ShrunkSequence
  <2> QED
    BY <2>1, <2>2 DEF JobsKept
<1> QED
  BY <1>1, <1>2, <1>3

LEMMA CallbacksOf ==
  ASSUME IsSequence(pending)
  PROVE  /\ pending' = pending => CallbacksKept
         /\ \A e : e.do # "lookup" /\ pending' = Queued(e) => CallbacksKept
         /\ pending # <<>> /\ pending' = Tail(pending) => CallbacksKept
<1>1. pending' = pending => CallbacksKept
  BY DEF CallbacksKept, IsSequence
<1>2. ASSUME NEW e, e.do # "lookup", pending' = Queued(e)
      PROVE  CallbacksKept
  <2>1. IsSequence(pending')
    BY <1>2, GrownQueue DEF Queued
  <2>2. \A i \in DOMAIN pending' :
          pending'[i] = e \/ (i \in DOMAIN pending /\ pending'[i] = pending[i])
    BY <1>2, GrownQueue DEF Queued
  <2> QED
    BY <1>2, <2>1, <2>2 DEF CallbacksKept
<1>3. ASSUME pending # <<>>, pending' = Tail(pending)
      PROVE  CallbacksKept
  <2>1. IsSequence(pending')
    BY <1>3, ServedQueue
  <2>2. \A j \in DOMAIN pending' : \E i \in DOMAIN pending : pending'[j] = pending[i]
    BY <1>3, ServedQueue
  <2> QED
    BY <2>1, <2>2 DEF CallbacksKept
<1> QED
  BY <1>1, <1>2, <1>3

\* Once there is a chat screen, or nothing, lookups no longer matter.
LEMMA PastLogin ==
  ASSUME screen' \notin { "login", "password" }, IsSequence(pending'),
         IsSequence(work')
  PROVE  LookupInv'
BY DEF LookupInv

LEMMA LookupInvStep == LookupInv /\ [Next]_vars => LookupInv'
<1> SUFFICES ASSUME LookupInv, [Next]_vars
             PROVE  LookupInv'
  OBVIOUS
<1>0. IsSequence(pending) /\ IsSequence(work)
  BY DEF LookupInv
<1>1. Unconcerned => LookupInv'
  BY UnconcernedKeepsLookupInv
<1>2. CASE CheckUsername
  <2> DEFINE job == [op |-> "lookup", name |-> entry]
  <2>1. /\ screen = "login" /\ work' = Append(work, job)
        /\ UNCHANGED << pending, screen, entry, prompt, prefix, accounts, meanwhile >>
    BY <1>2 DEF CheckUsername, ClickAtLogin, Start, login, network
  <2>2. IsSequence(work')
    BY <1>0, <2>1, GrownQueue
  <2>3. \A i \in DOMAIN work' : work'[i] = job \/ (i \in DOMAIN work /\ work'[i] = work[i])
    BY <1>0, <2>1, GrownQueue
  <2>4. Subject' = Subject /\ Subject = entry /\ (SubjectFound => SubjectFound')
    BY <2>1 DEF Subject, SubjectFound
  <2>5. job.op = "lookup" /\ job.name = Subject
    BY <2>4
  <2> HIDE DEF job
  <2> QED
    BY <2>1, <2>2, <2>3, <2>4, <2>5 DEF LookupInv, IsSequence
<1>3. CASE EditName
  <2>1. /\ screen = "login" /\ entry' \in Name
        /\ meanwhile' = IF UnderWay("lookup", "lookup") THEN meanwhile \cup {"edit"}
                                                      ELSE meanwhile
        /\ UNCHANGED << pending, work, screen, prompt, prefix, accounts >>
    BY <1>3 DEF EditName, ClickAtLogin, Hasty, loop, network
  <2>2. Subject' \in Name
    BY <2>1 DEF Subject
  <2>3. ASSUME "edit" \notin meanwhile'
        PROVE  /\ \A i \in DOMAIN work : work[i].op # "lookup"
               /\ \A i \in DOMAIN pending : pending[i].do # "lookup"
    BY <2>1, <2>3 DEF UnderWay
  <2> QED
    BY <2>1, <2>2, <2>3 DEF LookupInv, IsSequence
<1>4. CASE HandleLookupResult
  <2>1. /\ pending # <<>> /\ Head(pending).do = "lookup" /\ pending' = Tail(pending)
        /\ UNCHANGED << work, accounts, prefix, meanwhile >>
    BY <1>4 DEF HandleLookupResult, Serves, network, history
  <2>2. IsSequence(pending')
    BY <1>0, <2>1, ServedQueue
  <2>3. CASE screen = "login"
    <3>1. /\ prompt' = [name |-> entry, login |-> Head(pending).exists]
          /\ screen' = "password"
      BY <1>4, <2>3 DEF HandleLookupResult
    <3>2. Subject' = Subject /\ prompt'.login = Head(pending).exists
      BY <2>3, <3>1 DEF Subject
    <3>3. SubjectFound => SubjectFound'
      BY <2>1, <3>2 DEF SubjectFound
    <3>4. 1 \in DOMAIN pending /\ pending[1] = Head(pending)
      BY <1>0, <2>1 DEF IsSequence
    <3>5. "edit" \notin meanwhile /\ Head(pending).exists => SubjectFound
      BY <2>1, <2>3, <3>4 DEF LookupInv
    <3> QED
      BY <2>1, <2>2, <2>3, <3>1, <3>2, <3>3, <3>5 DEF LookupInv, IsSequence
  <2>4. CASE screen # "login"
    <3>1. UNCHANGED << screen, entry, prompt >>
      BY <1>4, <2>4 DEF HandleLookupResult, login
    <3> QED
      BY <1>0, <1>1, <2>1, <3>1, JobsOf, CallbacksOf DEF Unconcerned
  <2> QED
    BY <2>3, <2>4
<1>5. ASSUME NEW k, LookupUsername(k)
      PROVE  LookupInv'
  <2> DEFINE name == work[k].name
             exists == name \in accounts \ gone
             e == [do |-> "lookup", exists |-> exists]
  <2>1. /\ k \in DOMAIN work /\ work[k].op = "lookup" /\ work' = RemoveAt(work, k)
        /\ prefix' = IF exists THEN name ELSE prefix
        /\ pending' = Append(pending, e)
        /\ UNCHANGED << screen, entry, prompt, accounts, meanwhile >>
    BY <1>5 DEF LookupUsername, Ends, Queued, login, history
  <2>2. IsSequence(work') /\ \A i \in DOMAIN work' : \E j \in DOMAIN work : work'[i] = work[j]
    BY <1>0, <2>1, ShrunkSequence
  <2>3. /\ IsSequence(pending')
        /\ \A i \in DOMAIN pending' :
             pending'[i] = e \/ (i \in DOMAIN pending /\ pending'[i] = pending[i])
    BY <1>0, <2>1, GrownQueue
  <2>4. Subject' = Subject
    BY <2>1 DEF Subject
  <2>5. e.exists = exists
    OBVIOUS
  <2>6. ASSUME screen \in { "login", "password" }, "edit" \notin meanwhile
        PROVE  /\ SubjectFound => SubjectFound'
               /\ e.exists => SubjectFound'
    <3>1. name = Subject
      BY <2>1, <2>6 DEF LookupInv
    <3> QED
      BY <2>1, <2>4, <3>1 DEF SubjectFound
  <2> HIDE DEF name, exists, e
  <2>7. screen \in { "login", "password" } =>
          /\ Subject' \in Name
          /\ screen = "login" \/ prompt.login =>
               \A i \in DOMAIN work' : work'[i].op # "create"
    BY <2>2, <2>4 DEF LookupInv
  <2>8. ASSUME screen \in { "login", "password" }, "edit" \notin meanwhile
        PROVE  /\ \A i \in DOMAIN work' : work'[i].op = "lookup" => work'[i].name = Subject'
               /\ screen = "login" =>
                    \A i \in DOMAIN pending' :
                      pending'[i].do = "lookup" /\ pending'[i].exists => SubjectFound'
               /\ screen = "password" /\ prompt.login => SubjectFound'
    <3>1. \A i \in DOMAIN work' : work'[i].op = "lookup" => work'[i].name = Subject'
      BY <2>2, <2>4, <2>8 DEF LookupInv
    <3>2. ASSUME screen = "login", NEW i \in DOMAIN pending',
                 pending'[i].do = "lookup", pending'[i].exists
          PROVE  SubjectFound'
      BY <2>3, <2>6, <2>8, <3>2 DEF LookupInv
    <3>3. screen = "password" /\ prompt.login => SubjectFound'
      BY <2>6, <2>8 DEF LookupInv
    <3> QED
      BY <3>1, <3>2, <3>3
  <2> QED
    BY <1>0, <2>1, <2>2, <2>3, <2>7, <2>8 DEF LookupInv
<1>6. CASE ProcessCredentials
  <2>1. /\ screen = "password" /\ meanwhile \subseteq meanwhile'
        /\ UNCHANGED << pending, screen, entry, prompt, prefix, accounts >>
    BY <1>6 DEF ProcessCredentials, ClickAtLogin, Hasty, login, network
  <2>2. CASE work' = work
    BY <1>0, <1>1, <2>1, <2>2, JobsOf, CallbacksOf DEF Unconcerned
  <2>3. CASE Start([op |-> IF prompt.login THEN "login" ELSE "create",
                    name |-> prompt.name])
    <3> DEFINE job == [op |-> IF prompt.login THEN "login" ELSE "create",
                       name |-> prompt.name]
    <3>1. IsSequence(work')
      BY <1>0, <2>3, GrownQueue DEF Start
    <3>2. \A i \in DOMAIN work' : work'[i] = job \/ (i \in DOMAIN work /\ work'[i] = work[i])
      BY <1>0, <2>3, GrownQueue DEF Start
    <3>3. job.op # "lookup" /\ (prompt.login => job.op # "create")
      OBVIOUS
    <3> HIDE DEF job
    <3>4. Subject' = Subject /\ (SubjectFound => SubjectFound')
      BY <2>1 DEF Subject, SubjectFound
    <3> QED
      BY <2>1, <3>1, <3>2, <3>3, <3>4 DEF LookupInv, IsSequence
  <2> QED
    BY <1>6, <2>2, <2>3 DEF ProcessCredentials
<1>7. ASSUME NEW k, CreateAccount(k)
      PROVE  LookupInv'
  <2>1. /\ k \in DOMAIN work /\ work[k].op = "create" /\ work' = RemoveAt(work, k)
        /\ \E success : pending' = Append(pending, [do |-> "create", success |-> success])
        /\ UNCHANGED << screen, entry, prompt, meanwhile >>
    BY <1>7 DEF CreateAccount, Ends, Queued, login, history
  <2>2. IsSequence(work') /\ \A i \in DOMAIN work' : \E j \in DOMAIN work : work'[i] = work[j]
    BY <1>0, <2>1, ShrunkSequence
  <2>3. IsSequence(pending')
    BY <1>0, <2>1, GrownQueue
  <2>4. screen # "login" /\ ~ (screen = "password" /\ prompt.login)
    BY <2>1 DEF LookupInv
  <2>5. Subject' = Subject
    BY <2>1 DEF Subject
  <2> QED
    BY <1>0, <2>1, <2>2, <2>3, <2>4, <2>5 DEF LookupInv
<1>8. CASE CreateChatScreen
  <2>1. /\ screen' = "chat"
        /\ work' = Append(work, Operation("fetch"))
        /\ \E e : pending' = Append(pending, e)
    BY <1>8 DEF CreateChatScreen, LoadUserList, Queued, network
  <2> QED
    BY <1>0, <2>1, GrownQueue, PastLogin
<1>9. CASE Disconnects
  <2>1. <<>> \in Seq({})
    OBVIOUS
  <2> QED
    BY <1>0, <1>9, <2>1, PastLogin DEF Disconnects, IsSequence
<1>10. CASE /\ UNCHANGED << screen, entry, prompt, prefix >>
            /\ accounts \subseteq accounts'
            /\ meanwhile \subseteq meanwhile'
            /\ \/ work' = work
               \/ \E job : job.op \notin { "lookup", "create" } /\ Start(job)
               \/ \E k \in DOMAIN work : work' = RemoveAt(work, k)
            /\ \/ pending' = pending
               \/ \E e : e.do # "lookup" /\ pending' = Queued(e)
               \/ pending # <<>> /\ pending' = Tail(pending)
  <2>1. JobsKept
    BY <1>0, <1>10, JobsOf
  <2>2. CallbacksKept
    BY <1>0, <1>10, CallbacksOf
  <2> QED
    BY <1>1, <1>10, <2>1, <2>2 DEF Unconcerned
<1>11. CASE ServeCallback
  BY <1>4, <1>9, <1>10, <1>11
  DEF ServeCallback, Serves, HandleLoginResult, HandleAccountCreationResult,
      UpdateMessages, HandleDeleteMessagesResult, HandleUserResults,
      HandleSendMessageResult, UpdateServerList, Disconnect, login, network,
      history
<1>12. CASE RefreshServers
  <2>1. /\ UNCHANGED << pending, screen, entry, prompt, prefix, accounts, meanwhile >>
        /\ work' = work \o << Operation("refresh"), Operation("timer") >>
    BY <1>12 DEF RefreshServers, login, network
  <2>2. IsSequence(work')
    <3>1. PICK S : work \in Seq(S)
      BY <1>0 DEF IsSequence
    <3>2. work' \in Seq(S \cup { Operation("refresh"), Operation("timer") })
      BY <2>1, <3>1
    <3> QED
      BY <3>2 DEF IsSequence
  <2>3. ASSUME NEW i \in DOMAIN work'
        PROVE  \/ work'[i].op \in { "refresh", "timer" }
               \/ i \in DOMAIN work /\ work'[i] = work[i]
    BY <1>0, <2>1, <2>3 DEF IsSequence, Operation
  <2>4. JobsKept
    BY <2>2, <2>3 DEF JobsKept
  <2> QED
    BY <1>0, <1>1, <2>1, <2>4, CallbacksOf DEF Unconcerned
<1>13. ASSUME NEW new, ChangeUserPage(new)
       PROVE  LookupInv'
  <2>1. meanwhile \subseteq meanwhile'
    BY <1>13 DEF ChangeUserPage, LoadUserList, Hasty
  <2>2. work' = work \/ Start(Operation("fetch"))
    BY <1>13 DEF ChangeUserPage, LoadUserList, Start
  <2> QED
    BY <1>10, <1>13, <2>1, <2>2 DEF ChangeUserPage, Operation, login, network
<1>14. CASE Search
  <2>1. meanwhile \subseteq meanwhile'
    BY <1>14 DEF Search, LoadUserList, Hasty
  <2>2. Start(Operation("fetch"))
    BY <1>14 DEF Search, LoadUserList, Start
  <2> QED
    BY <1>10, <1>14, <2>1, <2>2 DEF Search, Operation, login, network
<1>15. CASE TickMessage \/ OpenNewMessageWindow
  <2>1. meanwhile \subseteq meanwhile'
    BY <1>15 DEF TickMessage, OpenNewMessageWindow, Hasty
  <2> QED
    BY <1>10, <1>15, <2>1 DEF TickMessage, OpenNewMessageWindow, loop, login, network
<1>16. CASE Gesture
  BY <1>2, <1>3, <1>6, <1>9, <1>10, <1>12, <1>13, <1>14, <1>15, <1>16
  DEF Gesture, DeleteSelectedMessages, ChangeMsgPage, EditSearch, SendMessage,
      ViewServers, CloseServers, ConfirmDeleteAccount, LogOut, Operation, loop,
      login, network
<1>17. CASE Answer
  BY <1>8, <1>10, <1>17
  DEF Answer, Dismiss, RemoveDeleted, DestroySent, AnswerConfirm, AccountDeleted,
      Operation, Callback, login, network, history
<1>18. ASSUME NEW k, FetchUsers(k)
       PROVE  LookupInv'
  <2>1. /\ k \in DOMAIN work
        /\ work' = [work EXCEPT ![k] = [op |-> "list", text |-> search]]
        /\ UNCHANGED << pending, screen, entry, prompt, prefix, accounts, meanwhile >>
    BY <1>18 DEF FetchUsers, login, network, history
  <2>2. IsSequence(work')
    <3>1. PICK S : work \in Seq(S)
      BY <1>0 DEF IsSequence
    <3>2. work' \in Seq(S \cup { [op |-> "list", text |-> search] })
      BY <2>1, <3>1
    <3> QED
      BY <3>2 DEF IsSequence
  <2>3. ASSUME NEW i \in DOMAIN work'
        PROVE  work'[i].op = "list" \/ (i \in DOMAIN work /\ work'[i] = work[i])
    BY <1>0, <2>1, <2>3 DEF IsSequence
  <2>4. JobsKept
    BY <2>2, <2>3 DEF JobsKept
  <2> QED
    BY <1>0, <1>1, <2>1, <2>4, CallbacksOf DEF Unconcerned
<1>19. ASSUME NEW k \in DOMAIN work, Operate(k)
       PROVE  LookupInv'
  BY <1>5, <1>7, <1>10, <1>18, <1>19
  DEF Operate, LogIn, ListUsers, ProcessSendMessage, DeleteMessages,
      DeleteAccount, TimerExpires, Raises, Ends, Callback, login, network, history
<1>20. CASE OnResize \/ Poll \/ PollNew \/ UpdateReplicas \/ OthersLeave
  BY <1>10, <1>20
  DEF OnResize, Poll, PollNew, HandsOut, UpdateReplicas, NewServers, Ends,
      OthersLeave, Callback, loop, login, network, history
<1>22. CASE Others
  BY <1>10, <1>22 DEF Others, Appears, loop, login
<1>21. CASE UNCHANGED vars
  BY <1>10, <1>21 DEF vars, loop, login, network, history
<1> QED
  BY <1>11, <1>16, <1>17, <1>19, <1>20, <1>21, <1>22 DEF Next

\* A name that is asked for its password to log in was created, and the prefix the
\* password is hashed with is that of the name, unless the name was edited while it
\* was looked up: however many lookups are under way, and whoever creates accounts.
THEOREM PromptOfLookupHolds == Spec => []PromptOfLookup
<1>1. Init => LookupInv
  <2> SUFFICES ASSUME Init
               PROVE  LookupInv
    OBVIOUS
  <2>1. <<>> \in Seq({})
    OBVIOUS
  <2>2. IsSequence(pending) /\ IsSequence(work)
    BY <2>1 DEF Init, IsSequence
  <2>4. /\ \A i \in DOMAIN pending : FALSE
        /\ \A i \in DOMAIN work : FALSE
    <3>1. \A i \in DOMAIN <<>> : FALSE
      OBVIOUS
    <3>2. pending = <<>> /\ work = <<>>
      BY DEF Init
    <3> QED
      BY <3>1, <3>2
  <2>5. screen = "login" /\ Subject \in Name
    BY DEF Init, Subject
  <2> QED
    BY <2>2, <2>4, <2>5 DEF LookupInv
<1>2. LookupInv => PromptOfLookup
  BY DEF LookupInv, PromptOfLookup, Subject, SubjectFound
<1> QED
  BY <1>1, <1>2, LookupInvStep, PTL DEF Spec

-----------------------------------------------------------------------------
\* Lists that loops build

\* The loop of Within: c.list is the list, c.set what is kept of it.
Keep(c, kept, x) == IF x \in c.set THEN Append(kept, x) ELSE kept

\* After k turns: what is in the set, as often and in the order it was met.
Kept(c, k, s) ==
  /\ s \in Seq(c.of)
  /\ \A i \in DOMAIN s : \E p \in 1 .. k : s[i] = c.list[p] /\ c.list[p] \in c.set
  /\ \A p \in 1 .. k : c.list[p] \in c.set => \E i \in DOMAIN s : s[i] = c.list[p]
  /\ \A i, j \in DOMAIN s :
       i < j => \E p, q \in 1 .. k : p < q /\ s[i] = c.list[p] /\ s[j] = c.list[q]

Keeping == INSTANCE FoldProofs WITH Step <- Keep, Holds <- Kept

LEMMA KeepKeeps ==
  ASSUME NEW c, NEW n \in Nat, NEW k \in 1 .. n, NEW s, Kept(c, k - 1, s), c.list[k] \in c.of
  PROVE  Kept(c, k, Keep(c, s, c.list[k]))
<1> DEFINE x == c.list[k]
<1>1. CASE x \notin c.set
  <2>1. Keep(c, s, x) = s
    BY <1>1 DEF Keep
  <2>2. \A p \in 1 .. k : p \in 1 .. k - 1 \/ p = k
    OBVIOUS
  <2>3. \A p \in 1 .. k - 1 : p \in 1 .. k
    OBVIOUS
  <2>4. /\ s \in Seq(c.of)
        /\ \A i \in DOMAIN s : \E p \in 1 .. k : s[i] = c.list[p] /\ c.list[p] \in c.set
    BY <2>3 DEF Kept
  <2>5. \A p \in 1 .. k : c.list[p] \in c.set => \E i \in DOMAIN s : s[i] = c.list[p]
    BY <1>1, <2>2 DEF Kept
  <2>6. \A i, j \in DOMAIN s :
          i < j => \E p, q \in 1 .. k : p < q /\ s[i] = c.list[p] /\ s[j] = c.list[q]
    BY <2>3 DEF Kept
  <2>7. Kept(c, k, s)
    BY <2>4, <2>5, <2>6 DEF Kept
  <2> QED
    BY <2>1, <2>7
<1>2. CASE x \in c.set
  <2> DEFINE t == Append(s, x)
  <2>1. Keep(c, s, x) = t
    BY <1>2 DEF Keep
  <2>2. s \in Seq(c.of) /\ t \in Seq(c.of) /\ Len(s) \in Nat
    <3>1. s \in Seq(c.of)
      BY DEF Kept
    <3> QED
      BY <3>1, AppendProperties, LenProperties
  <2>3. DOMAIN s = 1 .. Len(s) /\ DOMAIN t = 1 .. Len(s) + 1
    BY <2>2
  <2>4. (\A i \in DOMAIN s : t[i] = s[i]) /\ t[Len(s) + 1] = x
    BY <2>2
  <2> HIDE DEF t
  <2>5. \A p \in 1 .. k - 1 : p \in 1 .. k /\ p < k
    OBVIOUS
  <2>6. ASSUME NEW i \in DOMAIN t
        PROVE  \E p \in 1 .. k : t[i] = c.list[p] /\ c.list[p] \in c.set
    <3>1. CASE i \in DOMAIN s
      BY <2>4, <2>5, <3>1 DEF Kept
    <3>2. CASE i \notin DOMAIN s
      BY <1>2, <2>2, <2>3, <2>4, <3>2
    <3> QED
      BY <3>1, <3>2
  <2>7. ASSUME NEW p \in 1 .. k, c.list[p] \in c.set
        PROVE  \E i \in DOMAIN t : t[i] = c.list[p]
    <3>1. CASE p = k
      BY <2>2, <2>3, <2>4, <3>1
    <3>2. CASE p # k
      <4>1. PICK i \in DOMAIN s : s[i] = c.list[p]
        BY <2>7, <3>2 DEF Kept
      <4>2. i \in DOMAIN t /\ t[i] = c.list[p]
        BY <2>2, <2>3, <2>4, <4>1
      <4> QED
        BY <4>2
    <3> QED
      BY <3>1, <3>2
  <2>8. ASSUME NEW i \in DOMAIN t, NEW j \in DOMAIN t, i < j
        PROVE  \E p, q \in 1 .. k : p < q /\ t[i] = c.list[p] /\ t[j] = c.list[q]
    <3>1. i \in DOMAIN s
      BY <2>2, <2>3, <2>8
    <3>2. CASE j \in DOMAIN s
      <4>1. PICK p, q \in 1 .. k - 1 : p < q /\ s[i] = c.list[p] /\ s[j] = c.list[q]
        BY <2>8, <3>1, <3>2 DEF Kept
      <4> QED
        BY <2>4, <2>5, <3>1, <3>2, <4>1
    <3>3. CASE j \notin DOMAIN s
      <4>1. PICK p \in 1 .. k - 1 : s[i] = c.list[p]
        BY <3>1 DEF Kept
      <4>2. t[j] = c.list[k]
        BY <2>2, <2>3, <2>4, <3>3
      <4>3. p \in 1 .. k /\ p < k /\ k \in 1 .. k /\ t[i] = c.list[p]
        BY <2>4, <2>5, <3>1, <4>1
      <4> QED
        BY <4>2, <4>3
    <3> QED
      BY <3>2, <3>3
  <2>9. Kept(c, k, t)
    BY <2>2, <2>6, <2>7, <2>8 DEF Kept
  <2> QED
    BY <2>1, <2>9
<1> QED
  BY <1>1, <1>2

\* What is left of a list, in its order: all that is in the set.
Excerpt(w, list, set) ==
  /\ \A i \in DOMAIN w : \E p \in 1 .. Len(list) : w[i] = list[p] /\ list[p] \in set
  /\ \A p \in 1 .. Len(list) : list[p] \in set => \E i \in DOMAIN w : w[i] = list[p]
  /\ \A i, j \in DOMAIN w :
       i < j => \E p, q \in 1 .. Len(list) : p < q /\ w[i] = list[p] /\ w[j] = list[q]

LEMMA WithinKeeps ==
  ASSUME NEW S, NEW list \in Seq(S), NEW set
  PROVE  Within(list, set) \in Seq(S) /\ Excerpt(Within(list, set), list, set)
<1> DEFINE c == [list |-> list, set |-> set, of |-> S]
<1>1. c.list = list /\ c.set = set /\ c.of = S
  OBVIOUS
<1> HIDE DEF c
<1>2. Within(list, set) = Keeping!Fold(c, <<>>, list)
  BY <1>1 DEF Within, Keep, FoldLeft, MapThenFoldSet, Max,
       Keeping!Fold, Keeping!FoldLeft, Keeping!MapThenFoldSet, Keeping!Max
<1>3. Kept(c, 0, <<>>)
  <2>1. <<>> \in Seq(S) /\ DOMAIN <<>> = {}
    OBVIOUS
  <2> QED
    BY <1>1, <2>1 DEF Kept
<1>4. Len(list) \in Nat /\ DOMAIN list = 1 .. Len(list) /\ \A k \in 1 .. Len(list) : list[k] \in S
  BY LenProperties, ElementOfSeq
<1>5. \A k \in 1 .. Len(list) : \A s :
        Kept(c, k - 1, s) => Kept(c, k, Keep(c, s, list[k]))
  BY <1>1, <1>4, KeepKeeps
<1>6. Kept(c, Len(list), Keeping!Fold(c, <<>>, list))
  BY <1>3, <1>5, Keeping!FoldKeeps
<1>7. PICK w : w = Within(list, set)
  OBVIOUS
<1>8. Kept(c, Len(list), w)
  BY <1>2, <1>6, <1>7
<1>9. /\ w \in Seq(S)
      /\ \A i \in DOMAIN w : \E p \in 1 .. Len(list) : w[i] = list[p] /\ list[p] \in set
  BY <1>1, <1>8 DEF Kept
<1>10. \A p \in 1 .. Len(list) : list[p] \in set => \E i \in DOMAIN w : w[i] = list[p]
  BY <1>1, <1>8 DEF Kept
<1>11. \A i, j \in DOMAIN w :
         i < j => \E p, q \in 1 .. Len(list) : p < q /\ w[i] = list[p] /\ w[j] = list[q]
  BY <1>1, <1>8 DEF Kept
<1>12. Excerpt(w, list, set)
  BY <1>9, <1>10, <1>11 DEF Excerpt
<1> QED
  BY <1>7, <1>9, <1>12

-----------------------------------------------------------------------------
\* The messages of the callbacks that are queued

JoinTurn(c, list, e) == IF e.do = "update" THEN list \o e.messages ELSE list

\* After any number of turns: messages.
JoinTyped(c, k, list) == list \in Seq(Nat)

Joining == INSTANCE FoldProofs WITH Step <- JoinTurn, Holds <- JoinTyped

LEMMA JoinedIs ==
  ASSUME NEW q
  PROVE  Joined(q) = Joining!Fold(0, <<>>, q)
BY DEF Joined, JoinTurn, FoldLeft, MapThenFoldSet, Max,
       Joining!Fold, Joining!FoldLeft, Joining!MapThenFoldSet, Joining!Max

\* The messages a callback brings.
Brought(e) == IF e.do = "update" THEN e.messages ELSE <<>>

LEMMA CallbackFields ==
  ASSUME NEW e \in Callbacks
  PROVE  /\ e.do \in { "servers", "disconnect", "lookup", "login", "create", "deleted",
                       "sent", "update", "users" }
         /\ e.do = "login" => e.unread \in Nat /\ e.success \in BOOLEAN
         /\ e.do \in { "create", "deleted", "sent" } => e.success \in BOOLEAN
         /\ e.do = "lookup" => e.exists \in BOOLEAN
         /\ e.do = "update" => e.messages \in Seq(Nat)
         /\ e.do = "users" => e.found \in Seq(Account)
<1>1. CASE e \in [do : {"servers", "disconnect"}]
  BY <1>1
<1>2. CASE e \in [do : {"lookup"}, exists : BOOLEAN]
  BY <1>2
<1>3. CASE e \in [do : {"login"}, success : BOOLEAN, unread : Nat]
  BY <1>3
<1>4. CASE e \in [do : {"create", "deleted", "sent"}, success : BOOLEAN]
  BY <1>4
<1>5. CASE e \in [do : {"update"}, messages : Seq(Nat)]
  BY <1>5
<1>6. CASE e \in [do : {"users"}, found : Seq(Account)]
  BY <1>6
<1> QED
  BY <1>1, <1>2, <1>3, <1>4, <1>5, <1>6 DEF Callbacks

LEMMA BroughtTyped ==
  ASSUME NEW e \in Callbacks
  PROVE  Brought(e) \in Seq(Nat)
BY CallbackFields, EmptySeq DEF Brought

LEMMA JoinTurnIs ==
  ASSUME NEW c, NEW list \in Seq(Nat), NEW e \in Callbacks
  PROVE  JoinTurn(c, list, e) = list \o Brought(e)
BY ConcatEmptySeq DEF JoinTurn, Brought

LEMMA JoinedTyped ==
  ASSUME NEW q \in Seq(Callbacks)
  PROVE  Joined(q) \in Seq(Nat)
<1>1. JoinTyped(0, 0, <<>>)
  BY EmptySeq DEF JoinTyped
<1>2. \A k \in 1 .. Len(q) : \A s :
        JoinTyped(0, k - 1, s) => JoinTyped(0, k, JoinTurn(0, s, q[k]))
  <2> TAKE k \in 1 .. Len(q)
  <2> TAKE s
  <2> HAVE JoinTyped(0, k - 1, s)
  <2>1. q[k] \in Callbacks /\ s \in Seq(Nat)
    BY ElementOfSeq DEF JoinTyped
  <2>2. JoinTurn(0, s, q[k]) = s \o Brought(q[k])
    BY <2>1, JoinTurnIs
  <2>3. Brought(q[k]) \in Seq(Nat)
    BY <2>1, BroughtTyped
  <2>4. s \o Brought(q[k]) \in Seq(Nat)
    BY <2>1, <2>3, ConcatProperties
  <2> QED
    BY <2>2, <2>4 DEF JoinTyped
<1>3. JoinTyped(0, Len(q), Joining!Fold(0, <<>>, q))
  BY <1>1, <1>2, Joining!FoldKeeps
<1> QED
  BY <1>3, JoinedIs DEF JoinTyped

LEMMA JoinedNothing == Joined(<<>>) = <<>>
BY JoinedIs, Joining!FoldEmpty

\* A callback that is queued brings its messages after all others.
LEMMA JoinedAppend ==
  ASSUME NEW q \in Seq(Callbacks), NEW e \in Callbacks
  PROVE  Joined(Append(q, e)) = Joined(q) \o Brought(e)
<1>1. Joined(Append(q, e)) = JoinTurn(0, Joined(q), e)
  BY JoinedIs, Joining!FoldAppend
<1> QED
  BY <1>1, JoinTurnIs, JoinedTyped

\* A loop that starts from a list leaves it in front.
LEMMA JoinedAfter ==
  ASSUME NEW q \in Seq(Callbacks), NEW base \in Seq(Nat)
  PROVE  Joining!Fold(0, base, q) = base \o Joined(q)
<1> DEFINE n == Len(q)
<1>1. n \in Nat /\ \A k \in 1 .. n : q[k] \in Callbacks
  BY LenProperties, ElementOfSeq
<1>2. PICK g : Joining!Turns(0, <<>>, q, g)
  BY Joining!FoldTurns
<1>3. PICK h : Joining!Turns(0, base, q, h)
  BY Joining!FoldTurns
<1> DEFINE P == { k \in Nat : g[k] \in Seq(Nat) /\ h[k] = base \o g[k] }
<1> HIDE DEF n
<1>4. 0 \in P
  <2>1. g[0] = <<>> /\ h[0] = base
    BY <1>2, <1>3 DEF Joining!Turns
  <2> QED
    BY <2>1, EmptySeq, ConcatEmptySeq
<1>5. \A k \in 0 .. n : k < n /\ k \in P => k + 1 \in P
  <2> TAKE k \in 0 .. n
  <2> HAVE k < n /\ k \in P
  <2>1. k + 1 \in 1 .. n /\ (k + 1) - 1 = k /\ k + 1 \in Nat
    BY <1>1
  <2> DEFINE e == q[k + 1]
  <2>2. g[k + 1] = JoinTurn(0, g[k], e)
    BY <1>2, <2>1 DEF Joining!Turns, n
  <2>3. h[k + 1] = JoinTurn(0, h[k], e)
    BY <1>3, <2>1 DEF Joining!Turns, n
  <2>4. e \in Callbacks
    BY <1>1, <2>1
  <2>5. g[k] \in Seq(Nat) /\ h[k] = base \o g[k] /\ base \o g[k] \in Seq(Nat)
    BY ConcatProperties
  <2> HIDE DEF e, P
  <2>6. Brought(e) \in Seq(Nat)
    BY <2>4, BroughtTyped
  <2>7. g[k + 1] = g[k] \o Brought(e) /\ h[k + 1] = (base \o g[k]) \o Brought(e)
    BY <2>2, <2>3, <2>4, <2>5, JoinTurnIs
  <2>8. g[k + 1] \in Seq(Nat)
    BY <2>5, <2>6, <2>7, ConcatProperties
  <2>9. (base \o g[k]) \o Brought(e) = base \o (g[k] \o Brought(e))
    <3>1. \A s, t, u \in Seq(Nat) : (s \o t) \o u = s \o (t \o u)
      BY ConcatAssociative
    <3>2. g[k] \in Seq(Nat)
      BY <2>5
    <3> QED
      BY <2>6, <3>1, <3>2, Zenon
  <2>10. h[k + 1] = base \o g[k + 1]
    BY <2>7, <2>9
  <2> QED
    BY <2>1, <2>8, <2>10 DEF P
<1> HIDE DEF P
<1>6. n \in P
  <2>1. 0 .. n \subseteq P
    BY <1>1, <1>4, <1>5, Joining!Ascent
  <2> QED
    BY <1>1, <2>1
<1>7. Joining!Fold(0, <<>>, q) = g[n] /\ Joining!Fold(0, base, q) = h[n]
  BY <1>2, <1>3 DEF Joining!Turns, n
<1> QED
  BY <1>6, <1>7, JoinedIs DEF P

\* A callback that is served brings its messages before all others.
LEMMA JoinedFirst ==
  ASSUME NEW q \in Seq(Callbacks), q # <<>>
  PROVE  Joined(q) = Brought(Head(q)) \o Joined(Tail(q))
<1>1. Head(q) \in Callbacks /\ Tail(q) \in Seq(Callbacks)
  BY HeadTailProperties
<1>2. Joined(q) = Joining!Fold(0, JoinTurn(0, <<>>, Head(q)), Tail(q))
  BY JoinedIs, Joining!FoldFirst
<1>3. JoinTurn(0, <<>>, Head(q)) = Brought(Head(q))
  <2>1. <<>> \in Seq(Nat) /\ Brought(Head(q)) \in Seq(Nat)
    BY <1>1, BroughtTyped, EmptySeq
  <2>2. JoinTurn(0, <<>>, Head(q)) = <<>> \o Brought(Head(q))
    BY <1>1, <2>1, JoinTurnIs
  <2>3. <<>> \o Brought(Head(q)) = Brought(Head(q))
    BY <2>1, ConcatEmptySeq
  <2> QED
    BY <2>2, <2>3
<1> QED
  BY <1>1, <1>2, <1>3, JoinedAfter, BroughtTyped

-----------------------------------------------------------------------------
\* Types

LEMMA Retyped ==
  ASSUME NEW S, NEW s, IsSequence(s), \A i \in DOMAIN s : s[i] \in S
  PROVE  s \in Seq(S)
<1>1. PICK T : s \in Seq(T)
  BY DEF IsSequence
<1>2. Len(s) \in Nat /\ DOMAIN s = 1 .. Len(s) /\ s = [i \in 1 .. Len(s) |-> s[i]]
  BY <1>1
<1> QED
  BY <1>2

\* What is done to the queues of the loop leaves them typed.
LEMMA TypedQueues ==
  ASSUME NEW S, NEW q \in Seq(S)
  PROVE  /\ IsSequence(q)
         /\ q # <<>> => Head(q) \in S /\ Tail(q) \in Seq(S)
         /\ \A e \in S : Append(q, e) \in Seq(S) /\ << e >> \o q \in Seq(S)
         /\ \A k \in DOMAIN q : q[k] \in S /\ RemoveAt(q, k) \in Seq(S)
<1>1. IsSequence(q)
  BY DEF IsSequence
<1>2. ASSUME NEW k \in DOMAIN q
      PROVE  q[k] \in S /\ RemoveAt(q, k) \in Seq(S)
  <2>1. \A i \in DOMAIN q : q[i] \in S
    OBVIOUS
  <2>2. IsSequence(RemoveAt(q, k)) /\ \A i \in DOMAIN RemoveAt(q, k) : RemoveAt(q, k)[i] \in S
    BY <1>1, <2>1, ShrunkSequence
  <2> QED
    BY <2>1, <2>2, Retyped
<1>3. \A e \in S : Append(q, e) \in Seq(S) /\ << e >> \o q \in Seq(S)
  OBVIOUS
<1>4. q # <<>> => Head(q) \in S /\ Tail(q) \in Seq(S)
  OBVIOUS
<1> QED
  BY <1>1, <1>2, <1>3, <1>4

LEMMA CallbackMade ==
  /\ Callback("servers") \in Callbacks /\ Callback("disconnect") \in Callbacks
  /\ \A b \in BOOLEAN :
       /\ [do |-> "lookup", exists |-> b] \in Callbacks
       /\ [do |-> "create", success |-> b] \in Callbacks
       /\ [do |-> "deleted", success |-> b] \in Callbacks
       /\ [do |-> "sent", success |-> b] \in Callbacks
       /\ \A n \in Nat : [do |-> "login", success |-> b, unread |-> n] \in Callbacks
  /\ \A s \in Seq(Nat) : [do |-> "update", messages |-> s] \in Callbacks
  /\ \A s \in Seq(Account) : [do |-> "users", found |-> s] \in Callbacks
BY DEF Callbacks, Callback

LEMMA JobMade ==
  /\ \A op \in {"fetch", "delete", "refresh", "timer", "deleteAccount"} :
       Operation(op) \in Job
  /\ \A n \in Nat : [op |-> "send", window |-> n] \in Job
  /\ \A name \in Name : /\ [op |-> "lookup", name |-> name] \in Job
                        /\ [op |-> "login", name |-> name] \in Job
                        /\ [op |-> "create", name |-> name] \in Job
  /\ \A text \in SearchText : [op |-> "list", text |-> text] \in Job
BY DEF Job, Operation

LEMMA JobFields ==
  ASSUME NEW j \in Job
  PROVE  /\ j.op \in {"lookup", "login", "create"} => j.name \in Name
         /\ j.op = "list" => j.text \in SearchText
         /\ j.op = "send" => j.window \in Nat
<1>1. CASE j \in [op : {"fetch", "delete", "refresh", "timer", "deleteAccount"}]
  BY <1>1
<1>2. CASE j \in [op : {"lookup", "login", "create"}, name : Name]
  BY <1>2
<1>3. CASE j \in [op : {"list"}, text : SearchText]
  BY <1>3
<1>4. CASE j \in [op : {"send"}, window : Nat]
  BY <1>4
<1> QED
  BY <1>1, <1>2, <1>3, <1>4 DEF Job

\* The pages that the client shows and the server answers are of their lists.
LEMMA SliceTyped ==
  ASSUME NEW S, NEW list \in Seq(S), NEW p \in Nat, NEW size \in Nat \ {0}
  PROVE  Slice(list, p, size) \in Seq(S)
<1> DEFINE a == p * size
           b == Least((p + 1) * size, Len(list))
<1>1. a \in Nat /\ b \in Nat /\ b <= Len(list) /\ Len(list) \in Nat
  BY LenProperties DEF Least
<1>2. \A i \in a + 1 .. b : list[i] \in S
  <2> HIDE DEF a, b
  <2> TAKE i \in a + 1 .. b
  <2>1. i \in 1 .. Len(list)
    BY <1>1
  <2> QED
    BY <2>1, ElementOfSeq
<1> HIDE DEF a, b
<1>3. SubSeq(list, a + 1, b) \in Seq(S)
  BY <1>1, <1>2, SubSeqProperties
<1> QED
  BY <1>3 DEF Slice, a, b

\* A listing has each of the accounts once.
LEMMA ListingIs ==
  ASSUME NEW exist \in SUBSET Account, NEW order \in Listings[exist]
  PROVE  /\ order \in Seq(Account) /\ Range(order) = exist /\ IsInjective(order)
         /\ \A i, j \in DOMAIN order : i < j => Stamp[order[i]] <= Stamp[order[j]]
<1> DEFINE n == Cardinality(exist)
<1>1. n \in Nat
  <2>1. IsFiniteSet(Account)
    BY Constants, FS_Interval
  <2>2. IsFiniteSet(exist)
    BY <2>1, FS_Subset
  <2> QED
    BY <2>2, FS_CardinalityType
<1>2. order \in Bijection(1 .. n, exist)
  BY DEF Listings
<1>3. \A i, j \in DOMAIN order : i < j => Stamp[order[i]] <= Stamp[order[j]]
  BY DEF Listings
<1> HIDE DEF n
<1>4. /\ order \in [1 .. n -> exist] /\ IsInjective(order)
      /\ \A a \in exist : \E i \in 1 .. n : order[i] = a
  BY <1>2 DEF Bijection, Injection, Surjection
<1>5. order \in Seq(Account) /\ DOMAIN order = 1 .. n
  BY <1>1, <1>4
<1>6. Range(order) = exist
  BY <1>4, <1>5 DEF Range
<1> QED
  BY <1>3, <1>4, <1>5, <1>6

LEMMA ListedTyped ==
  ASSUME NEW order \in Seq(Account), NEW text, NEW from
  PROVE  ListAccounts(order, text, from) \in Seq(Account)
<1>1. Within(order, Matches[text]) \in Seq(Account)
  BY WithinKeeps
<1>2. Within(Within(order, Matches[text]), Younger(from)) \in Seq(Account)
  BY <1>1, WithinKeeps
<1> QED
  BY <1>2, Constants, SliceTyped DEF ListAccounts

-----------------------------------------------------------------------------
\* What the types are made of

TypedLoop ==
  /\ pending \in Seq(Callbacks) /\ dialogs \in Seq(Rests) /\ work \in Seq(Job)

TypedLogin ==
  /\ screen \in { "login", "password", "chat", "closed" }
  /\ entry \in Name \cup {None}
  /\ prompt \in [name : Name, login : BOOLEAN] \cup {None}
  /\ screen = "login" => entry # None
  /\ screen = "password" => prompt # None

TypedWindows ==
  /\ draft \in [window : Nat, sent : BOOLEAN] \cup {None}
  /\ popup \in Nat \cup {None}
  /\ draft # None \/ popup # None => screen = "chat"

TypedPane ==
  /\ messages \in Seq(Nat) /\ unread \in Nat /\ page \in Nat
  /\ boxes \in Seq(Nat) /\ selected \subseteq Nat
  /\ nav \in [{"older", "newer"} -> BOOLEAN]
  /\ drawn \in BOOLEAN /\ sized \in BOOLEAN

TypedPeople ==
  /\ users \in Seq(Account) /\ userPage \in Nat /\ offset \in Nat
  /\ search \in SearchText /\ previous \in SearchText

TypedNetwork ==
  /\ accounts \subseteq Account /\ gone \subseteq Account
  /\ arrived \in Nat /\ handed \in 0 .. arrived
  /\ orphans \subseteq handed + 1 .. arrived /\ servers \in Nat
  /\ {prefix, username} \subseteq Name \cup {None}
  /\ session \in BOOLEAN /\ polling \in BOOLEAN

TypedHistory ==
  /\ clicks \in Nat /\ faults \in Nat
  /\ asked \subseteq Nat /\ lost \subseteq Nat /\ late \subseteq Account
  /\ meanwhile \subseteq Hastes

Typed ==
  /\ TypedLoop /\ TypedLogin /\ TypedWindows /\ TypedPane /\ TypedPeople
  /\ TypedNetwork /\ TypedHistory

LEMMA TypedIs == Typed <=> TypeOK
BY DEF Typed, TypeOK, TypedLoop, TypedLogin, TypedWindows, TypedPane, TypedPeople,
       TypedNetwork, TypedHistory

\* The numbers of the network, for the arithmetic of its steps.
LEMMA NetworkNumbers ==
  ASSUME TypedNetwork, TypedHistory
  PROVE  /\ arrived \in Nat /\ handed \in Nat /\ handed <= arrived
         /\ servers \in Nat /\ News \in Int /\ Least(News, MaxMsg) \in Int
<1>1. /\ arrived \in Nat /\ handed \in Nat /\ handed <= arrived
      /\ servers \in Nat /\ faults \in Nat
  BY Constants DEF TypedNetwork, TypedHistory
<1>2. News \in Int
  <2>1. IsFiniteSet(Account)
    BY Constants, FS_Interval
  <2>2. accounts \ FirstUsers \in SUBSET Account /\ gone \in SUBSET Account
    BY DEF TypedNetwork
  <2>3. Cardinality(accounts \ FirstUsers) \in Nat /\ Cardinality(gone) \in Nat
    BY <2>1, <2>2, FS_Subset, FS_CardinalityType
  <2> QED
    BY <1>1, <2>3, Constants DEF News
<1> QED
  BY <1>1, <1>2, Constants DEF Least

\* There is always another window: fewer are open or being sent from.
LEMMA NewWindowIs ==
  ASSUME work \in Seq(Job), TypedWindows
  PROVE  NewWindow \in Nat /\ NewWindow \notin Windows
<1> DEFINE n == Len(work)
           K == { k \in DOMAIN work : work[k].op = "send" }
           S == 0 .. n + 1
           T == 0 .. n
           g(w) == IF \E i \in K : work[i].window = w
                     THEN CHOOSE i \in K : work[i].window = w ELSE 0
           f == [w \in S |-> g(w)]
<1>1. n \in Nat /\ K \subseteq 1 .. n
  BY LenProperties
<1>2. \A w \in Windows : (\E i \in K : work[i].window = w) \/ w = draft.window
  BY DEF Windows
<1>3. /\ IsFiniteSet(S) /\ Cardinality(S) = n + 2
      /\ IsFiniteSet(T) /\ Cardinality(T) = n + 1
  <2> HIDE DEF n, K, f
  <2>1. 0 \in Int /\ n \in Int /\ n + 1 \in Int /\ ~ (0 > n) /\ ~ (0 > n + 1)
    BY <1>1
  <2>2. IsFiniteSet(S) /\ Cardinality(S) = (n + 1) - 0 + 1
    BY <2>1, FS_Interval
  <2>3. IsFiniteSet(T) /\ Cardinality(T) = n - 0 + 1
    BY <2>1, FS_Interval
  <2> QED
    BY <1>1, <2>2, <2>3
<1> HIDE DEF n, K
<1>4. f \in [S -> T]
  <2>1. ASSUME NEW w \in S
        PROVE  g(w) \in T
    <3>1. CASE \E i \in K : work[i].window = w
      <4>1. g(w) = CHOOSE i \in K : work[i].window = w
        BY <3>1
      <4>2. (CHOOSE i \in K : work[i].window = w) \in K
        BY <3>1
      <4> HIDE DEF g
      <4>3. g(w) \in K
        BY <4>1, <4>2
      <4>4. K \subseteq T
        BY <1>1
      <4> QED
        BY <4>3, <4>4
    <3>2. CASE ~ \E i \in K : work[i].window = w
      BY <1>1, <3>2
    <3> QED
      BY <3>1, <3>2
  <2> HIDE DEF g
  <2> QED
    BY <2>1
<1>5. PICK u, v \in S : u # v /\ f[u] = f[v]
  <2> HIDE DEF S, T, f
  <2> QED
    BY <1>1, <1>3, <1>4, FS_PigeonHole
<1>6. ~ (S \subseteq Windows)
  <2> SUFFICES ASSUME S \subseteq Windows
               PROVE  FALSE
    OBVIOUS
  <2>1. \A w \in S : /\ f[w] # 0 => f[w] \in K /\ work[f[w]].window = w
                     /\ f[w] = 0 => w = draft.window
    <3> TAKE w \in S
    <3>1. CASE \E i \in K : work[i].window = w
      <4>1. f[w] \in K /\ work[f[w]].window = w
        BY <3>1
      <4>2. f[w] # 0
        BY <1>1, <4>1
      <4> QED
        BY <4>1, <4>2
    <3>2. CASE ~ \E i \in K : work[i].window = w
      <4>1. f[w] = 0 /\ w = draft.window
        BY <1>2, <3>2
      <4> QED
        BY <4>1
    <3> QED
      BY <3>1, <3>2
  <2> HIDE DEF f, S
  <2> QED
    BY <1>5, <2>1
<1>7. \E w \in S : w \notin Windows
  BY <1>6
<1> QED
  BY <1>1, <1>7 DEF NewWindow, n

LEMMA PendingTyped ==
  ASSUME Typed, [Next]_vars
  PROVE  pending' \in Seq(Callbacks)
<1>0. /\ pending \in Seq(Callbacks) /\ work \in Seq(Job)
      /\ arrived \in Nat /\ handed \in Nat /\ handed <= arrived
      /\ Least(News, MaxMsg) \in Int /\ MaxMsg \in Nat \ {0}
      /\ session \in BOOLEAN /\ accounts \subseteq Account
  BY NetworkNumbers, Constants DEF Typed, TypedLoop, TypedNetwork
<1>1. CASE UNCHANGED pending
  BY <1>0, <1>1
<1>2. CASE pending # <<>> /\ pending' = Tail(pending)
  BY <1>0, <1>2, TypedQueues
<1>3. CASE \E e \in Callbacks : pending' = Queued(e)
  BY <1>0, <1>3, TypedQueues DEF Queued
<1>4. CASE pending' = <<>>
  BY <1>4, EmptySeq
<1>5. CASE ServeCallback
  BY <1>2, <1>4, <1>5
  DEF ServeCallback, Serves, HandleLookupResult, HandleLoginResult,
      HandleAccountCreationResult, UpdateMessages, HandleDeleteMessagesResult,
      HandleUserResults, HandleSendMessageResult, UpdateServerList, Disconnect,
      Disconnects
<1>6. CASE Gesture
  BY <1>1, <1>4, <1>6
  DEF Gesture, EditName, CheckUsername, ProcessCredentials, TickMessage,
      DeleteSelectedMessages, ChangeMsgPage, EditSearch, Search, ChangeUserPage,
      OpenNewMessageWindow, SendMessage, ViewServers, CloseServers,
      RefreshServers, ConfirmDeleteAccount, LogOut, Disconnects, loop
<1>7. CASE Answer
  <2>1. <<>> \in Seq(Nat)
    BY EmptySeq
  <2> QED
    BY <1>1, <1>3, <1>7, <2>1, CallbackMade
    DEF Answer, Dismiss, CreateChatScreen, RemoveDeleted, DestroySent,
        AnswerConfirm, AccountDeleted
<1>8. ASSUME NEW i \in DOMAIN work, Operate(i)
      PROVE  pending' \in Seq(Callbacks)
  <2>1. ASSUME LookupUsername(i)
        PROVE  pending' \in Seq(Callbacks)
    <3> DEFINE exists == work[i].name \in accounts \ gone
    <3>1. exists \in BOOLEAN /\ pending' = Queued([do |-> "lookup", exists |-> exists])
      BY <2>1 DEF LookupUsername
    <3> HIDE DEF exists
    <3> QED
      BY <1>3, <3>1, CallbackMade
  <2>2. ASSUME LogIn(i)
        PROVE  pending' \in Seq(Callbacks)
    <3>1. arrived - handed \in Nat /\ 0 \in Nat
      BY <1>0
    <3>2. \E b \in BOOLEAN, n \in Nat :
            pending' = Queued([do |-> "login", success |-> b, unread |-> n])
      BY <2>2, <3>1 DEF LogIn
    <3> QED
      BY <1>3, <3>2, CallbackMade
  <2>3. ASSUME CreateAccount(i)
        PROVE  pending' \in Seq(Callbacks)
    <3>1. \E b \in BOOLEAN : pending' = Queued([do |-> "create", success |-> b])
      BY <2>3 DEF CreateAccount
    <3> QED
      BY <1>3, <3>1, CallbackMade
  <2>4. ASSUME ListUsers(i)
        PROVE  pending' \in Seq(Callbacks)
    <3>1. \A order \in Listings[accounts \ gone] :
            ListAccounts(order, work[i].text, offset) \in Seq(Account)
      <4> TAKE order \in Listings[accounts \ gone]
      <4>1. accounts \ gone \in SUBSET Account
        BY <1>0
      <4>2. order \in Seq(Account)
        BY <4>1, ListingIs
      <4> QED
        BY <4>2, ListedTyped
    <3>2. <<>> \in Seq(Account)
      BY EmptySeq
    <3>3. \/ UNCHANGED pending
          \/ \E s \in Seq(Account) : pending' = Queued([do |-> "users", found |-> s])
      BY <2>4, <3>1, <3>2 DEF ListUsers
    <3> QED
      BY <1>1, <1>3, <3>3, CallbackMade
  <2>5. CASE ProcessSendMessage(i) \/ DeleteMessages(i) \/ TimerExpires(i)
    BY <1>0, <1>3, <2>5, CallbackMade DEF ProcessSendMessage, DeleteMessages, TimerExpires
  <2>6. CASE FetchUsers(i) \/ DeleteAccount(i) \/ Raises(i)
    BY <1>1, <2>6 DEF FetchUsers, DeleteAccount, Raises
  <2> QED
    BY <1>8, <2>1, <2>2, <2>3, <2>4, <2>5, <2>6 DEF Operate
<1>9. ASSUME NEW n \in Nat, n - handed \in Nat, HandsOut(n)
      PROVE  pending' \in Seq(Callbacks)
  <2> DEFINE s == [k \in 1 .. n - handed |-> handed + k]
  <2>1. s \in Seq(Nat)
    BY <1>0, <1>9
  <2>2. pending' = Queued([do |-> "update", messages |-> s]) \/ UNCHANGED pending
    BY <1>9 DEF HandsOut
  <2> HIDE DEF s
  <2> QED
    BY <1>1, <1>3, <2>1, <2>2, CallbackMade
<1>10. CASE Poll \/ PollNew
  <2>1. CASE Poll
    <3> DEFINE n == Least(arrived, handed + MaxMsg)
    <3>1. n \in Nat /\ n - handed \in Nat /\ HandsOut(n)
      BY <1>0, <2>1 DEF Least, Poll
    <3> QED
      BY <1>9, <3>1
  <2>2. CASE PollNew
    <3>1. PICK n : n = arrived'
      OBVIOUS
    <3>2. PICK most \in Int : most = Least(News, MaxMsg)
      BY <1>0
    <3>3. n \in handed + 1 .. handed + most
      BY <2>2, <3>1, <3>2 DEF PollNew
    <3>4. n \in Nat /\ n - handed \in Nat
      BY <1>0, <3>3
    <3>5. HandsOut(n)
      BY <2>2, <3>1 DEF PollNew
    <3> QED
      BY <1>9, <3>4, <3>5
  <2> QED
    BY <1>10, <2>1, <2>2
<1>11. CASE OnResize \/ UpdateReplicas \/ Others \/ OthersLeave
  BY <1>1, <1>3, <1>11, CallbackMade DEF OnResize, UpdateReplicas, NewServers, Others, OthersLeave, loop
<1>12. CASE UNCHANGED vars
  BY <1>1, <1>12 DEF vars, loop
<1> QED
  BY <1>5, <1>6, <1>7, <1>8, <1>10, <1>11, <1>12 DEF Next

LEMMA DialogsTyped ==
  ASSUME Typed, [Next]_vars
  PROVE  dialogs' \in Seq(Rests)
<1>0. dialogs \in Seq(Rests)
  BY DEF Typed, TypedLoop
<1>1. CASE UNCHANGED dialogs
  BY <1>0, <1>1
<1>2. CASE \E rest \in Rests : Shows(rest)
  BY <1>0, <1>2, TypedQueues DEF Shows
<1>3. CASE \E rest : Closes(rest)
  BY <1>0, <1>3, TypedQueues DEF Closes
<1>4. CASE dialogs' = <<>>
  BY <1>4, EmptySeq
<1>5. CASE ServeCallback
  BY <1>1, <1>2, <1>4, <1>5
  DEF ServeCallback, HandleLookupResult, HandleLoginResult,
      HandleAccountCreationResult, UpdateMessages, HandleDeleteMessagesResult,
      HandleUserResults, HandleSendMessageResult, UpdateServerList, Disconnect,
      Disconnects, Rests
<1>6. CASE Gesture
  BY <1>1, <1>2, <1>4, <1>6
  DEF Gesture, EditName, CheckUsername, ProcessCredentials, TickMessage,
      DeleteSelectedMessages, ChangeMsgPage, EditSearch, Search, ChangeUserPage,
      OpenNewMessageWindow, SendMessage, ViewServers, CloseServers,
      RefreshServers, ConfirmDeleteAccount, LogOut, Disconnects, loop, Rests
<1>7. CASE Answer
  BY <1>3, <1>7
  DEF Answer, Dismiss, CreateChatScreen, RemoveDeleted, DestroySent,
      AnswerConfirm, AccountDeleted
<1>8. ASSUME NEW i \in DOMAIN work, Operate(i)
      PROVE  dialogs' \in Seq(Rests)
  BY <1>1, <1>2, <1>8
  DEF Operate, LookupUsername, LogIn, CreateAccount, FetchUsers, ListUsers,
      ProcessSendMessage, DeleteMessages, DeleteAccount, TimerExpires, Raises, Rests
<1>9. CASE OnResize \/ Poll \/ PollNew \/ UpdateReplicas \/ Others \/ OthersLeave
  BY <1>1, <1>9 DEF OnResize, Poll, PollNew, HandsOut, UpdateReplicas, Others, OthersLeave, loop
<1>10. CASE UNCHANGED vars
  BY <1>1, <1>10 DEF vars, loop
<1> QED
  BY <1>5, <1>6, <1>7, <1>8, <1>9, <1>10 DEF Next

LEMMA WorkTyped ==
  ASSUME Typed, [Next]_vars
  PROVE  work' \in Seq(Job)
<1>0. work \in Seq(Job)
  BY DEF Typed, TypedLoop
<1>1. CASE UNCHANGED work
  BY <1>0, <1>1
<1>2. CASE \E job \in Job : work' = Append(work, job)
  BY <1>0, <1>2, TypedQueues
<1>3. CASE \E i : \E op : Ends(i, op)
  BY <1>0, <1>3, TypedQueues DEF Ends
<1>4. CASE work' = <<>>
  BY <1>4, EmptySeq
<1>5. CASE ServeCallback
  BY <1>1, <1>4, <1>5
  DEF ServeCallback, HandleLookupResult, HandleLoginResult,
      HandleAccountCreationResult, UpdateMessages, HandleDeleteMessagesResult,
      HandleUserResults, HandleSendMessageResult, UpdateServerList, Disconnect,
      Disconnects
<1>6. CASE CheckUsername
  <2>1. entry \in Name
    BY <1>6 DEF CheckUsername, ClickAtLogin, Typed, TypedLogin
  <2> QED
    BY <1>2, <1>6, <2>1, JobMade DEF CheckUsername, Start
<1>7. CASE ProcessCredentials
  <2>1. prompt.name \in Name
    BY <1>7 DEF ProcessCredentials, ClickAtLogin, Typed, TypedLogin
  <2>2. \/ UNCHANGED work
        \/ \E op \in {"login", "create"} : work' = Append(work, [op |-> op, name |-> prompt.name])
    BY <1>7 DEF ProcessCredentials, Start
  <2> QED
    BY <1>1, <1>2, <2>1, <2>2, JobMade
<1>8. CASE RefreshServers
  BY <1>0, <1>8, JobMade DEF RefreshServers
<1>14. CASE SendMessage
  <2>1. draft.window \in Nat
    BY <1>14 DEF SendMessage, Typed, TypedWindows
  <2>2. UNCHANGED work \/ work' = Append(work, [op |-> "send", window |-> draft.window])
    BY <1>14 DEF SendMessage, Start
  <2> QED
    BY <1>1, <1>2, <2>1, <2>2, JobMade
<1>9. CASE Gesture
  BY <1>1, <1>2, <1>4, <1>6, <1>7, <1>8, <1>9, <1>14, JobMade
  DEF Gesture, EditName, TickMessage,
      DeleteSelectedMessages, ChangeMsgPage, EditSearch, Search, ChangeUserPage,
      OpenNewMessageWindow, ViewServers, CloseServers,
      ConfirmDeleteAccount, LogOut, Disconnects, loop, Start, LoadUserList
<1>10. CASE Answer
  BY <1>1, <1>2, <1>10, JobMade
  DEF Answer, Dismiss, CreateChatScreen, RemoveDeleted, DestroySent,
      AnswerConfirm, AccountDeleted, LoadUserList, Start
<1>11. ASSUME NEW i \in DOMAIN work, Operate(i)
      PROVE  work' \in Seq(Job)
  <2>1. CASE FetchUsers(i)
    <3>1. [op |-> "list", text |-> search] \in Job
      BY JobMade DEF Typed, TypedPeople
    <3>2. i \in 1 .. Len(work)
      BY <1>0, <1>11
    <3> QED
      BY <1>0, <2>1, <3>1, <3>2, ExceptSeq DEF FetchUsers
  <2> QED
    BY <1>3, <1>11, <2>1
    DEF Operate, LookupUsername, LogIn, CreateAccount, ListUsers,
        ProcessSendMessage, DeleteMessages, DeleteAccount, TimerExpires, Raises
<1>12. CASE OnResize \/ Poll \/ PollNew \/ UpdateReplicas \/ Others \/ OthersLeave
  BY <1>1, <1>3, <1>12 DEF OnResize, Poll, PollNew, HandsOut, UpdateReplicas, Others, OthersLeave, loop
<1>13. CASE UNCHANGED vars
  BY <1>1, <1>13 DEF vars, loop
<1> QED
  BY <1>5, <1>9, <1>10, <1>11, <1>12, <1>13 DEF Next

LEMMA LoginTyped ==
  ASSUME Typed, [Next]_vars
  PROVE  TypedLogin' /\ TypedWindows'
<1>0. /\ TypedLogin /\ TypedWindows
      /\ pending # <<>> => Head(pending) \in Callbacks
      /\ servers \in Nat /\ NewWindow \in Nat
  <2>1. pending \in Seq(Callbacks) /\ work \in Seq(Job)
    BY DEF Typed, TypedLoop
  <2> QED
    BY <2>1, TypedQueues, NewWindowIs DEF Typed, TypedNetwork
<1>1. /\ None \notin Nat /\ None \notin Name
      /\ None \notin [window : Nat, sent : BOOLEAN]
      /\ None \notin [name : Name, login : BOOLEAN]
  BY UIAssumption, Constants DEF UIAssumption
<1>2. CASE UNCHANGED << screen, entry, prompt, draft, popup >>
  BY <1>0, <1>2 DEF TypedLogin, TypedWindows
<1>3. CASE EditName
  BY <1>0, <1>1, <1>3 DEF EditName, TypedLogin, TypedWindows
<1>4. CASE HandleLookupResult
  <2>1. CASE screen = "login"
    <3>1. Head(pending).exists \in BOOLEAN
      BY <1>0, <1>4, CallbackFields DEF HandleLookupResult, Serves
    <3>2. entry \in Name /\ draft = None /\ popup = None
      BY <1>0, <2>1 DEF TypedLogin, TypedWindows
    <3> DEFINE p == [name |-> entry, login |-> Head(pending).exists]
    <3>3. p \in [name : Name, login : BOOLEAN]
      BY <3>1, <3>2
    <3>4. /\ screen' = "password" /\ entry' = None /\ prompt' = p
          /\ draft' = draft /\ popup' = popup
      BY <1>4, <2>1 DEF HandleLookupResult
    <3> HIDE DEF p
    <3> QED
      BY <1>1, <3>2, <3>3, <3>4 DEF TypedLogin, TypedWindows
  <2>2. CASE screen # "login"
    BY <1>2, <1>4, <2>2 DEF HandleLookupResult, login
  <2> QED
    BY <2>1, <2>2
<1>5. CASE CreateChatScreen
  BY <1>0, <1>5 DEF CreateChatScreen, TypedLogin, TypedWindows
<1>6. CASE Disconnects
  BY <1>0, <1>6 DEF Disconnects, TypedLogin, TypedWindows
<1>7. CASE /\ UNCHANGED << screen, entry, prompt >>
           /\ \/ draft' = draft \/ draft' = None
              \/ screen = "chat" /\ draft' = [window |-> NewWindow, sent |-> FALSE]
              \/ draft # None /\ draft' = [draft EXCEPT !.sent = TRUE]
           /\ popup' = popup \/ popup' = None \/ (screen = "chat" /\ popup' = servers)
                \/ (popup # None /\ popup' = servers)
  <2>1. draft' \in [window : Nat, sent : BOOLEAN] \cup {None}
    <3> DEFINE new == [window |-> NewWindow, sent |-> FALSE]
    <3>1. new \in [window : Nat, sent : BOOLEAN]
      BY <1>0
    <3>2. draft # None => [draft EXCEPT !.sent = TRUE] \in [window : Nat, sent : BOOLEAN]
      BY <1>0 DEF TypedWindows
    <3>3. \/ draft' = draft \/ draft' = None \/ draft' = new
          \/ draft # None /\ draft' = [draft EXCEPT !.sent = TRUE]
      BY <1>7
    <3> HIDE DEF new
    <3> QED
      BY <1>0, <3>1, <3>2, <3>3 DEF TypedWindows
  <2>2. popup' \in Nat \cup {None}
    BY <1>0, <1>7 DEF TypedWindows
  <2>3. draft' # None \/ popup' # None => screen' = "chat"
    BY <1>0, <1>7 DEF TypedWindows
  <2> QED
    BY <1>0, <1>7, <2>1, <2>2, <2>3 DEF TypedLogin, TypedWindows
<1>8. CASE ServeCallback
  BY <1>2, <1>4, <1>6, <1>7, <1>8
  DEF ServeCallback, HandleLoginResult,
      HandleAccountCreationResult, UpdateMessages, HandleDeleteMessagesResult,
      HandleUserResults, HandleSendMessageResult, UpdateServerList, Disconnect, login
<1>9. CASE Gesture
  BY <1>2, <1>3, <1>6, <1>7, <1>9
  DEF Gesture, CheckUsername, ProcessCredentials, TickMessage,
      DeleteSelectedMessages, ChangeMsgPage, EditSearch, Search, ChangeUserPage,
      OpenNewMessageWindow, SendMessage, ViewServers, CloseServers,
      RefreshServers, ConfirmDeleteAccount, LogOut, ClickInChat, login
<1>10. CASE Answer
  BY <1>2, <1>5, <1>7, <1>10
  DEF Answer, Dismiss, RemoveDeleted, DestroySent, AnswerConfirm, AccountDeleted, login
<1>11. ASSUME NEW i \in DOMAIN work, Operate(i)
      PROVE  TypedLogin' /\ TypedWindows'
  BY <1>2, <1>7, <1>11
  DEF Operate, LookupUsername, LogIn, CreateAccount, FetchUsers, ListUsers,
      ProcessSendMessage, DeleteMessages, DeleteAccount, TimerExpires, Raises, login
<1>12. CASE OnResize \/ Poll \/ PollNew \/ UpdateReplicas \/ Others \/ OthersLeave
  BY <1>2, <1>12 DEF OnResize, Poll, PollNew, HandsOut, UpdateReplicas, Others, OthersLeave, login
<1>13. CASE UNCHANGED vars
  BY <1>2, <1>13 DEF vars, login
<1> QED
  BY <1>8, <1>9, <1>10, <1>11, <1>12, <1>13 DEF Next

LEMMA NavMade ==
  ASSUME NEW a \in BOOLEAN, NEW b \in BOOLEAN
  PROVE  [older |-> a, newer |-> b] \in [{"older", "newer"} -> BOOLEAN]
OBVIOUS

\* The number of pages of a list, which never leaves out the last of its elements.
LEMMA PagesCounted ==
  ASSUME NEW n \in Nat, NEW size \in Nat \ {0}
  PROVE  /\ PageCount(n, size) \in Nat
         /\ \A p \in Nat : p < PageCount(n, size) => p * size < n
<1> DEFINE q == (n + size - 1) \div size
<1>1. q \in Nat /\ q * size <= n + size - 1
  OBVIOUS
<1> HIDE DEF q
<1>2. ASSUME NEW p \in Nat, p < q
      PROVE  p * size < n
  <2>1. (p + 1) * size <= q * size
    BY <1>1, <1>2
  <2>2. (p + 1) * size = p * size + size /\ p * size \in Nat /\ q * size \in Nat
    BY <1>1
  <2> QED
    BY <1>1, <2>1, <2>2
<1> QED
  BY <1>1, <1>2 DEF PageCount, q

LEMMA DrawsTyped ==
  ASSUME NEW list \in Seq(Nat), NEW p \in Nat, NEW n \in Nat, Draws(list, p, n),
         sized \in BOOLEAN, nav \in [{"older", "newer"} -> BOOLEAN]
  PROVE  /\ page' \in Nat /\ boxes' \in Seq(Nat) /\ selected' \subseteq Nat
         /\ nav' \in [{"older", "newer"} -> BOOLEAN] /\ drawn' \in BOOLEAN
<1> DEFINE visible == Slice(list, p, MaxMsg)
<1>1. visible \in Seq(Nat)
  BY Constants, SliceTyped
<1>2. /\ page' = p /\ selected' = {} /\ drawn' = (sized \/ visible = <<>>)
      /\ boxes' = IF drawn' THEN visible ELSE << Head(visible) >>
  BY DEF Draws
<1>3. PageCount(Len(list), MaxMsg) \in Nat /\ Len(list) \in Nat
  BY Constants, LenProperties, PagesCounted
<1> DEFINE older == p > 0
           newer == p + 1 < PageCount(Len(list), MaxMsg) \/ Len(list) < n
<1>4. nav' = nav \/ nav' = [older |-> older, newer |-> newer]
  BY DEF Draws
<1>5. older \in BOOLEAN /\ newer \in BOOLEAN
  BY <1>3
<1> HIDE DEF visible, older, newer
<1>6. boxes' \in Seq(Nat)
  <2>1. CASE drawn'
    BY <1>1, <1>2, <2>1
  <2>2. CASE ~ drawn'
    <3>1. Head(visible) \in Nat
      BY <1>1, <1>2, <2>2, HeadTailProperties
    <3> QED
      BY <1>2, <2>2, <3>1
  <2> QED
    BY <2>1, <2>2
<1>7. nav' \in [{"older", "newer"} -> BOOLEAN]
  BY <1>4, <1>5, NavMade
<1> QED
  BY <1>2, <1>6, <1>7

LEMMA PaneTyped ==
  ASSUME Typed, [Next]_vars
  PROVE  TypedPane'
<1>0. /\ TypedPane /\ TypedHistory
      /\ pending # <<>> => Head(pending) \in Callbacks
  <2>1. pending \in Seq(Callbacks)
    BY DEF Typed, TypedLoop
  <2> QED
    BY <2>1, TypedQueues DEF Typed
<1>1. CASE UNCHANGED << messages, unread, page, boxes, selected, nav, drawn, sized >>
  BY <1>0, <1>1 DEF TypedPane
<1>2. ASSUME NEW list \in Seq(Nat), NEW p \in Nat, NEW n \in Nat, Draws(list, p, n),
             messages' = list, unread' = n, sized' = sized
      PROVE  TypedPane'
  BY <1>0, <1>2, DrawsTyped DEF TypedPane
<1>3. CASE UpdateMessages
  <2>1. Head(pending).messages \in Seq(Nat)
    BY <1>0, <1>3, CallbackFields DEF UpdateMessages, Serves
  <2>2. messages' \in Seq(Nat) /\ unread' = unread /\ sized' = sized
    BY <1>0, <1>3, <2>1 DEF UpdateMessages, TypedPane
  <2>3. Draws(messages', page, unread) \/ UNCHANGED display
    BY <1>3 DEF UpdateMessages
  <2>4. CASE Draws(messages', page, unread)
    BY <1>0, <1>2, <2>2, <2>4 DEF TypedPane
  <2>5. CASE UNCHANGED display
    BY <1>0, <2>2, <2>5 DEF TypedPane, display
  <2> QED
    BY <2>3, <2>4, <2>5
<1>4. CASE RemoveDeleted
  <2>1. messages' = Within(messages, Range(messages) \ selected)
    BY <1>4 DEF RemoveDeleted
  <2>2. messages' \in Seq(Nat)
    BY <1>0, <2>1, WithinKeeps DEF TypedPane
  <2>3. /\ unread' = Least(unread, Len(messages')) /\ Draws(messages', 0, unread')
        /\ sized' = sized
    BY <1>4 DEF RemoveDeleted
  <2>4. unread' \in Nat
    BY <1>0, <2>2, <2>3, LenProperties DEF TypedPane, Least
  <2> QED
    BY <1>2, <2>2, <2>3, <2>4
<1>5. ASSUME NEW step \in {"older", "newer"}, ChangeMsgPage(step)
      PROVE  TypedPane'
  <2>1. /\ messages' = messages /\ unread' = unread /\ sized' = sized
        /\ step = "older" => page > 0
        /\ Draws(messages, IF step = "older" THEN page - 1 ELSE page + 1, unread)
    BY <1>5 DEF ChangeMsgPage
  <2>2. (IF step = "older" THEN page - 1 ELSE page + 1) \in Nat
    BY <1>0, <2>1 DEF TypedPane
  <2> QED
    BY <1>0, <1>2, <2>1, <2>2 DEF TypedPane
<1>6. CASE TickMessage
  <2>1. Range(boxes) \subseteq Nat
    BY <1>0, RangeOfSeq DEF TypedPane
  <2>2. selected' \subseteq selected \cup Range(boxes)
    BY <1>6 DEF TickMessage
  <2> QED
    BY <1>0, <1>6, <2>1, <2>2 DEF TickMessage, TypedPane
<1>7. CASE HandleLoginResult
  <2>1. Head(pending).unread \in Nat
    BY <1>0, <1>7, CallbackFields DEF HandleLoginResult, Serves
  <2> QED
    BY <1>0, <1>7, <2>1 DEF HandleLoginResult, TypedPane, display
<1>8. CASE CreateChatScreen
  <2>1. /\ boxes' = <<>> /\ drawn' = FALSE
        /\ nav' = [older |-> FALSE, newer |-> Len(messages) > unread]
        /\ UNCHANGED << messages, unread, page, selected, sized >>
    BY <1>8 DEF CreateChatScreen
  <2>2. (Len(messages) > unread) \in BOOLEAN
    BY <1>0, LenProperties DEF TypedPane
  <2>3. nav' \in [{"older", "newer"} -> BOOLEAN] /\ boxes' \in Seq(Nat)
    BY <2>1, <2>2, NavMade, EmptySeq
  <2> QED
    BY <1>0, <2>1, <2>3 DEF TypedPane
<1>9. CASE OnResize
  BY <1>0, <1>9 DEF OnResize, TypedPane, display
<1>10. CASE ServeCallback
  BY <1>1, <1>3, <1>7, <1>10
  DEF ServeCallback, HandleLookupResult,
      HandleAccountCreationResult, HandleDeleteMessagesResult,
      HandleUserResults, HandleSendMessageResult, UpdateServerList, Disconnect,
      Disconnects, pane, display
<1>11. CASE Gesture
  BY <1>1, <1>5, <1>6, <1>11
  DEF Gesture, EditName, CheckUsername, ProcessCredentials,
      DeleteSelectedMessages, EditSearch, Search, ChangeUserPage,
      OpenNewMessageWindow, SendMessage, ViewServers, CloseServers,
      RefreshServers, ConfirmDeleteAccount, LogOut, Disconnects, pane, display
<1>12. CASE Answer
  BY <1>1, <1>4, <1>8, <1>12
  DEF Answer, Dismiss, DestroySent, AnswerConfirm, AccountDeleted, pane, display
<1>13. ASSUME NEW i \in DOMAIN work, Operate(i)
      PROVE  TypedPane'
  BY <1>1, <1>13
  DEF Operate, LookupUsername, LogIn, CreateAccount, FetchUsers, ListUsers,
      ProcessSendMessage, DeleteMessages, DeleteAccount, TimerExpires, Raises, pane,
      display
<1>14. CASE Poll \/ PollNew \/ UpdateReplicas \/ Others \/ OthersLeave
  BY <1>1, <1>14 DEF Poll, PollNew, HandsOut, UpdateReplicas, Others, OthersLeave, pane, display
<1>15. CASE UNCHANGED vars
  BY <1>1, <1>15 DEF vars, pane, display
<1> QED
  BY <1>9, <1>10, <1>11, <1>12, <1>13, <1>14, <1>15 DEF Next

LEMMA PeopleTyped ==
  ASSUME Typed, [Next]_vars
  PROVE  TypedPeople'
<1>0. /\ TypedPeople
      /\ pending # <<>> => Head(pending) \in Callbacks
  <2>1. pending \in Seq(Callbacks)
    BY DEF Typed, TypedLoop
  <2> QED
    BY <2>1, TypedQueues DEF Typed
<1>1. CASE UNCHANGED people
  BY <1>0, <1>1 DEF TypedPeople, people
<1>2. CASE HandleUserResults
  <2>1. Head(pending).found \in Seq(Account)
    BY <1>0, <1>2, CallbackFields DEF HandleUserResults, Serves
  <2>2. users' \in Seq(Account)
    <3>1. users' = users \/ users' = users \o Head(pending).found
      BY <1>2 DEF HandleUserResults
    <3> QED
      BY <1>0, <2>1, <3>1, ConcatProperties DEF TypedPeople
  <2>3. userPage' \in Nat
    BY <1>0, <1>2 DEF HandleUserResults, TypedPeople
  <2> QED
    BY <1>0, <1>2, <2>2, <2>3 DEF HandleUserResults, TypedPeople
<1>3. CASE CreateChatScreen
  <2>1. "" \in SearchText
    BY UIAssumption DEF UIAssumption
  <2> QED
    BY <1>0, <1>3, <2>1 DEF CreateChatScreen, LoadUserList, TypedPeople
<1>4. CASE EditSearch
  BY <1>0, <1>4 DEF EditSearch, TypedPeople
<1>5. CASE Search
  BY <1>0, <1>5 DEF Search, LoadUserList, TypedPeople
<1>6. ASSUME NEW new \in Nat, ChangeUserPage(new)
      PROVE  TypedPeople'
  BY <1>0, <1>6 DEF ChangeUserPage, LoadUserList, TypedPeople
<1>7. ASSUME NEW i, FetchUsers(i)
      PROVE  TypedPeople'
  <2>1. /\ previous' = search /\ users' \in {users, <<>>} /\ offset' = OffsetAfter(users')
        /\ UNCHANGED << userPage, search >>
    BY <1>7 DEF FetchUsers
  <2>2. users' \in Seq(Account)
    BY <1>0, <2>1, EmptySeq DEF TypedPeople
  <2>3. OffsetAfter(users') \in Nat
    <3>1. PICK list \in Seq(Account) : list = users'
      BY <2>2
    <3>2. ASSUME list = <<>>
          PROVE  OffsetAfter(list) \in Nat
      BY <3>2 DEF OffsetAfter
    <3>3. ASSUME list # <<>>
          PROVE  OffsetAfter(list) \in Nat
      <4>1. Len(list) \in 1 .. Len(list) /\ Last(list) = list[Len(list)]
        BY <3>3 DEF Last
      <4>2. Last(list) \in Account
        BY <4>1, ElementOfSeq
      <4>3. Stamp[Last(list)] \in Nat
        BY <4>2, Constants
      <4> QED
        BY <3>3, <4>3 DEF OffsetAfter
    <3>4. OffsetAfter(list) \in Nat
      BY <3>2, <3>3
    <3> QED
      BY <3>1, <3>4
  <2> QED
    BY <1>0, <2>1, <2>2, <2>3 DEF TypedPeople
<1>8. CASE ServeCallback
  BY <1>1, <1>2, <1>8
  DEF ServeCallback, HandleLookupResult, HandleLoginResult,
      HandleAccountCreationResult, UpdateMessages, HandleDeleteMessagesResult,
      HandleSendMessageResult, UpdateServerList, Disconnect, Disconnects
<1>9. CASE Gesture
  <2>1. userPage + 1 \in Nat /\ (userPage > 0 => userPage - 1 \in Nat)
    BY <1>0 DEF TypedPeople
  <2> QED
    BY <1>1, <1>4, <1>5, <1>6, <1>9, <2>1
    DEF Gesture, EditName, CheckUsername, ProcessCredentials, TickMessage,
        DeleteSelectedMessages, ChangeMsgPage,
        OpenNewMessageWindow, SendMessage, ViewServers, CloseServers,
        RefreshServers, ConfirmDeleteAccount, LogOut, Disconnects, people
<1>10. CASE Answer
  BY <1>1, <1>3, <1>10
  DEF Answer, Dismiss, RemoveDeleted, DestroySent, AnswerConfirm, AccountDeleted
<1>11. ASSUME NEW i \in DOMAIN work, Operate(i)
      PROVE  TypedPeople'
  BY <1>1, <1>7, <1>11
  DEF Operate, LookupUsername, LogIn, CreateAccount, ListUsers,
      ProcessSendMessage, DeleteMessages, DeleteAccount, TimerExpires, Raises
<1>12. CASE OnResize \/ Poll \/ PollNew \/ UpdateReplicas \/ Others \/ OthersLeave
  BY <1>1, <1>12 DEF OnResize, Poll, PollNew, HandsOut, UpdateReplicas, Others, OthersLeave
<1>13. CASE UNCHANGED vars
  BY <1>1, <1>13 DEF vars
<1> QED
  BY <1>8, <1>9, <1>10, <1>11, <1>12, <1>13 DEF Next

LEMMA NetworkTyped ==
  ASSUME Typed, [Next]_vars
  PROVE  TypedNetwork'
<1>0. /\ TypedNetwork /\ TypedHistory /\ work \in Seq(Job)
      /\ arrived \in Nat /\ handed \in Nat /\ handed <= arrived
      /\ servers \in Nat /\ Least(News, MaxMsg) \in Int
  BY NetworkNumbers DEF Typed, TypedLoop
<1>1. CASE UNCHANGED network
  BY <1>0, <1>1 DEF TypedNetwork, network
<1>2. CASE Disconnects
  BY <1>0, <1>2 DEF Disconnects, TypedNetwork
<1>3. ASSUME NEW i \in DOMAIN work, LookupUsername(i) \/ LogIn(i) \/ CreateAccount(i)
      PROVE  TypedNetwork'
  <2>1. work[i].name \in Name
    <3>1. work[i] \in Job /\ work[i].op \in {"lookup", "login", "create"}
      BY <1>0, <1>3, TypedQueues DEF LookupUsername, LogIn, CreateAccount, Ends
    <3> QED
      BY <3>1, JobFields
  <2>2. CASE LookupUsername(i)
    BY <1>0, <2>1, <2>2 DEF LookupUsername, TypedNetwork
  <2>3. CASE LogIn(i)
    BY <1>0, <2>1, <2>3 DEF LogIn, TypedNetwork
  <2>4. CASE CreateAccount(i)
    <3>1. accounts' = accounts \cup {work[i].name}
      BY <2>4 DEF CreateAccount, Appears
    <3>2. accounts' \subseteq Account
      BY <1>0, <2>1, <3>1, Constants DEF TypedNetwork
    <3>3. username' \in Name \cup {None} /\ prefix' \in Name \cup {None}
      BY <1>0, <2>1, <2>4 DEF CreateAccount, TypedNetwork
    <3>4. session' \in BOOLEAN /\ polling' \in BOOLEAN
      <4>1. session \in BOOLEAN /\ polling \in BOOLEAN
        BY <1>0 DEF TypedNetwork
      <4>2. \E success \in BOOLEAN :
              session' = (session \/ success) /\ polling' = (polling \/ success)
        BY <2>4 DEF CreateAccount
      <4> QED
        BY <4>1, <4>2
    <3>5. UNCHANGED << gone, arrived, handed, orphans, servers >>
      BY <2>4 DEF CreateAccount
    <3> QED
      BY <1>0, <3>2, <3>3, <3>4, <3>5 DEF TypedNetwork
  <2> QED
    BY <1>3, <2>2, <2>3, <2>4
<1>4. ASSUME NEW i, DeleteAccount(i)
      PROVE  TypedNetwork'
  BY <1>0, <1>4 DEF DeleteAccount, TypedNetwork
<1>5. CASE Poll
  <2> DEFINE n == Least(arrived, handed + MaxMsg)
  <2>1. n \in Nat /\ n <= arrived
    BY <1>0, Constants, <1>5 DEF Least
  <2>2. handed' = n /\ arrived' = arrived
        /\ UNCHANGED << accounts, gone, orphans, servers, prefix, username, session,
                        polling >>
    BY <1>5 DEF Poll, HandsOut
  <2>3. orphans \cap (handed + 1 .. n) = {}
    BY <1>5 DEF Poll, HandsOut
  <2> HIDE DEF n
  <2>4. orphans \subseteq n + 1 .. arrived
    BY <1>0, <2>1, <2>3 DEF TypedNetwork
  <2> QED
    BY <1>0, <2>1, <2>2, <2>4 DEF TypedNetwork
<1>6. CASE PollNew
  <2>1. PICK n : n = arrived'
    OBVIOUS
  <2>2. PICK most \in Int : most = Least(News, MaxMsg)
    BY <1>0
  <2>3. n \in handed + 1 .. handed + most
    BY <1>6, <2>1, <2>2 DEF PollNew
  <2>4. n \in Nat
    BY <1>0, <2>3
  <2>5. /\ handed' = n
        /\ UNCHANGED << accounts, gone, orphans, servers, prefix, username, session,
                        polling >>
    BY <1>6, <2>1 DEF PollNew, HandsOut
  <2>6. orphans = {}
    <3>1. handed = arrived
      BY <1>6 DEF PollNew
    <3> QED
      BY <1>0, <3>1 DEF TypedNetwork
  <2> QED
    BY <1>0, <2>1, <2>4, <2>5, <2>6 DEF TypedNetwork
<1>7. CASE UpdateReplicas
  <2>1. servers' \in {servers, servers + 1}
        /\ UNCHANGED << accounts, gone, arrived, handed, orphans, prefix, username,
                        session, polling >>
    BY <1>7 DEF UpdateReplicas, NewServers
  <2>2. servers' \in Nat
    BY <1>0, <2>1
  <2> QED
    BY <1>0, <2>1, <2>2 DEF TypedNetwork
<1>8. CASE Others
  <2>1. accounts' \subseteq Account
    BY <1>0, <1>8 DEF Others, Appears, TypedNetwork
  <2> QED
    BY <1>0, <1>8, <2>1 DEF Others, TypedNetwork
<1>15. CASE OthersLeave
  BY <1>0, <1>15 DEF OthersLeave, TypedNetwork
<1>9. CASE ServeCallback
  BY <1>1, <1>2, <1>9
  DEF ServeCallback, HandleLookupResult, HandleLoginResult,
      HandleAccountCreationResult, UpdateMessages, HandleDeleteMessagesResult,
      HandleUserResults, HandleSendMessageResult, UpdateServerList, Disconnect
<1>10. CASE Gesture
  BY <1>1, <1>2, <1>10
  DEF Gesture, EditName, CheckUsername, ProcessCredentials, TickMessage,
      DeleteSelectedMessages, ChangeMsgPage, EditSearch, Search, ChangeUserPage,
      OpenNewMessageWindow, SendMessage, ViewServers, CloseServers,
      RefreshServers, ConfirmDeleteAccount, LogOut
<1>11. CASE Answer
  BY <1>1, <1>11
  DEF Answer, Dismiss, CreateChatScreen, RemoveDeleted, DestroySent, AnswerConfirm,
      AccountDeleted
<1>12. ASSUME NEW i \in DOMAIN work, Operate(i)
      PROVE  TypedNetwork'
  BY <1>1, <1>3, <1>4, <1>12
  DEF Operate, FetchUsers, ListUsers, ProcessSendMessage, DeleteMessages, TimerExpires,
      Raises
<1>13. CASE OnResize
  BY <1>1, <1>13 DEF OnResize
<1>14. CASE UNCHANGED vars
  BY <1>1, <1>14 DEF vars
<1> QED
  BY <1>5, <1>6, <1>7, <1>8, <1>9, <1>10, <1>11, <1>12, <1>13, <1>14, <1>15
  DEF Next

LEMMA HistoryTyped ==
  ASSUME Typed, [Next]_vars
  PROVE  TypedHistory'
<1>0. /\ TypedHistory /\ selected \subseteq Nat /\ work \in Seq(Job)
      /\ handed \in Nat
  BY NetworkNumbers DEF Typed, TypedLoop, TypedPane
<1>1. CASE /\ clicks' \in {clicks, clicks + 1}
           /\ faults' \in {faults, faults + 1}
           /\ asked' = asked \/ asked' = asked \cup selected
           /\ lost' \subseteq lost \cup Nat /\ late' \subseteq late \cup Account
           /\ meanwhile' = meanwhile \/ \E kind \in Hastes : \E b : Hasty(kind, b)
  <2>1. clicks' \in Nat /\ faults' \in Nat
    BY <1>0, <1>1 DEF TypedHistory
  <2>2. asked' \subseteq Nat /\ lost' \subseteq Nat /\ late' \subseteq Account
    BY <1>0, <1>1 DEF TypedHistory
  <2>3. meanwhile' \subseteq Hastes
    BY <1>0, <1>1 DEF TypedHistory, Hasty
  <2> QED
    BY <2>1, <2>2, <2>3 DEF TypedHistory
<1>2. CASE ServeCallback
  BY <1>1, <1>2
  DEF ServeCallback, HandleLookupResult, HandleLoginResult,
      HandleAccountCreationResult, UpdateMessages, HandleDeleteMessagesResult,
      HandleUserResults, HandleSendMessageResult, UpdateServerList, Disconnect,
      Disconnects, history
<1>3. CASE EditName \/ ProcessCredentials \/ TickMessage \/ OpenNewMessageWindow
  BY <1>1, <1>3
  DEF EditName, ProcessCredentials, TickMessage, OpenNewMessageWindow, ClickAtLogin,
      ClickInChat, Click, Hastes
<1>4. CASE Search \/ \E new : ChangeUserPage(new)
  BY <1>1, <1>4 DEF Search, ChangeUserPage, LoadUserList, ClickInChat, Click, Hastes
<1>5. CASE Gesture
  BY <1>1, <1>3, <1>4, <1>5
  DEF Gesture, CheckUsername, DeleteSelectedMessages, ChangeMsgPage, EditSearch,
      SendMessage, ViewServers, CloseServers, RefreshServers, ConfirmDeleteAccount,
      LogOut, Disconnects, ClickAtLogin, ClickInChat, Click
<1>6. CASE Answer
  BY <1>1, <1>6
  DEF Answer, Dismiss, CreateChatScreen, RemoveDeleted, DestroySent, AnswerConfirm,
      AccountDeleted, LoadUserList, history, Hastes
<1>7. ASSUME NEW i \in DOMAIN work, Operate(i)
      PROVE  TypedHistory'
  <2>1. CASE CreateAccount(i)
    <3>1. work[i].name \in Account
      <4>1. work[i] \in Job /\ work[i].op = "create"
        BY <1>0, <2>1, TypedQueues DEF CreateAccount, Ends
      <4> QED
        BY <4>1, JobFields, Constants
    <3>2. late' \subseteq late \cup Account
      BY <2>1, <3>1 DEF CreateAccount, Appears
    <3> QED
      BY <1>1, <2>1, <3>2 DEF CreateAccount
  <2> QED
    BY <1>1, <1>7, <2>1
    DEF Operate, LookupUsername, LogIn, FetchUsers, ListUsers,
        ProcessSendMessage, DeleteMessages, DeleteAccount, TimerExpires, Raises, NoAnswer,
        history
<1>8. CASE OnResize \/ UpdateReplicas \/ OthersLeave
  BY <1>1, <1>8 DEF OnResize, UpdateReplicas, OthersLeave, history
<1>10. CASE Others
  <2>1. late' \subseteq late \cup Account
    BY <1>10 DEF Others, Appears
  <2> QED
    BY <1>1, <1>10, <2>1 DEF Others
<1>11. ASSUME NEW n, HandsOut(n)
       PROVE  TypedHistory'
  <2>1. handed + 1 .. n \subseteq Nat
    BY <1>0
  <2> QED
    BY <1>1, <1>11, <2>1 DEF HandsOut
<1>12. CASE Poll \/ PollNew
  <2>1. PICK n : HandsOut(n)
    BY <1>12 DEF Poll, PollNew
  <2> QED
    BY <1>11, <2>1
<1>9. CASE UNCHANGED vars
  BY <1>1, <1>9 DEF vars, history
<1> QED
  BY <1>2, <1>5, <1>6, <1>7, <1>8, <1>9, <1>10, <1>12 DEF Next

LEMMA TypedInit ==
  ASSUME Init
  PROVE  Typed
<1>1. TypedLoop
  BY EmptySeq DEF Init, TypedLoop
<1>2. None \notin Nat
  BY UIAssumption DEF UIAssumption
<1>3. TypedLogin /\ TypedWindows
  <2>1. entry \in Name /\ entry # None
    BY <1>2, Constants DEF Init
  <2> QED
    BY <2>1 DEF Init, TypedLogin, TypedWindows
<1>4. TypedPane
  <2>1. nav \in [{"older", "newer"} -> BOOLEAN]
    BY NavMade DEF Init
  <2> QED
    BY <2>1, EmptySeq DEF Init, TypedPane
<1>5. TypedPeople
  <2>1. "" \in SearchText
    BY UIAssumption DEF UIAssumption
  <2> QED
    BY <2>1, EmptySeq DEF Init, TypedPeople
<1>6. TypedNetwork
  <2>1. accounts = FirstUsers /\ arrived \in 0 .. MaxNews /\ handed = 0
    BY DEF Init
  <2>2. accounts \subseteq Account
    BY <2>1, Constants
  <2>3. arrived \in Nat
    BY <2>1, Constants
  <2>4. handed \in 0 .. arrived
    BY <2>1, <2>3
  <2> QED
    BY <2>2, <2>3, <2>4 DEF Init, TypedNetwork
<1>7. TypedHistory
  BY DEF Init, TypedHistory
<1> QED
  BY <1>1, <1>3, <1>4, <1>5, <1>6, <1>7 DEF Typed

LEMMA TypedStep ==
  ASSUME Typed, [Next]_vars
  PROVE  Typed'
BY PendingTyped, DialogsTyped, WorkTyped, LoginTyped, PaneTyped, PeopleTyped,
   NetworkTyped, HistoryTyped DEF Typed, TypedLoop

LEMMA TypedHolds == Spec => []Typed
BY TypedInit, TypedStep, PTL DEF Spec

\* The windows, the queues and what the client knows are what the handlers take
\* them for, in every order of gestures, answers and dialogs.
THEOREM TypeCorrect == Spec => []TypeOK
BY TypedHolds, TypedIs, PTL

=============================================================================
