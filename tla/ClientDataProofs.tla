-------------------------- MODULE ClientDataProofs --------------------------
(***************************************************************************)
(* What the user interface does with what it is handed, for every number   *)
(* of gestures, messages, accounts and operations: messages stay in order  *)
(* and are not lost, pages stay within the list, a message that is written *)
(* is not thrown away, and users are listed once each.                     *)
(*                                                                         *)
(* Each fact holds unless the user did not wait for an operation of the    *)
(* kind.  The proofs therefore count what is under way: an operation in    *)
(* its thread, its result in the queue of the event loop, and the dialog   *)
(* about it.                                                               *)
(***************************************************************************)
EXTENDS ClientUIProofs

USE DEF registry, inbox, past

-----------------------------------------------------------------------------
\* The messages the client has been handed

Polled(from, to) == [k \in 1 .. to - from |-> from + k]

\* Nothing is handed out, and what was is where it was, or one place further on.
SameInHand == InHand' = InHand /\ handed' = handed

LEMMA InHandTyped ==
  ASSUME Typed
  PROVE  /\ messages \in Seq(Nat) /\ Joined(pending) \in Seq(Nat) /\ InHand \in Seq(Nat)
         /\ pending \in Seq(Callbacks)
<1>1. messages \in Seq(Nat) /\ pending \in Seq(Callbacks)
  BY DEF Typed, TypedPane, TypedLoop
<1>2. Joined(pending) \in Seq(Nat)
  BY <1>1, JoinedTyped
<1> QED
  BY <1>1, <1>2, ConcatProperties DEF InHand

\* The next messages are handed out.
MoreInHand ==
  \E n \in Nat : /\ handed <= n /\ handed' = n
                /\ InHand' = InHand \o Polled(handed, n)

\* They are, but the answer does not come.
LostOnTheWay ==
  \E n \in Nat : /\ handed <= n /\ handed' = n /\ InHand' = InHand
                /\ lost' = lost \cup (handed + 1 .. n)

LEMMA InHandStep ==
  ASSUME Typed, [Next]_vars
  PROVE  SameInHand \/ MoreInHand \/ LostOnTheWay \/ RemoveDeleted \/ Disconnects
<1>0. /\ messages \in Seq(Nat) /\ Joined(pending) \in Seq(Nat) /\ InHand \in Seq(Nat)
      /\ pending \in Seq(Callbacks)
      /\ pending # <<>> => Head(pending) \in Callbacks
  BY InHandTyped, TypedQueues
<1>1. CASE UNCHANGED << messages, pending, handed >>
  BY <1>1 DEF SameInHand, InHand
<1>2. CASE \E e \in Callbacks : /\ e.do # "update" /\ pending' = Queued(e)
                                /\ UNCHANGED << messages, handed >>
  <2>1. PICK e \in Callbacks : e.do # "update" /\ pending' = Append(pending, e)
    BY <1>2 DEF Queued
  <2>2. Brought(e) = <<>>
    BY <2>1 DEF Brought
  <2>3. Joined(pending') = Joined(pending) \o Brought(e)
    BY <1>0, <2>1, JoinedAppend
  <2>4. Joined(pending') = Joined(pending)
    BY <1>0, <2>2, <2>3, ConcatEmptySeq
  <2> QED
    BY <1>2, <2>4 DEF SameInHand, InHand
<1>3. CASE /\ pending # <<>> /\ pending' = Tail(pending) /\ Head(pending).do # "update"
           /\ UNCHANGED << messages, handed >>
  <2>1. Joined(pending) = Brought(Head(pending)) \o Joined(pending')
    BY <1>0, <1>3, JoinedFirst
  <2>2. Brought(Head(pending)) = <<>>
    BY <1>3 DEF Brought
  <2>3. Joined(pending') \in Seq(Nat)
    BY <1>0, <1>3, TypedQueues, JoinedTyped
  <2>4. Joined(pending') = Joined(pending)
    BY <2>1, <2>2, <2>3, ConcatEmptySeq
  <2> QED
    BY <1>3, <2>4 DEF SameInHand, InHand
<1>4. CASE UpdateMessages
  <2>1. /\ pending # <<>> /\ pending' = Tail(pending) /\ Head(pending).do = "update"
        /\ messages' = messages \o Head(pending).messages /\ handed' = handed
    BY <1>4 DEF UpdateMessages, Serves, network
  <2>2. Joined(pending) = Head(pending).messages \o Joined(pending')
    BY <1>0, <2>1, JoinedFirst DEF Brought
  <2>3. Joined(pending') \in Seq(Nat) /\ Head(pending).messages \in Seq(Nat)
    BY <1>0, <2>1, TypedQueues, JoinedTyped, CallbackFields
  <2>4. messages' \o Joined(pending') = messages \o Joined(pending)
    <3>1. \A s, t, u \in Seq(Nat) : (s \o t) \o u = s \o (t \o u)
      BY ConcatAssociative
    <3>2. (messages \o Head(pending).messages) \o Joined(pending')
             = messages \o (Head(pending).messages \o Joined(pending'))
      BY <1>0, <2>3, <3>1, Zenon
    <3> QED
      BY <2>1, <2>2, <3>2, Zenon
  <2> QED
    BY <2>1, <2>4 DEF SameInHand, InHand
<1>5. ASSUME NEW n \in Nat, handed <= n, HandsOut(n)
      PROVE  MoreInHand \/ LostOnTheWay
  <2> DEFINE e == [do |-> "update", messages |-> Polled(handed, n)]
  <2>1. /\ messages' = messages /\ handed' = n
        /\ \/ pending' = Append(pending, e)
           \/ pending' = pending /\ lost' = lost \cup (handed + 1 .. n)
    BY <1>5 DEF HandsOut, Queued, Polled, pane
  <2>2. handed \in Nat
    BY NetworkNumbers DEF Typed
  <2>3. Polled(handed, n) \in Seq(Nat)
    BY <1>5, <2>2 DEF Polled
  <2>4. e \in Callbacks /\ Brought(e) = Polled(handed, n)
    BY <2>3, CallbackMade DEF Brought
  <2> HIDE DEF e
  <2>7. CASE pending' = pending /\ lost' = lost \cup (handed + 1 .. n)
    <3>1. InHand' = InHand
      BY <2>1, <2>7 DEF InHand
    <3> QED
      BY <1>5, <2>1, <2>7, <3>1 DEF LostOnTheWay
  <2>8. CASE pending' = Append(pending, e)
    <3>1. Joined(pending') = Joined(pending) \o Polled(handed, n)
      BY <1>0, <2>4, <2>8, JoinedAppend
    <3>2. (messages \o Joined(pending)) \o Polled(handed, n)
             = messages \o (Joined(pending) \o Polled(handed, n))
      <4>1. \A s, t, u \in Seq(Nat) : (s \o t) \o u = s \o (t \o u)
        BY ConcatAssociative
      <4> QED
        BY <1>0, <2>3, <4>1, Zenon
    <3> QED
      BY <1>5, <2>1, <3>1, <3>2 DEF InHand, MoreInHand
  <2> QED
    BY <2>1, <2>7, <2>8
<1>6. /\ arrived \in Nat /\ handed \in Nat /\ handed <= arrived
      /\ Least(News, MaxMsg) \in Int
  BY NetworkNumbers DEF Typed
<1>7. CASE Poll \/ PollNew
  <2>1. CASE Poll
    <3> DEFINE n == Least(arrived, handed + MaxMsg)
    <3>1. n \in Nat /\ handed <= n /\ HandsOut(n)
      BY <1>6, Constants, <2>1 DEF Least, Poll
    <3> QED
      BY <1>5, <3>1
  <2>2. CASE PollNew
    <3>1. PICK n : n = arrived'
      OBVIOUS
    <3>2. PICK most \in Int : most = Least(News, MaxMsg)
      BY <1>6
    <3>3. n \in handed + 1 .. handed + most
      BY <2>2, <3>1, <3>2 DEF PollNew
    <3>4. n \in Nat /\ handed <= n
      BY <1>6, <3>3
    <3>5. HandsOut(n)
      BY <2>2, <3>1 DEF PollNew
    <3> QED
      BY <1>5, <3>4, <3>5
  <2> QED
    BY <1>7, <2>1, <2>2
<1>8. CASE ServeCallback
  BY <1>3, <1>4, <1>8
  DEF ServeCallback, Serves, HandleLookupResult, HandleLoginResult,
      HandleAccountCreationResult, HandleDeleteMessagesResult,
      HandleUserResults, HandleSendMessageResult, UpdateServerList, Disconnect, pane,
      network
<1>9. CASE Gesture
  BY <1>1, <1>9
  DEF Gesture, EditName, CheckUsername, ProcessCredentials, TickMessage,
      DeleteSelectedMessages, ChangeMsgPage, EditSearch, Search, ChangeUserPage,
      OpenNewMessageWindow, SendMessage, ViewServers, CloseServers,
      RefreshServers, ConfirmDeleteAccount, LogOut, loop, pane, network
<1>10. CASE Answer
  <2>1. CASE CreateChatScreen
    <3> DEFINE e == [do |-> "update", messages |-> <<>>]
    <3>1. pending' = Append(pending, e) /\ UNCHANGED << messages, handed >>
      BY <2>1 DEF CreateChatScreen, Queued, network
    <3>2. e \in Callbacks /\ Brought(e) = <<>>
      BY EmptySeq, CallbackMade DEF Brought
    <3> HIDE DEF e
    <3>3. Joined(pending') = Joined(pending)
      BY <1>0, <3>1, <3>2, JoinedAppend, ConcatEmptySeq
    <3> QED
      BY <3>1, <3>3 DEF SameInHand, InHand
  <2>2. CASE AccountDeleted
    <3>1. /\ Callback("disconnect") \in Callbacks
          /\ Callback("disconnect").do # "update"
      BY CallbackMade DEF Callback
    <3> QED
      BY <1>2, <2>2, <3>1 DEF AccountDeleted, pane, network
  <2> QED
    BY <1>1, <1>10, <2>1, <2>2
    DEF Answer, Dismiss, DestroySent, AnswerConfirm, pane, network
<1>11. ASSUME NEW i \in DOMAIN work, Operate(i)
       PROVE  SameInHand \/ MoreInHand \/ LostOnTheWay \/ RemoveDeleted \/ Disconnects
  <2>1. pending' \in Seq(Callbacks)
    BY PendingTyped
  <2>2. UNCHANGED << messages, handed >>
    BY <1>11
    DEF Operate, LookupUsername, LogIn, CreateAccount, FetchUsers, ListUsers,
        ProcessSendMessage, DeleteMessages, DeleteAccount, TimerExpires, Raises, pane,
        network
  <2>3. UNCHANGED pending \/ \E e : e.do # "update" /\ pending' = Append(pending, e)
    BY <1>11
    DEF Operate, LookupUsername, LogIn, CreateAccount, FetchUsers, ListUsers,
        ProcessSendMessage, DeleteMessages, DeleteAccount, TimerExpires, Raises,
        Queued, Callback
  <2>4. ASSUME NEW e, pending' = Append(pending, e)
        PROVE  e \in Callbacks
    <3>1. pending'[Len(pending) + 1] = e /\ Len(pending) + 1 \in DOMAIN pending'
      BY <1>0, <2>4
    <3> QED
      BY <2>1, <3>1, TypedQueues
  <2>5. CASE UNCHANGED pending
    BY <1>1, <2>2, <2>5
  <2>6. CASE \E e : e.do # "update" /\ pending' = Append(pending, e)
    <3>1. PICK e : e.do # "update" /\ pending' = Append(pending, e)
      BY <2>6
    <3>2. e \in Callbacks /\ pending' = Queued(e)
      BY <2>4, <3>1 DEF Queued
    <3> QED
      BY <1>2, <2>2, <3>1, <3>2
  <2> QED
    BY <2>3, <2>5, <2>6
<1>12. CASE OnResize \/ UpdateReplicas \/ Others \/ OthersLeave
  <2>1. /\ Callback("servers") \in Callbacks
        /\ Callback("servers").do # "update"
    BY CallbackMade DEF Callback
  <2> QED
    BY <1>1, <1>2, <1>12, <2>1
    DEF OnResize, UpdateReplicas, NewServers, Others, OthersLeave, loop, pane, network
<1>13. CASE UNCHANGED vars
  BY <1>1, <1>13 DEF vars, loop, pane, network
<1> QED
  BY <1>5, <1>7, <1>8, <1>9, <1>10, <1>11, <1>12, <1>13 DEF Next

\* The messages in hand are in the order of the server, and none is unheard of.
OrderInv ==
  /\ \A i, j \in DOMAIN InHand : i < j => InHand[i] < InHand[j]
  /\ \A i \in DOMAIN InHand : InHand[i] \in 1 .. handed

\* The excerpt of the list and what is queued are still in order, and nothing else.
LEMMA RemovedIsOf ==
  ASSUME Typed, RemoveDeleted
  PROVE  /\ InHand' \in Seq(Nat) /\ handed' = handed
         /\ \A i \in DOMAIN InHand' : \E p \in DOMAIN InHand : InHand'[i] = InHand[p]
         /\ \A i, j \in DOMAIN InHand' :
              i < j => \E p, q \in DOMAIN InHand :
                         p < q /\ InHand'[i] = InHand[p] /\ InHand'[j] = InHand[q]
         /\ \A p \in DOMAIN InHand :
              InHand[p] \notin selected => \E i \in DOMAIN InHand' : InHand'[i] = InHand[p]
<1>1. /\ messages \in Seq(Nat) /\ Joined(pending) \in Seq(Nat) /\ InHand \in Seq(Nat)
      /\ Len(messages) \in Nat /\ Len(Joined(pending)) \in Nat
  BY InHandTyped, LenProperties
<1>2. PICK list : list = messages
  OBVIOUS
<1>3. PICK rest : rest = Joined(pending)
  OBVIOUS
<1>4. PICK left : left = Within(list, Range(list) \ selected)
  OBVIOUS
<1>5. InHand = list \o rest /\ InHand' = left \o rest /\ handed' = handed
  BY <1>2, <1>3, <1>4 DEF RemoveDeleted, InHand, network
<1>6. /\ list \in Seq(Nat) /\ rest \in Seq(Nat) /\ Len(list) \in Nat /\ Len(rest) \in Nat
  BY <1>1, <1>2, <1>3
<1>7. left \in Seq(Nat) /\ Excerpt(left, list, Range(list) \ selected)
  BY <1>4, <1>6, WithinKeeps
<1>8. Len(left) \in Nat /\ DOMAIN left = 1 .. Len(left)
  BY <1>7, LenProperties
<1>9. \A p \in 1 .. Len(list) : list[p] \in Range(list)
  BY <1>6 DEF Range
<1> DEFINE old == list \o rest
           new == left \o rest
<1>10. /\ old \in Seq(Nat) /\ DOMAIN old = 1 .. Len(list) + Len(rest)
       /\ \A p \in 1 .. Len(list) : old[p] = list[p]
       /\ \A p \in 1 .. Len(rest) : old[Len(list) + p] = rest[p]
  BY <1>6
<1>11. /\ new \in Seq(Nat) /\ DOMAIN new = 1 .. Len(left) + Len(rest)
       /\ \A p \in 1 .. Len(left) : new[p] = left[p]
       /\ \A p \in 1 .. Len(rest) : new[Len(left) + p] = rest[p]
  BY <1>6, <1>7, <1>8
<1> HIDE DEF old, new
<1> DEFINE n == Len(list)
           m == Len(left)
<1>17. /\ \A p \in 1 .. n : p \in DOMAIN old
       /\ \A k \in 1 .. Len(rest) : n + k \in DOMAIN old
       /\ \A p \in 1 .. n, k \in 1 .. Len(rest) : p < n + k
  BY <1>6, <1>10
<1>18. \A i \in 1 .. m : \E p \in 1 .. n : left[i] = list[p]
  BY <1>7, <1>8 DEF Excerpt
<1>19. \A i, j \in 1 .. m :
         i < j => \E p, q \in 1 .. n : p < q /\ left[i] = list[p] /\ left[j] = list[q]
  <2> TAKE i, j \in 1 .. m
  <2> HAVE i < j
  <2>1. i \in DOMAIN left /\ j \in DOMAIN left
    BY <1>8
  <2>2. \E p, q \in 1 .. Len(list) : p < q /\ left[i] = list[p] /\ left[j] = list[q]
    BY <1>7, <2>1 DEF Excerpt
  <2> QED
    BY <2>2
<1>12. ASSUME NEW i \in DOMAIN new
       PROVE  \/ i \in 1 .. Len(left)
              \/ i - Len(left) \in 1 .. Len(rest) /\ new[i] = rest[i - Len(left)]
  <2>1. CASE i <= Len(left)
    BY <1>8, <1>11, <2>1, <1>6
  <2>2. CASE ~ (i <= Len(left))
    <3>1. i - Len(left) \in 1 .. Len(rest) /\ Len(left) + (i - Len(left)) = i
      BY <1>6, <1>8, <1>11, <2>2
    <3> QED
      BY <1>11, <3>1
  <2> QED
    BY <2>1, <2>2
<1>13. ASSUME NEW i \in DOMAIN new
       PROVE  \E p \in DOMAIN old : new[i] = old[p]
  <2>1. CASE i \in 1 .. m
    <3>1. PICK p \in 1 .. n : left[i] = list[p]
      BY <1>18, <2>1
    <3>2. p \in DOMAIN old /\ old[p] = list[p] /\ new[i] = left[i]
      BY <1>10, <1>11, <1>17, <2>1
    <3> QED
      BY <3>1, <3>2
  <2>2. CASE i - m \in 1 .. Len(rest) /\ new[i] = rest[i - m]
    <3>1. n + (i - m) \in DOMAIN old /\ old[n + (i - m)] = rest[i - m]
      BY <1>10, <1>17, <2>2
    <3> QED
      BY <2>2, <3>1
  <2> QED
    BY <1>12, <2>1, <2>2
<1>14. ASSUME NEW i \in DOMAIN new, NEW j \in DOMAIN new, i < j
       PROVE  \E p, q \in DOMAIN old : p < q /\ new[i] = old[p] /\ new[j] = old[q]
  <2>0. i \in Nat /\ j \in Nat /\ m \in Nat /\ n \in Nat /\ i \in 1 .. m + Len(rest)
    BY <1>6, <1>8, <1>11
  <2>1. CASE i \in 1 .. m /\ j \in 1 .. m
    <3>1. PICK p, q \in 1 .. n : p < q /\ left[i] = list[p] /\ left[j] = list[q]
      BY <1>14, <1>19, <2>1
    <3>2. p \in DOMAIN old /\ q \in DOMAIN old
      BY <1>17
    <3>3. old[p] = list[p] /\ old[q] = list[q] /\ new[i] = left[i] /\ new[j] = left[j]
      BY <1>10, <1>11, <2>1
    <3> QED
      BY <3>1, <3>2, <3>3
  <2>2. CASE i \in 1 .. m /\ ~ (j \in 1 .. m)
    <3>1. PICK p \in 1 .. n : left[i] = list[p]
      BY <1>18, <2>2
    <3>2. PICK k \in 1 .. Len(rest) : new[j] = rest[k]
      BY <1>12, <2>2
    <3>3. p < n + k /\ p \in DOMAIN old /\ n + k \in DOMAIN old
      BY <1>17
    <3>4. old[n + k] = new[j] /\ old[p] = new[i]
      BY <1>10, <1>11, <2>2, <3>1, <3>2
    <3> QED
      BY <3>3, <3>4
  <2>3. CASE ~ (i \in 1 .. m)
    <3>1. ~ (j \in 1 .. m)
      BY <1>14, <2>0, <2>3
    <3>2. PICK k : k \in 1 .. Len(rest) /\ k = i - m /\ new[i] = rest[k]
      BY <1>12, <2>3
    <3>3. PICK l : l \in 1 .. Len(rest) /\ l = j - m /\ new[j] = rest[l]
      BY <1>12, <3>1
    <3>4. n + k < n + l
      BY <1>14, <2>0, <3>2, <3>3
    <3>5. n + k \in DOMAIN old /\ n + l \in DOMAIN old
      BY <1>17, <3>2, <3>3
    <3>6. old[n + k] = new[i] /\ old[n + l] = new[j]
      BY <1>10, <3>2, <3>3
    <3> QED
      BY <3>4, <3>5, <3>6
  <2> QED
    BY <2>1, <2>2, <2>3
<1>15. ASSUME NEW p \in DOMAIN old, old[p] \notin selected
       PROVE  \E i \in DOMAIN new : new[i] = old[p]
  <2>1. CASE p <= Len(list)
    <3>1. p \in 1 .. Len(list) /\ list[p] \in Range(list) \ selected
      BY <1>6, <1>9, <1>10, <1>15, <2>1
    <3>2. PICK i \in DOMAIN left : left[i] = list[p]
      BY <1>7, <3>1 DEF Excerpt
    <3>3. i \in DOMAIN new /\ i \in 1 .. Len(left)
      BY <1>6, <1>8, <1>11, <3>2
    <3> QED
      BY <1>10, <1>11, <3>1, <3>2, <3>3
  <2>2. CASE ~ (p <= Len(list))
    <3> DEFINE k == p - Len(list)
    <3>1. k \in 1 .. Len(rest) /\ Len(list) + k = p
      BY <1>6, <1>10, <2>2
    <3>2. Len(left) + k \in DOMAIN new
      BY <1>6, <1>8, <1>11, <3>1
    <3>3. old[p] = rest[k] /\ new[Len(left) + k] = rest[k]
      BY <1>10, <1>11, <3>1
    <3> QED
      BY <3>2, <3>3
  <2> QED
    BY <2>1, <2>2
<1>16. InHand = old /\ InHand' = new
  BY <1>5 DEF old, new
<1> QED
  BY <1>5, <1>11, <1>13, <1>14, <1>15, <1>16

LEMMA OrderInit ==
  ASSUME Init
  PROVE  OrderInv
<1>1. messages = <<>> /\ Joined(pending) = <<>>
  BY JoinedNothing DEF Init
<1>2. InHand = <<>>
  BY <1>1 DEF InHand
<1>3. DOMAIN InHand = {}
  BY <1>2
<1> QED
  BY <1>3 DEF OrderInv

LEMMA OrderStep ==
  ASSUME Typed, OrderInv, [Next]_vars
  PROVE  OrderInv'
<1>0. /\ InHand \in Seq(Nat) /\ Len(InHand) \in Nat /\ DOMAIN InHand = 1 .. Len(InHand)
      /\ handed \in Nat
  BY InHandTyped, LenProperties, NetworkNumbers DEF Typed
<1>1. CASE SameInHand
  BY <1>1 DEF SameInHand, OrderInv
<1>2. CASE MoreInHand
  <2>1. PICK n \in Nat : handed <= n /\ handed' = n /\ InHand' = InHand \o Polled(handed, n)
    BY <1>2 DEF MoreInHand
  <2> DEFINE more == Polled(handed, n)
             d == n - handed
  <2>2. d \in Nat /\ more \in Seq(Nat) /\ Len(more) = d /\ \A k \in 1 .. d : more[k] = handed + k
    BY <1>0, <2>1 DEF Polled
  <2> HIDE DEF more, d
  <2>9. PICK old : old = InHand
    OBVIOUS
  <2>10. PICK new : new = old \o more
    OBVIOUS
  <2>3. InHand' = new
    BY <2>1, <2>9, <2>10 DEF more
  <2>5. /\ old \in Seq(Nat) /\ Len(old) \in Nat
        /\ \A i \in 1 .. Len(old) : old[i] \in 1 .. handed
        /\ \A i, j \in 1 .. Len(old) : i < j => old[i] < old[j]
    BY <1>0, <2>9 DEF OrderInv
  <2>4. /\ DOMAIN new = 1 .. Len(old) + d
        /\ \A i \in 1 .. Len(old) : new[i] = old[i]
        /\ \A k \in 1 .. d : new[Len(old) + k] = handed + k
    <3>1. new \in Seq(Nat) /\ Len(new) = Len(old) + d
      BY <2>2, <2>5, <2>10, ConcatProperties
    <3>2. \A i \in 1 .. Len(old) + d : new[i] = IF i <= Len(old) THEN old[i] ELSE more[i - Len(old)]
      BY <2>2, <2>5, <2>10
    <3>3. \A i \in 1 .. Len(old) : i \in 1 .. Len(old) + d /\ i <= Len(old)
      BY <2>2, <2>5
    <3>4. \A k \in 1 .. d : /\ Len(old) + k \in 1 .. Len(old) + d /\ ~ (Len(old) + k <= Len(old))
                            /\ (Len(old) + k) - Len(old) = k
      BY <2>2, <2>5
    <3> QED
      BY <2>2, <3>1, <3>2, <3>3, <3>4, LenProperties
  <2>6. ASSUME NEW i \in DOMAIN new
        PROVE  \/ i \in 1 .. Len(old) /\ new[i] = old[i] /\ new[i] \in 1 .. handed
               \/ \E k \in 1 .. d : i = Len(old) + k /\ new[i] = handed + k
    <3>1. CASE i <= Len(old)
      BY <2>2, <2>4, <2>5, <3>1
    <3>2. CASE ~ (i <= Len(old))
      <4>1. i - Len(old) \in 1 .. d /\ i = Len(old) + (i - Len(old))
        BY <2>2, <2>4, <2>5, <3>2
      <4> QED
        BY <2>4, <4>1
    <3> QED
      BY <3>1, <3>2
  <2>7. ASSUME NEW i \in DOMAIN new
        PROVE  new[i] \in 1 .. n
    BY <1>0, <2>1, <2>2, <2>6 DEF d
  <2>8. ASSUME NEW i \in DOMAIN new, NEW j \in DOMAIN new, i < j
        PROVE  new[i] < new[j]
    <3>1. CASE j \in 1 .. Len(old) /\ new[j] = old[j]
      <4>1. i \in 1 .. Len(old)
        BY <2>2, <2>4, <2>5, <2>8, <3>1
      <4> QED
        BY <2>4, <2>5, <2>8, <3>1, <4>1
    <3>2. CASE \E k \in 1 .. d : j = Len(old) + k /\ new[j] = handed + k
      <4>1. PICK k \in 1 .. d : j = Len(old) + k /\ new[j] = handed + k
        BY <3>2
      <4>2. CASE new[i] \in 1 .. handed
        BY <1>0, <2>2, <4>1, <4>2
      <4>3. CASE \E l \in 1 .. d : i = Len(old) + l /\ new[i] = handed + l
        BY <1>0, <2>2, <2>5, <2>8, <4>1, <4>3
      <4> QED
        BY <2>6, <4>2, <4>3
    <3> QED
      BY <2>6, <3>1, <3>2
  <2> QED
    BY <2>1, <2>3, <2>7, <2>8 DEF OrderInv
<1>3. CASE RemoveDeleted
  <2>1. PICK new : new = InHand'
    OBVIOUS
  <2>2. /\ handed' = handed
        /\ \A i \in DOMAIN new : \E p \in DOMAIN InHand : new[i] = InHand[p]
        /\ \A i, j \in DOMAIN new :
             i < j => \E p, q \in DOMAIN InHand :
                        p < q /\ new[i] = InHand[p] /\ new[j] = InHand[q]
    BY <1>3, <2>1, RemovedIsOf
  <2>3. \A i \in DOMAIN new : new[i] \in 1 .. handed
    BY <2>2 DEF OrderInv
  <2>4. \A i, j \in DOMAIN new : i < j => new[i] < new[j]
    BY <2>2 DEF OrderInv
  <2> QED
    BY <2>1, <2>2, <2>3, <2>4 DEF OrderInv
<1>4. CASE Disconnects
  <2>1. messages' = messages /\ pending' = <<>> /\ handed' = handed
    BY <1>4 DEF Disconnects, pane
  <2>2. messages \in Seq(Nat) /\ Joined(pending) \in Seq(Nat)
    BY InHandTyped
  <2>3. Joined(pending') = <<>>
    BY <2>1, JoinedNothing
  <2>4. InHand' = messages
    BY <2>1, <2>2, <2>3, ConcatEmptySeq DEF InHand
  <2>5. InHand = messages \o Joined(pending)
    BY DEF InHand
  <2>6. \A i \in DOMAIN messages : i \in DOMAIN InHand /\ InHand[i] = messages[i]
    <3>1. \A s, t \in Seq(Nat) : \A i \in DOMAIN s : i \in DOMAIN (s \o t) /\ (s \o t)[i] = s[i]
      OBVIOUS
    <3> QED
      BY <2>2, <2>5, <3>1
  <2> QED
    BY <2>1, <2>4, <2>6 DEF OrderInv
<1>5. CASE LostOnTheWay
  <2>1. PICK n \in Nat : handed <= n /\ handed' = n /\ InHand' = InHand
    BY <1>5 DEF LostOnTheWay
  <2>2. 1 .. handed \subseteq 1 .. n
    BY <1>0, <2>1
  <2> QED
    BY <2>1, <2>2 DEF OrderInv
<1> QED
  BY <1>1, <1>2, <1>3, <1>4, <1>5, InHandStep

\* "Older messages are shown at the top" (docs/CLIENT_SPEC.md:39): in the list,
\* across callbacks that come before the screen, in dialogs and between deletions,
\* however many messages arrive and are deleted.
THEOREM MessagesInOrderHolds == Spec => []MessagesInOrder
<1>1. Typed /\ OrderInv /\ [Next]_vars => OrderInv'
  BY OrderStep
<1>2. OrderInv => MessagesInOrder
  BY DEF OrderInv, MessagesInOrder
<1> QED
  BY <1>1, <1>2, OrderInit, TypedHolds, PTL DEF Spec

-----------------------------------------------------------------------------
\* What is under way

\* A queue has no element of the set, or at most one.
Free(q, S) == \A i \in DOMAIN q : q[i] \notin S
Single(q, S) == \A i, j \in DOMAIN q : q[i] \in S /\ q[j] \in S => i = j

\* The change of a queue brings no element of the set; brings one; takes one.
Quiet(q, r, S) == (Single(q, S) => Single(r, S)) /\ (Free(q, S) => Free(r, S))
Gains(q, r, S) == Free(q, S) => Single(r, S)
Loses(q, r, S) == ~ Free(q, S) /\ (Single(q, S) => Free(r, S))

LEMMA QuietTail ==
  ASSUME NEW S, NEW q, IsSequence(q), q # <<>>
  PROVE  Quiet(q, Tail(q), S) /\ (Head(q) \in S => Loses(q, Tail(q), S))
<1>1. PICK U : q \in Seq(U)
  BY DEF IsSequence
<1>2. /\ DOMAIN q = 1 .. Len(q) /\ Len(q) \in Nat /\ 1 \in DOMAIN q /\ Head(q) = q[1]
      /\ \A j \in DOMAIN Tail(q) : j + 1 \in DOMAIN q /\ Tail(q)[j] = q[j + 1] /\ j \in Nat
      /\ \A j \in DOMAIN Tail(q) : j + 1 # 1
  BY <1>1
<1>3. PICK t : t = Tail(q)
  OBVIOUS
<1>4. \A i, j \in DOMAIN t : i + 1 = j + 1 => i = j
  BY <1>2, <1>3
<1>5. ASSUME Single(q, S)
      PROVE  Single(t, S)
  BY <1>2, <1>3, <1>4, <1>5 DEF Single
<1>6. ASSUME Free(q, S)
      PROVE  Free(t, S)
  BY <1>2, <1>3, <1>6 DEF Free
<1>7. ASSUME Single(q, S), Head(q) \in S
      PROVE  Free(t, S)
  BY <1>2, <1>3, <1>7 DEF Single, Free
<1>8. Head(q) \in S => ~ Free(q, S)
  BY <1>2 DEF Free
<1> QED
  BY <1>3, <1>5, <1>6, <1>7, <1>8 DEF Quiet, Loses

LEMMA QuietAppend ==
  ASSUME NEW S, NEW q, IsSequence(q), NEW e
  PROVE  /\ e \notin S => Quiet(q, Append(q, e), S)
         /\ Gains(q, Append(q, e), S)
<1>1. PICK U : q \in Seq(U)
  BY DEF IsSequence
<1>2. PICK r : r = Append(q, e)
  OBVIOUS
<1>3. PICK n \in Nat : n = Len(q)
  BY <1>1
<1>4. /\ DOMAIN q = 1 .. n /\ DOMAIN r = 1 .. n + 1 /\ r[n + 1] = e
      /\ \A i \in 1 .. n : r[i] = q[i]
  BY <1>1, <1>2, <1>3
<1>5. \A i \in DOMAIN r : i = n + 1 \/ i \in DOMAIN q
  BY <1>4
<1>6. ASSUME Free(q, S)
      PROVE  Single(r, S)
  BY <1>4, <1>5, <1>6 DEF Free, Single
<1>7. ASSUME e \notin S
      PROVE  Quiet(q, r, S)
  BY <1>4, <1>5, <1>7 DEF Free, Single, Quiet
<1> QED
  BY <1>2, <1>6, <1>7 DEF Gains

LEMMA QuietCons ==
  ASSUME NEW S, NEW q, IsSequence(q), NEW e
  PROVE  /\ e \notin S => Quiet(q, << e >> \o q, S)
         /\ Gains(q, << e >> \o q, S)
<1>1. PICK U : q \in Seq(U)
  BY DEF IsSequence
<1>2. PICK r : r = << e >> \o q
  OBVIOUS
<1>3. PICK n \in Nat : n = Len(q)
  BY <1>1
<1>4. /\ DOMAIN q = 1 .. n /\ DOMAIN r = 1 .. n + 1 /\ r[1] = e
      /\ \A i \in 1 .. n : r[i + 1] = q[i]
  BY <1>1, <1>2, <1>3
<1>5. \A i \in DOMAIN r : i = 1 \/ (i - 1 \in DOMAIN q /\ r[i] = q[i - 1])
  <2> TAKE i \in DOMAIN r
  <2>1. CASE i # 1
    <3>1. i - 1 \in 1 .. n /\ (i - 1) + 1 = i
      BY <1>4, <2>1
    <3> QED
      BY <1>4, <3>1
  <2> QED
    BY <2>1
<1>6. \A i, j \in DOMAIN r : i - 1 = j - 1 => i = j
  BY <1>4
<1>7. ASSUME Free(q, S)
      PROVE  Single(r, S)
  BY <1>5, <1>7 DEF Free, Single
<1>8. ASSUME e \notin S
      PROVE  Quiet(q, r, S)
  <2>1. Free(q, S) => Free(r, S)
    BY <1>4, <1>5, <1>8 DEF Free
  <2>2. Single(q, S) => Single(r, S)
    BY <1>4, <1>5, <1>6, <1>8 DEF Single
  <2> QED
    BY <2>1, <2>2 DEF Quiet
<1> QED
  BY <1>2, <1>7, <1>8 DEF Gains

LEMMA QuietRemove ==
  ASSUME NEW S, NEW q, IsSequence(q), NEW k \in DOMAIN q
  PROVE  /\ Quiet(q, RemoveAt(q, k), S)
         /\ q[k] \in S => Loses(q, RemoveAt(q, k), S)
<1>1. PICK U : q \in Seq(U)
  BY DEF IsSequence
<1>2. PICK n \in Nat : n = Len(q)
  BY <1>1
<1>3. PICK r : r = RemoveAt(q, k)
  OBVIOUS
<1>4. /\ DOMAIN q = 1 .. n /\ k \in 1 .. n
      /\ DOMAIN r = 1 .. n - 1
      /\ \A j \in 1 .. n - 1 : r[j] = q[IF j < k THEN j ELSE j + 1]
  <2>1. DOMAIN q = 1 .. n /\ k \in 1 .. n
    BY <1>1, <1>2
  <2> DEFINE front == SubSeq(q, 1, k - 1)
             rest == SubSeq(q, k + 1, n)
  <2>2. /\ front \in Seq(U) /\ Len(front) = k - 1
        /\ rest \in Seq(U) /\ Len(rest) = n - k
        /\ \A j \in 1 .. k - 1 : front[j] = q[j]
        /\ \A j \in 1 .. n - k : rest[j] = q[k + j]
    BY <1>1, <1>2, <2>1
  <2>3. r = front \o rest
    BY <1>2, <1>3 DEF RemoveAt
  <2> HIDE DEF front, rest
  <2>4. /\ Len(r) = n - 1 /\ r \in Seq(U)
        /\ \A j \in 1 .. n - 1 : r[j] = IF j <= k - 1 THEN front[j] ELSE rest[j - (k - 1)]
    BY <1>2, <2>1, <2>2, <2>3
  <2>5. \A j \in 1 .. n - 1 : j < k => j \in 1 .. k - 1 /\ j <= k - 1
    BY <2>1
  <2>6. \A j \in 1 .. n - 1 :
          ~ (j < k) => /\ j - (k - 1) \in 1 .. n - k /\ ~ (j <= k - 1)
                       /\ k + (j - (k - 1)) = j + 1
    BY <2>1
  <2>7. \A j \in 1 .. n - 1 : r[j] = q[IF j < k THEN j ELSE j + 1]
    BY <2>2, <2>4, <2>5, <2>6
  <2> QED
    BY <2>1, <2>4, <2>7, LenProperties
<1> DEFINE at(j) == IF j < k THEN j ELSE j + 1
<1>5. \A j \in DOMAIN r : at(j) \in DOMAIN q /\ at(j) # k /\ r[j] = q[at(j)]
  BY <1>4
<1>6. \A i, j \in DOMAIN r : at(i) = at(j) => i = j
  BY <1>4
<1> HIDE DEF at
<1>7. Quiet(q, r, S)
  BY <1>5, <1>6 DEF Quiet, Single, Free
<1>8. ASSUME q[k] \in S
      PROVE  Loses(q, r, S)
  BY <1>5, <1>8 DEF Loses, Single, Free
<1> QED
  BY <1>3, <1>7, <1>8

LEMMA QuietSame ==
  ASSUME NEW S, NEW q
  PROVE  Quiet(q, q, S) /\ Quiet(q, <<>>, S)
BY DEF Quiet, Single, Free

\* Two jobs that are started at once.
LEMMA QuietTwo ==
  ASSUME NEW S, NEW q, IsSequence(q), NEW a, NEW b, a \notin S, b \notin S
  PROVE  Quiet(q, q \o << a, b >>, S)
<1>1. PICK U : q \in Seq(U)
  BY DEF IsSequence
<1>2. q \in Seq(U \cup {a, b})
  BY <1>1
<1>3. q \o << a, b >> = Append(Append(q, a), b)
  BY <1>2
<1>4. IsSequence(Append(q, a))
  BY GrownQueue
<1>5. Quiet(q, Append(q, a), S) /\ Quiet(Append(q, a), Append(Append(q, a), b), S)
  BY <1>4, QuietAppend
<1> QED
  BY <1>3, <1>5 DEF Quiet

\* A job that goes on as another one.
LEMMA QuietReplace ==
  ASSUME NEW S, NEW q, IsSequence(q), NEW k \in DOMAIN q, NEW e,
         e \in S => q[k] \in S
  PROVE  Quiet(q, [q EXCEPT ![k] = e], S)
<1>1. PICK r : r = [q EXCEPT ![k] = e]
  OBVIOUS
<1>2. PICK U : q \in Seq(U)
  BY DEF IsSequence
<1>3. DOMAIN r = DOMAIN q /\ \A i \in DOMAIN q : r[i] = IF i = k THEN e ELSE q[i]
  BY <1>1, <1>2
<1>4. \A i \in DOMAIN r : r[i] \in S => q[i] \in S
  BY <1>3
<1> QED
  BY <1>1, <1>3, <1>4 DEF Quiet, Single, Free

\* Which step starts a job of the kinds.
LEMMA WorkStep ==
  ASSUME Typed, [Next]_vars, NEW S, NEW ops,
         ops \subseteq { "delete", "send", "login", "create", "fetch", "list" },
         \A e \in S : e.op \in ops
  PROVE  \/ Quiet(work, work', S)
         \/ "delete" \in ops /\ DeleteSelectedMessages
         \/ "send" \in ops /\ SendMessage
         \/ ops \cap { "login", "create" } # {} /\ ProcessCredentials
         \/ "fetch" \in ops /\ \/ CreateChatScreen \/ Search
                               \/ \E new : ChangeUserPage(new)
         \/ "list" \in ops /\ \E i \in DOMAIN work : FetchUsers(i)
<1> DEFINE Goal == \/ Quiet(work, work', S)
                   \/ "delete" \in ops /\ DeleteSelectedMessages
                   \/ "send" \in ops /\ SendMessage
                   \/ ops \cap { "login", "create" } # {} /\ ProcessCredentials
                   \/ "fetch" \in ops /\ \/ CreateChatScreen \/ Search
                                         \/ \E new : ChangeUserPage(new)
                   \/ "list" \in ops /\ \E i \in DOMAIN work : FetchUsers(i)
<1> SUFFICES Goal
  OBVIOUS
<1>0. IsSequence(work)
  BY TypedQueues DEF Typed, TypedLoop
<1>1. ASSUME UNCHANGED work \/ work' = <<>>
      PROVE  Goal
  BY <1>1, QuietSame
<1>2. ASSUME NEW e, e.op \notin ops, work' = Append(work, e)
      PROVE  Goal
  BY <1>0, <1>2, QuietAppend
<1>3. ASSUME NEW i, NEW op, Ends(i, op)
      PROVE  Goal
  BY <1>0, <1>3, QuietRemove DEF Ends
<1>4. CASE ServeCallback
  BY <1>1, <1>4
  DEF ServeCallback, HandleLookupResult, HandleLoginResult,
      HandleAccountCreationResult, UpdateMessages, HandleDeleteMessagesResult,
      HandleUserResults, HandleSendMessageResult, UpdateServerList, Disconnect,
      Disconnects
<1>5. ASSUME CheckUsername
      PROVE  Goal
  BY <1>2, <1>5 DEF CheckUsername, Start
<1>6. ASSUME ProcessCredentials
      PROVE  Goal
  <2>1. \/ UNCHANGED work
        \/ \E op \in {"login", "create"} : \E n :
             work' = Append(work, [op |-> op, name |-> n])
    BY <1>6 DEF ProcessCredentials, Start
  <2>2. ASSUME ops \cap {"login", "create"} = {}
        PROVE  Goal
    BY <1>1, <1>2, <2>1, <2>2
  <2> QED
    BY <1>6, <2>2
<1>7. ASSUME DeleteSelectedMessages
      PROVE  Goal
  BY <1>2, <1>7 DEF DeleteSelectedMessages, Start, Operation
<1>8. ASSUME SendMessage
      PROVE  Goal
  BY <1>1, <1>2, <1>8 DEF SendMessage, Start, Operation
<1>9. ASSUME RefreshServers
      PROVE  Goal
  <2>1. Operation("refresh") \notin S /\ Operation("timer") \notin S
    BY DEF Operation
  <2> QED
    BY <1>0, <1>9, <2>1, QuietTwo DEF RefreshServers
<1>10. ASSUME CreateChatScreen \/ Search \/ \E new : ChangeUserPage(new)
       PROVE  Goal
  <2>1. UNCHANGED work \/ work' = Append(work, Operation("fetch"))
    BY <1>10 DEF CreateChatScreen, Search, ChangeUserPage, LoadUserList
  <2>2. Operation("fetch").op = "fetch"
    BY DEF Operation
  <2>3. CASE "fetch" \in ops
    BY <1>10, <2>3
  <2>4. CASE "fetch" \notin ops
    BY <1>1, <1>2, <2>1, <2>2, <2>4
  <2> QED
    BY <2>3, <2>4
<1>11. CASE Gesture
  BY <1>1, <1>5, <1>6, <1>7, <1>8, <1>9, <1>10, <1>11
  DEF Gesture, EditName, TickMessage, ChangeMsgPage, EditSearch,
      OpenNewMessageWindow, ViewServers, CloseServers,
      ConfirmDeleteAccount, LogOut, Disconnects, loop
<1>12. ASSUME AnswerConfirm
       PROVE  Goal
  BY <1>1, <1>2, <1>12 DEF AnswerConfirm, Start, Operation
<1>13. CASE Answer
  BY <1>1, <1>10, <1>12, <1>13
  DEF Answer, Dismiss, RemoveDeleted, DestroySent, AccountDeleted
<1>14. ASSUME NEW i \in DOMAIN work, FetchUsers(i)
       PROVE  Goal
  <2> DEFINE e == [op |-> "list", text |-> search]
  <2>1. work' = [work EXCEPT ![i] = e] /\ e.op = "list"
    BY <1>14 DEF FetchUsers
  <2> HIDE DEF e
  <2>2. CASE "list" \notin ops
    BY <1>0, <2>1, <2>2, QuietReplace
  <2> QED
    BY <1>14, <2>2
<1>15. ASSUME NEW i \in DOMAIN work, Operate(i)
       PROVE  Goal
  BY <1>3, <1>14, <1>15
  DEF Operate, LookupUsername, LogIn, CreateAccount, ListUsers,
      ProcessSendMessage, DeleteMessages, DeleteAccount, TimerExpires, Raises
<1>16. CASE OnResize \/ Poll \/ PollNew \/ UpdateReplicas \/ Others \/ OthersLeave
  BY <1>1, <1>3, <1>16 DEF OnResize, Poll, PollNew, HandsOut, UpdateReplicas, Others, OthersLeave, loop
<1>17. CASE UNCHANGED vars
  BY <1>1, <1>17 DEF vars, loop
<1> QED
  BY <1>4, <1>11, <1>13, <1>15, <1>16, <1>17 DEF Next

\* Which step queues a result of the kinds.
LEMMA PendingStep ==
  ASSUME Typed, [Next]_vars, NEW S, NEW dos,
         dos \subseteq { "deleted", "sent", "login", "create", "users" },
         \A e \in S : e.do \in dos
  PROVE  \/ Quiet(pending, pending', S)
         \/ \E i \in DOMAIN work :
              \/ "deleted" \in dos /\ DeleteMessages(i)
              \/ "sent" \in dos /\ ProcessSendMessage(i)
              \/ "login" \in dos /\ LogIn(i)
              \/ "create" \in dos /\ CreateAccount(i)
              \/ "users" \in dos /\ ListUsers(i)
<1> DEFINE Made(i) == \/ "deleted" \in dos /\ DeleteMessages(i)
                      \/ "sent" \in dos /\ ProcessSendMessage(i)
                      \/ "login" \in dos /\ LogIn(i)
                      \/ "create" \in dos /\ CreateAccount(i)
                      \/ "users" \in dos /\ ListUsers(i)
           Goal == Quiet(pending, pending', S) \/ \E i \in DOMAIN work : Made(i)
<1> SUFFICES Goal
  OBVIOUS
<1>0. IsSequence(pending)
  BY TypedQueues DEF Typed, TypedLoop
<1>1. ASSUME UNCHANGED pending \/ pending' = <<>>
      PROVE  Goal
  BY <1>1, QuietSame
<1>2. ASSUME NEW e, e.do \notin dos, pending' = Queued(e)
      PROVE  Goal
  BY <1>0, <1>2, QuietAppend DEF Queued
<1>3. ASSUME pending # <<>>, pending' = Tail(pending)
      PROVE  Goal
  BY <1>0, <1>3, QuietTail
<1>4. CASE ServeCallback
  BY <1>1, <1>3, <1>4
  DEF ServeCallback, Serves, HandleLookupResult, HandleLoginResult,
      HandleAccountCreationResult, UpdateMessages, HandleDeleteMessagesResult,
      HandleUserResults, HandleSendMessageResult, UpdateServerList, Disconnect,
      Disconnects
<1>5. CASE Gesture
  BY <1>1, <1>5
  DEF Gesture, EditName, CheckUsername, ProcessCredentials, TickMessage,
      DeleteSelectedMessages, ChangeMsgPage, EditSearch, Search, ChangeUserPage,
      OpenNewMessageWindow, SendMessage, ViewServers, CloseServers,
      RefreshServers, ConfirmDeleteAccount, LogOut, Disconnects, loop
<1>6. CASE Answer
  BY <1>1, <1>2, <1>6
  DEF Answer, Dismiss, CreateChatScreen, RemoveDeleted, DestroySent,
      AnswerConfirm, AccountDeleted, Callback
<1>7. ASSUME NEW i \in DOMAIN work, Operate(i)
      PROVE  Goal
  <2>1. CASE LookupUsername(i)
    <3>1. \E b : pending' = Queued([do |-> "lookup", exists |-> b])
      BY <2>1 DEF LookupUsername
    <3> QED
      BY <1>2, <3>1
  <2>2. CASE LogIn(i)
    <3>1. \E b, n : pending' = Queued([do |-> "login", success |-> b, unread |-> n])
      BY <2>2 DEF LogIn
    <3>2. CASE "login" \notin dos
      BY <1>2, <3>1, <3>2
    <3> QED
      BY <2>2, <3>2
  <2>3. CASE CreateAccount(i)
    <3>1. \E b : pending' = Queued([do |-> "create", success |-> b])
      BY <2>3 DEF CreateAccount
    <3>2. CASE "create" \notin dos
      BY <1>2, <3>1, <3>2
    <3> QED
      BY <2>3, <3>2
  <2>4. CASE ListUsers(i)
    <3>1. UNCHANGED pending \/ \E f : pending' = Queued([do |-> "users", found |-> f])
      BY <2>4 DEF ListUsers
    <3>2. CASE "users" \notin dos
      BY <1>1, <1>2, <3>1, <3>2
    <3> QED
      BY <2>4, <3>2
  <2>5. CASE ProcessSendMessage(i)
    <3>1. CASE "sent" \notin dos
      BY <1>2, <2>5, <3>1 DEF ProcessSendMessage
    <3> QED
      BY <2>5, <3>1
  <2>6. CASE DeleteMessages(i)
    <3>1. CASE "deleted" \notin dos
      BY <1>2, <2>6, <3>1 DEF DeleteMessages
    <3> QED
      BY <2>6, <3>1
  <2>7. CASE TimerExpires(i)
    BY <1>2, <2>7 DEF TimerExpires, Callback
  <2>8. CASE FetchUsers(i) \/ DeleteAccount(i) \/ Raises(i)
    BY <1>1, <2>8 DEF FetchUsers, DeleteAccount, Raises
  <2> QED
    BY <1>7, <2>1, <2>2, <2>3, <2>4, <2>5, <2>6, <2>7, <2>8 DEF Operate
<1>8. CASE Poll \/ PollNew
  <2>1. UNCHANGED pending \/ \E m : pending' = Queued([do |-> "update", messages |-> m])
    BY <1>8 DEF Poll, PollNew, HandsOut
  <2> QED
    BY <1>1, <1>2, <2>1
<1>9. CASE OnResize \/ UpdateReplicas \/ Others \/ OthersLeave
  BY <1>1, <1>2, <1>9 DEF OnResize, UpdateReplicas, NewServers, Others, OthersLeave, loop, Callback
<1>10. CASE UNCHANGED vars
  BY <1>1, <1>10 DEF vars, loop
<1> QED
  BY <1>4, <1>5, <1>6, <1>7, <1>8, <1>9, <1>10 DEF Next

\* Which step shows a dialog that goes on in the given way.
LEMMA DialogsStep ==
  ASSUME Typed, [Next]_vars, NEW S, S \subseteq { "deleted", "sent", "chat" }
  PROVE  \/ Quiet(dialogs, dialogs', S)
         \/ "deleted" \in S /\ HandleDeleteMessagesResult
         \/ "sent" \in S /\ HandleSendMessageResult
         \/ "chat" \in S /\ (HandleLoginResult \/ HandleAccountCreationResult)
<1> DEFINE Goal == \/ Quiet(dialogs, dialogs', S)
                   \/ "deleted" \in S /\ HandleDeleteMessagesResult
                   \/ "sent" \in S /\ HandleSendMessageResult
                   \/ "chat" \in S /\ (HandleLoginResult \/ HandleAccountCreationResult)
<1> SUFFICES Goal
  OBVIOUS
<1>0. IsSequence(dialogs)
  BY TypedQueues DEF Typed, TypedLoop
<1>1. ASSUME UNCHANGED dialogs \/ dialogs' = <<>>
      PROVE  Goal
  BY <1>1, QuietSame
<1>2. ASSUME NEW rest, rest \notin S, Shows(rest)
      PROVE  Goal
  BY <1>0, <1>2, QuietCons DEF Shows
<1>3. ASSUME NEW rest, Closes(rest)
      PROVE  Goal
  BY <1>0, <1>3, QuietTail DEF Closes
<1>4. "nothing" \notin S /\ "confirm" \notin S /\ "goodbye" \notin S
  OBVIOUS
<1>5. CASE ServeCallback
  BY <1>1, <1>2, <1>4, <1>5
  DEF ServeCallback, HandleLookupResult, HandleLoginResult,
      HandleAccountCreationResult, UpdateMessages, HandleDeleteMessagesResult,
      HandleUserResults, HandleSendMessageResult, UpdateServerList, Disconnect,
      Disconnects
<1>6. CASE Gesture
  BY <1>1, <1>2, <1>4, <1>6
  DEF Gesture, EditName, CheckUsername, ProcessCredentials, TickMessage,
      DeleteSelectedMessages, ChangeMsgPage, EditSearch, Search, ChangeUserPage,
      OpenNewMessageWindow, SendMessage, ViewServers, CloseServers,
      RefreshServers, ConfirmDeleteAccount, LogOut, Disconnects, loop
<1>7. CASE Answer
  BY <1>3, <1>7
  DEF Answer, Dismiss, CreateChatScreen, RemoveDeleted, DestroySent,
      AnswerConfirm, AccountDeleted
<1>8. ASSUME NEW i \in DOMAIN work, Operate(i)
      PROVE  Goal
  BY <1>1, <1>2, <1>4, <1>8
  DEF Operate, LookupUsername, LogIn, CreateAccount, FetchUsers, ListUsers,
      ProcessSendMessage, DeleteMessages, DeleteAccount, TimerExpires, Raises
<1>9. CASE OnResize \/ Poll \/ PollNew \/ UpdateReplicas \/ Others \/ OthersLeave
  BY <1>1, <1>9 DEF OnResize, Poll, PollNew, HandsOut, UpdateReplicas, Others, OthersLeave, loop
<1>10. CASE UNCHANGED vars
  BY <1>1, <1>10 DEF vars, loop
<1> QED
  BY <1>5, <1>6, <1>7, <1>8, <1>9, <1>10 DEF Next

-----------------------------------------------------------------------------
\* Messages that are kept

Jobs(ops) == { j \in Job : j.op \in ops }
Results(dos) == { c \in Callbacks : c.do \in dos }

\* No deletion is under way, nor a dialog about one open.
NoDeletion ==
  /\ Free(work, Jobs({"delete"})) /\ Free(pending, Results({"deleted"}))
  /\ Free(dialogs, {"deleted"})

\* What a deletion will take out of the list is what the user has asked to delete,
\* and the list and what is queued for it lack nothing else but what was lost on the
\* way.
KeptInv ==
  Open /\ "select" \notin meanwhile =>
    /\ (1 .. handed) \ Range(InHand) \subseteq asked \cup lost
    /\ NoDeletion \/ selected \subseteq asked

\* Something is under way, with at most one operation, result or dialog of it.
Lone(S, T, R) ==
  /\ Single(work, S) /\ Single(pending, T) /\ Single(dialogs, R)
  /\ Free(work, S) \/ Free(pending, T)
  /\ Free(work, S) \/ Free(dialogs, R)
  /\ Free(pending, T) \/ Free(dialogs, R)

Idle(S, T, R) == Free(work, S) /\ Free(pending, T) /\ Free(dialogs, R)

LoginJobs == Jobs({"login", "create"})
LoginResults == Results({"login", "create"})

\* What the user has done stays done, and a client that is closed stays closed.
LEMMA HistoryGrows ==
  ASSUME [Next]_vars
  PROVE  /\ asked \subseteq asked' /\ lost \subseteq lost'
         /\ meanwhile \subseteq meanwhile' /\ (Open' => Open)
<1> DEFINE Goal == /\ asked \subseteq asked' /\ lost \subseteq lost'
                   /\ meanwhile \subseteq meanwhile' /\ (Open' => Open)
<1>1. CASE UNCHANGED << screen, asked, lost, meanwhile >>
  BY <1>1 DEF Open
<1>2. ASSUME Open, asked \subseteq asked', lost \subseteq lost', meanwhile \subseteq meanwhile'
      PROVE  Goal
  BY <1>2
<1>3. ASSUME NEW kind, NEW b, Hasty(kind, b)
      PROVE  meanwhile \subseteq meanwhile'
  BY <1>3 DEF Hasty
<1>4. CASE ServeCallback
  BY <1>1, <1>2, <1>4
  DEF ServeCallback, Serves, HandleLookupResult, HandleLoginResult,
      HandleAccountCreationResult, UpdateMessages, HandleDeleteMessagesResult,
      HandleUserResults, HandleSendMessageResult, UpdateServerList, Disconnect,
      Disconnects, history
<1>5. CASE Gesture
  BY <1>2, <1>3, <1>5
  DEF Gesture, EditName, CheckUsername, ProcessCredentials, TickMessage,
      DeleteSelectedMessages, ChangeMsgPage, EditSearch, Search, ChangeUserPage,
      LoadUserList, OpenNewMessageWindow, SendMessage, ViewServers, CloseServers,
      RefreshServers, ConfirmDeleteAccount, LogOut, Disconnects, ClickInChat,
      ClickAtLogin, Click
<1>6. CASE Answer
  BY <1>2, <1>3, <1>6
  DEF Answer, Closes, Dismiss, CreateChatScreen, LoadUserList, RemoveDeleted,
      DestroySent, AnswerConfirm, AccountDeleted, history
<1>7. ASSUME NEW i \in DOMAIN work, Operate(i)
      PROVE  Goal
  BY <1>1, <1>7
  DEF Operate, LookupUsername, LogIn, CreateAccount, FetchUsers, ListUsers,
      ProcessSendMessage, DeleteMessages, DeleteAccount, TimerExpires, Raises, login,
      history
<1>8. CASE OnResize \/ Poll \/ PollNew \/ UpdateReplicas \/ Others \/ OthersLeave
  BY <1>1, <1>2, <1>8
  DEF OnResize, Poll, PollNew, HandsOut, UpdateReplicas, Others, OthersLeave, login, history
<1>9. CASE UNCHANGED vars
  BY <1>1, <1>9 DEF vars, login, history
<1> QED
  BY <1>4, <1>5, <1>6, <1>7, <1>8, <1>9 DEF Next

\* What is found at a place of a queue.
LEMMA NotFree ==
  ASSUME Typed
  PROVE  /\ \A i, op, ops : Ends(i, op) /\ op \in ops => ~ Free(work, Jobs(ops))
         /\ \A do, dos : Serves(do) /\ do \in dos => ~ Free(pending, Results(dos))
         /\ \A rest, S : Closes(rest) /\ rest \in S => ~ Free(dialogs, S)
<1>1. work \in Seq(Job) /\ pending \in Seq(Callbacks) /\ dialogs \in Seq(Rests)
  BY DEF Typed, TypedLoop
<1>2. \A i \in DOMAIN work : work[i] \in Job
  BY <1>1
<1>3. pending # <<>> => 1 \in DOMAIN pending /\ Head(pending) = pending[1]
                        /\ Head(pending) \in Callbacks
  BY <1>1
<1>4. dialogs # <<>> => 1 \in DOMAIN dialogs /\ Head(dialogs) = dialogs[1]
  BY <1>1
<1>5. ASSUME NEW i, NEW op, NEW ops, Ends(i, op), op \in ops
      PROVE  ~ Free(work, Jobs(ops))
  BY <1>2, <1>5 DEF Ends, Free, Jobs
<1>6. ASSUME NEW do, NEW dos, Serves(do), do \in dos
      PROVE  ~ Free(pending, Results(dos))
  BY <1>3, <1>6 DEF Serves, Free, Results
<1>7. ASSUME NEW rest, NEW S, Closes(rest), rest \in S
      PROVE  ~ Free(dialogs, S)
  BY <1>4, <1>7 DEF Closes, Free
<1> QED
  BY <1>5, <1>6, <1>7

\* An operation that is not under way, by the places of the queues.
LEMMA NotUnderWay ==
  ASSUME NEW op, NEW do, ~ UnderWay(op, do)
  PROVE  Free(work, Jobs({op})) /\ Free(pending, Results({do}))
BY DEF UnderWay, Free, Jobs, Results

LEMMA DeletionStep ==
  ASSUME Typed, [Next]_vars, NoDeletion
  PROVE  NoDeletion' \/ DeleteSelectedMessages
<1> DEFINE J == Jobs({"delete"})
           C == Results({"deleted"})
<1>1. (\A e \in J : e.op \in {"delete"}) /\ (\A e \in C : e.do \in {"deleted"})
  BY DEF Jobs, Results
<1>2. Free(work, J) /\ Free(pending, C) /\ Free(dialogs, {"deleted"})
  BY DEF NoDeletion
<1> HIDE DEF J, C
<1>3. Quiet(work, work', J) \/ DeleteSelectedMessages
  <2>1. PICK ops : ops = {"delete"}
    OBVIOUS
  <2>2. /\ ops \subseteq {"delete", "send", "login", "create", "fetch", "list"}
        /\ \A e \in J : e.op \in ops
        /\ "send" \notin ops /\ "fetch" \notin ops /\ "list" \notin ops
        /\ ops \cap {"login", "create"} = {}
    BY <1>1, <2>1
  <2> QED
    BY <2>2, WorkStep
<1>4. Quiet(pending, pending', C)
  <2>1. ASSUME NEW i, DeleteMessages(i)
        PROVE  FALSE
    <3>1. Ends(i, "delete")
      BY <2>1 DEF DeleteMessages
    <3> QED
      BY <1>2, <3>1, NotFree DEF J
  <2>2. PICK dos : dos = {"deleted"}
    OBVIOUS
  <2>3. /\ dos \subseteq {"deleted", "sent", "login", "create", "users"}
        /\ \A e \in C : e.do \in dos
        /\ "sent" \notin dos /\ "login" \notin dos /\ "create" \notin dos
        /\ "users" \notin dos
    BY <1>1, <2>2
  <2> QED
    BY <2>1, <2>3, PendingStep
<1>5. Quiet(dialogs, dialogs', {"deleted"})
  <2>1. ASSUME HandleDeleteMessagesResult
        PROVE  FALSE
    <3>1. Serves("deleted")
      BY <2>1 DEF HandleDeleteMessagesResult
    <3> QED
      BY <1>2, <3>1, NotFree DEF C
  <2> QED
    BY <2>1, DialogsStep
<1> QED
  BY <1>2, <1>3, <1>4, <1>5 DEF Quiet, NoDeletion, J, C

\* Only the user ticks messages.
LEMMA SelectedStep ==
  ASSUME [Next]_vars
  PROVE  selected' = selected \/ selected' = {} \/ TickMessage
<1>1. CASE ServeCallback
  BY <1>1
  DEF ServeCallback, HandleLookupResult, HandleLoginResult,
      HandleAccountCreationResult, UpdateMessages, HandleDeleteMessagesResult,
      HandleUserResults, HandleSendMessageResult, UpdateServerList, Disconnect,
      Disconnects, Draws, pane, display
<1>2. CASE Gesture
  BY <1>2
  DEF Gesture, EditName, CheckUsername, ProcessCredentials,
      DeleteSelectedMessages, ChangeMsgPage, EditSearch, Search, ChangeUserPage,
      OpenNewMessageWindow, SendMessage, ViewServers, CloseServers,
      RefreshServers, ConfirmDeleteAccount, LogOut, Disconnects, Draws, pane, display
<1>3. CASE Answer
  BY <1>3
  DEF Answer, Dismiss, CreateChatScreen, RemoveDeleted, DestroySent, AnswerConfirm,
      AccountDeleted, Draws, pane, display
<1>4. ASSUME NEW i \in DOMAIN work, Operate(i)
      PROVE  selected' = selected
  BY <1>4
  DEF Operate, LookupUsername, LogIn, CreateAccount, FetchUsers, ListUsers,
      ProcessSendMessage, DeleteMessages, DeleteAccount, TimerExpires, Raises, pane,
      display
<1>5. CASE OnResize \/ Poll \/ PollNew \/ UpdateReplicas \/ Others \/ OthersLeave
  BY <1>5 DEF OnResize, Poll, PollNew, HandsOut, UpdateReplicas, Others, OthersLeave, pane, display
<1>6. CASE UNCHANGED vars
  BY <1>6 DEF vars, pane, display
<1> QED
  BY <1>1, <1>2, <1>3, <1>4, <1>5, <1>6 DEF Next

LEMMA KeptInit ==
  ASSUME Init
  PROVE  KeptInv
<1>1. handed = 0 /\ NoDeletion
  <2>1. handed = 0 /\ work = <<>> /\ pending = <<>> /\ dialogs = <<>>
    BY DEF Init
  <2>2. \A S : Free(<<>>, S)
    BY DEF Free
  <2> QED
    BY <2>1, <2>2 DEF NoDeletion
<1>2. 1 .. handed = {}
  BY <1>1
<1> QED
  BY <1>1, <1>2 DEF KeptInv

LEMMA KeptStep ==
  ASSUME Typed, KeptInv, [Next]_vars
  PROVE  KeptInv'
<1> SUFFICES ASSUME Open', "select" \notin meanwhile'
             PROVE  /\ (1 .. handed') \ Range(InHand') \subseteq asked' \cup lost'
                    /\ NoDeletion' \/ selected' \subseteq asked'
  BY DEF KeptInv
<1>0. asked \subseteq asked' /\ lost \subseteq lost' /\ Open /\ "select" \notin meanwhile
  BY HistoryGrows
<1>1. /\ (1 .. handed) \ Range(InHand) \subseteq asked \cup lost
      /\ NoDeletion \/ selected \subseteq asked
  BY <1>0 DEF KeptInv
<1>2. NoDeletion' \/ selected' \subseteq asked'
  <2>1. CASE TickMessage
    <3>1. ~ UnderWay("delete", "deleted") /\ "deleted" \notin Range(dialogs)
      BY <2>1 DEF TickMessage, Hasty
    <3>2. NoDeletion
      BY <3>1, NotUnderWay DEF NoDeletion, Free, Range
    <3>3. NoDeletion' \/ DeleteSelectedMessages
      BY <3>2, DeletionStep
    <3>4. work' = work /\ pending' = pending /\ dialogs' = dialogs
      BY <2>1 DEF TickMessage, loop
    <3> QED
      BY <3>2, <3>4 DEF NoDeletion, Free
  <2>2. CASE NoDeletion
    <3>1. ASSUME DeleteSelectedMessages
          PROVE  selected' \subseteq asked'
      BY <3>1 DEF DeleteSelectedMessages, pane, display
    <3> QED
      BY <2>2, <3>1, DeletionStep
  <2>3. CASE selected \subseteq asked /\ ~ TickMessage
    BY <1>0, <2>3, SelectedStep
  <2> QED
    BY <1>1, <2>1, <2>2, <2>3
<1>3. handed \in Nat /\ InHand \in Seq(Nat)
  BY InHandTyped, NetworkNumbers DEF Typed
<1>4. CASE SameInHand
  <2>1. Range(InHand') = Range(InHand) /\ handed' = handed
    BY <1>4 DEF SameInHand, Range
  <2> QED
    BY <1>0, <1>1, <1>2, <2>1
<1>5. CASE MoreInHand
  <2>1. PICK n \in Nat : handed <= n /\ handed' = n /\ InHand' = InHand \o Polled(handed, n)
    BY <1>5 DEF MoreInHand
  <2>2. PICK old \in Seq(Nat) : old = InHand
    BY <1>3
  <2>3. PICK more : more = Polled(handed, n)
    OBVIOUS
  <2>4. PICK new : new = old \o more
    OBVIOUS
  <2>5. /\ more \in Seq(Nat) /\ Len(more) = n - handed
        /\ \A k \in 1 .. n - handed : more[k] = handed + k
    BY <1>3, <2>1, <2>3 DEF Polled
  <2>6. ASSUME NEW i \in DOMAIN old
        PROVE  i \in DOMAIN new /\ new[i] = old[i]
    BY <2>2, <2>4, <2>5
  <2>7. ASSUME NEW k \in 1 .. n - handed
        PROVE  Len(old) + k \in DOMAIN new /\ new[Len(old) + k] = handed + k
    <3>1. (old \o more)[Len(old) + k] = more[k]
      BY <1>3, <2>1, <2>2, <2>5
    <3>2. Len(old) + k \in 1 .. Len(old) + (n - handed)
      BY <1>3, <2>1, <2>2
    <3>3. DOMAIN new = 1 .. Len(old) + (n - handed)
      <4>1. new \in Seq(Nat) /\ Len(new) = Len(old) + Len(more)
        BY <2>2, <2>4, <2>5, ConcatProperties
      <4> QED
        BY <2>5, <4>1, LenProperties
    <3> QED
      BY <2>4, <2>5, <3>1, <3>2, <3>3
  <2>8. ASSUME NEW m \in 1 .. n, m \notin Range(new)
        PROVE  m \in (1 .. handed) \ Range(old)
    <3>1. m <= handed
      <4>1. CASE ~ (m <= handed)
        <5>1. m - handed \in 1 .. n - handed /\ handed + (m - handed) = m
          BY <1>3, <2>1, <4>1
        <5> QED
          BY <2>7, <2>8, <5>1 DEF Range
      <4> QED
        BY <4>1
    <3>2. m \notin Range(old)
      BY <2>6, <2>8 DEF Range
    <3> QED
      BY <1>3, <2>1, <3>1, <3>2
  <2>9. InHand' = new /\ Range(InHand') = Range(new) /\ Range(InHand) = Range(old)
    BY <2>1, <2>2, <2>3, <2>4 DEF Range
  <2> QED
    BY <1>0, <1>1, <1>2, <2>1, <2>8, <2>9
<1>6. CASE RemoveDeleted
  <2>1. PICK new : new = InHand'
    OBVIOUS
  <2>2. /\ handed' = handed
        /\ \A p \in DOMAIN InHand :
             InHand[p] \notin selected => \E i \in DOMAIN new : new[i] = InHand[p]
    BY <1>6, <2>1, RemovedIsOf
  <2>3. ~ NoDeletion
    BY <1>6, NotFree DEF RemoveDeleted, NoDeletion
  <2>4. selected \subseteq asked
    BY <1>1, <2>3
  <2>5. \A m \in Range(InHand) : m \in selected \/ m \in Range(new)
    BY <2>2 DEF Range
  <2>6. Range(InHand') = Range(new)
    BY <2>1 DEF Range
  <2> QED
    BY <1>0, <1>1, <1>2, <2>2, <2>4, <2>5, <2>6
<1>7. CASE Disconnects
  BY <1>7 DEF Disconnects, Open
<1>8. CASE LostOnTheWay
  <2>1. PICK n \in Nat : /\ handed <= n /\ handed' = n /\ InHand' = InHand
                        /\ lost' = lost \cup (handed + 1 .. n)
    BY <1>8 DEF LostOnTheWay
  <2>2. 1 .. n \subseteq (1 .. handed) \cup (handed + 1 .. n)
    BY <1>3, <2>1
  <2>3. Range(InHand') = Range(InHand)
    BY <2>1 DEF Range
  <2> QED
    BY <1>0, <1>1, <1>2, <2>1, <2>2, <2>3
<1> QED
  BY <1>2, <1>4, <1>5, <1>6, <1>7, <1>8, InHandStep

\* The server hands a message out once.  Whatever is polled before there is a chat
\* screen, behind an open dialog or during a deletion, it stays with the client
\* until the user has asked to delete it, unless the answer that brought it did not
\* come, or the user changes the selection while a deletion is under way.
THEOREM MessagesKeptHolds == Spec => []MessagesKept
<1>1. Typed /\ KeptInv /\ [Next]_vars => KeptInv'
  BY KeptStep
<1>2. KeptInv => MessagesKept
  BY DEF KeptInv, MessagesKept
<1> QED
  BY <1>1, <1>2, KeptInit, TypedHolds, PTL DEF Spec

-----------------------------------------------------------------------------
\* Logging in

\* How what is under way goes on: as it was, started, answered, shown or ended.
LEMMA LoneSteps ==
  ASSUME NEW S, NEW T, NEW R, Lone(S, T, R)
  PROVE  /\ Quiet(work, work', S) /\ Quiet(pending, pending', T) /\ Quiet(dialogs, dialogs', R)
              => Lone(S, T, R)' /\ (Idle(S, T, R) => Idle(S, T, R)')
         /\ Idle(S, T, R) /\ Gains(work, work', S) /\ Quiet(pending, pending', T)
              /\ Quiet(dialogs, dialogs', R) => Lone(S, T, R)'
         /\ Loses(work, work', S) /\ Gains(pending, pending', T)
              /\ Quiet(dialogs, dialogs', R) => Lone(S, T, R)'
         /\ Quiet(work, work', S) /\ Loses(pending, pending', T)
              /\ Gains(dialogs, dialogs', R) => Lone(S, T, R)'
         /\ Quiet(work, work', S) /\ Quiet(pending, pending', T)
              /\ Loses(dialogs, dialogs', R) => Lone(S, T, R)' /\ Idle(S, T, R)'
<1>1. ASSUME NEW q, NEW U, Free(q, U)
      PROVE  Single(q, U)
  BY <1>1 DEF Free, Single
<1>2. /\ Free(work', S) => Single(work', S)
      /\ Free(pending', T) => Single(pending', T)
      /\ Free(dialogs', R) => Single(dialogs', R)
  BY <1>1
<1>3. /\ Single(work, S) /\ Single(pending, T) /\ Single(dialogs, R)
      /\ Free(work, S) \/ Free(pending, T)
      /\ Free(work, S) \/ Free(dialogs, R)
      /\ Free(pending, T) \/ Free(dialogs, R)
  BY DEF Lone
<1>4. Lone(S, T, R)' <=> /\ Single(work', S) /\ Single(pending', T) /\ Single(dialogs', R)
                         /\ Free(work', S) \/ Free(pending', T)
                         /\ Free(work', S) \/ Free(dialogs', R)
                         /\ Free(pending', T) \/ Free(dialogs', R)
  BY DEF Lone
<1>5. Idle(S, T, R)' <=> Free(work', S) /\ Free(pending', T) /\ Free(dialogs', R)
  BY DEF Idle
<1>6. Idle(S, T, R) <=> Free(work, S) /\ Free(pending, T) /\ Free(dialogs, R)
  BY DEF Idle
<1> QED
  BY <1>2, <1>3, <1>4, <1>5, <1>6 DEF Quiet, Gains, Loses

LEMMA ScreenStep ==
  ASSUME [Next]_vars
  PROVE  UNCHANGED screen \/ HandleLookupResult \/ CreateChatScreen \/ Disconnects
<1> DEFINE Goal == UNCHANGED screen \/ HandleLookupResult \/ CreateChatScreen \/ Disconnects
<1> SUFFICES Goal
  OBVIOUS
<1>1. CASE ServeCallback
  BY <1>1
  DEF ServeCallback, HandleLoginResult,
      HandleAccountCreationResult, UpdateMessages, HandleDeleteMessagesResult,
      HandleUserResults, HandleSendMessageResult, UpdateServerList, Disconnect, login
<1>2. CASE Gesture
  BY <1>2
  DEF Gesture, EditName, CheckUsername, ProcessCredentials, TickMessage,
      DeleteSelectedMessages, ChangeMsgPage, EditSearch, Search, ChangeUserPage,
      OpenNewMessageWindow, SendMessage, ViewServers, CloseServers,
      RefreshServers, ConfirmDeleteAccount, LogOut, login
<1>3. CASE Answer
  BY <1>3
  DEF Answer, Dismiss, RemoveDeleted, DestroySent, AnswerConfirm, AccountDeleted, login
<1>4. ASSUME NEW i \in DOMAIN work, Operate(i)
      PROVE  Goal
  BY <1>4
  DEF Operate, LookupUsername, LogIn, CreateAccount, FetchUsers, ListUsers,
      ProcessSendMessage, DeleteMessages, DeleteAccount, TimerExpires, Raises, login
<1>5. CASE OnResize \/ Poll \/ PollNew \/ UpdateReplicas \/ Others \/ OthersLeave
  BY <1>5 DEF OnResize, Poll, PollNew, HandsOut, UpdateReplicas, Others, OthersLeave, login
<1>6. CASE UNCHANGED vars
  BY <1>6 DEF vars, login
<1> QED
  BY <1>1, <1>2, <1>3, <1>4, <1>5, <1>6 DEF Next

\* An operation of the kind ends, its result is served, its dialog is closed.
LEMMA Handed ==
  ASSUME Typed
  PROVE  /\ \A i, op, ops : Ends(i, op) /\ op \in ops => Loses(work, work', Jobs(ops))
         /\ \A do, dos : Serves(do) /\ do \in dos /\ pending' = Tail(pending) =>
              Loses(pending, pending', Results(dos))
         /\ \A rest, S : Closes(rest) /\ rest \in S => Loses(dialogs, dialogs', S)
         /\ \A e, S : pending' = Queued(e) => Gains(pending, pending', S)
         /\ \A e, S : pending' = Queued(e) /\ e \notin S => Quiet(pending, pending', S)
         /\ \A e, S : Start(e) => Gains(work, work', S)
         /\ \A rest, S : Shows(rest) => Gains(dialogs, dialogs', S)
         /\ \A rest, S : Shows(rest) /\ rest \notin S => Quiet(dialogs, dialogs', S)
<1>1. /\ work \in Seq(Job) /\ pending \in Seq(Callbacks)
      /\ IsSequence(work) /\ IsSequence(pending) /\ IsSequence(dialogs)
  BY TypedQueues DEF Typed, TypedLoop
<1>2. ASSUME NEW i, NEW op, NEW ops, Ends(i, op), op \in ops
      PROVE  Loses(work, work', Jobs(ops))
  <2>1. i \in DOMAIN work /\ work[i] \in Jobs(ops) /\ work' = RemoveAt(work, i)
    BY <1>1, <1>2, TypedQueues DEF Ends, Jobs
  <2> QED
    BY <1>1, <2>1, QuietRemove
<1>3. ASSUME NEW do, NEW dos, Serves(do), do \in dos, pending' = Tail(pending)
      PROVE  Loses(pending, pending', Results(dos))
  <2>1. pending # <<>> /\ Head(pending) \in Results(dos)
    BY <1>1, <1>3, TypedQueues DEF Serves, Results
  <2> QED
    BY <1>1, <1>3, <2>1, QuietTail
<1>4. ASSUME NEW rest, NEW S, Closes(rest), rest \in S
      PROVE  Loses(dialogs, dialogs', S)
  BY <1>1, <1>4, QuietTail DEF Closes
<1>5. ASSUME NEW e, NEW S, pending' = Queued(e)
      PROVE  Gains(pending, pending', S) /\ (e \notin S => Quiet(pending, pending', S))
  BY <1>1, <1>5, QuietAppend DEF Queued
<1>6. ASSUME NEW e, NEW S, Start(e)
      PROVE  Gains(work, work', S)
  BY <1>1, <1>6, QuietAppend DEF Start
<1>7. ASSUME NEW rest, NEW S, Shows(rest)
      PROVE  Gains(dialogs, dialogs', S) /\ (rest \notin S => Quiet(dialogs, dialogs', S))
  BY <1>1, <1>7, QuietCons DEF Shows
<1> QED
  BY <1>2, <1>3, <1>4, <1>5, <1>6, <1>7

LoginLone == Lone(LoginJobs, LoginResults, {"chat"})
LoginIdle == Idle(LoginJobs, LoginResults, {"chat"})

\* A login goes on at the password screen only, and once, unless the user did not
\* wait for it.
LoginInv == "login" \notin meanwhile => LoginLone /\ (screen = "password" \/ LoginIdle)

LEMMA LoginInit ==
  ASSUME Init
  PROVE  LoginInv
<1>1. work = <<>> /\ pending = <<>> /\ dialogs = <<>>
  BY DEF Init
<1>2. \A S : Free(<<>>, S) /\ Single(<<>>, S)
  BY DEF Free, Single
<1> QED
  BY <1>1, <1>2 DEF LoginInv, LoginLone, LoginIdle, Lone, Idle

LEMMA LoginStep ==
  ASSUME Typed, LoginInv, [Next]_vars
  PROVE  LoginInv'
<1> SUFFICES ASSUME "login" \notin meanwhile'
             PROVE  LoginLone' /\ (screen' = "password" \/ LoginIdle')
  BY DEF LoginInv
<1>0. LoginLone /\ (screen = "password" \/ LoginIdle)
  BY HistoryGrows DEF LoginInv
<1>1. ASSUME Quiet(work, work', LoginJobs), Quiet(pending, pending', LoginResults),
             Quiet(dialogs, dialogs', {"chat"})
      PROVE  LoginLone' /\ (LoginIdle => LoginIdle')
  BY <1>0, <1>1, LoneSteps DEF LoginLone, LoginIdle
<1>2. CASE ProcessCredentials
  <2>1. UNCHANGED << pending, screen >> /\ screen = "password" /\ dialogs = <<>>
    BY <1>2 DEF ProcessCredentials, ClickAtLogin, Click, login
  <2>2. CASE Shows("nothing") /\ UNCHANGED work
    <3>1. /\ Quiet(work, work', LoginJobs) /\ Quiet(pending, pending', LoginResults)
          /\ Quiet(dialogs, dialogs', {"chat"})
      <4>1. Quiet(dialogs, dialogs', {"chat"})
        BY <2>2, Handed
      <4> QED
        BY <2>1, <2>2, <4>1, QuietSame
    <3> QED
      BY <1>1, <2>1, <3>1
  <2>3. CASE ~ (Shows("nothing") /\ UNCHANGED work)
    <3>1. /\ UNCHANGED dialogs
          /\ \E e : Start(e)
          /\ Hasty("login", UnderWay("login", "login") \/ UnderWay("create", "create"))
      BY <1>2, <2>3 DEF ProcessCredentials
    <3>2. ~ UnderWay("login", "login") /\ ~ UnderWay("create", "create")
      BY <3>1 DEF Hasty
    <3>3. /\ Free(work, LoginJobs) /\ Free(pending, LoginResults)
          /\ Free(dialogs, {"chat"})
      BY <2>1, <3>2 DEF UnderWay, Free, Jobs, Results, LoginJobs, LoginResults
    <3>4. LoginIdle
      BY <3>3 DEF LoginIdle, Idle
    <3>5. /\ Gains(work, work', LoginJobs) /\ Quiet(pending, pending', LoginResults)
          /\ Quiet(dialogs, dialogs', {"chat"})
      BY <2>1, <3>1, QuietSame, Handed
    <3>6. LoginLone'
      BY <1>0, <3>4, <3>5, LoneSteps DEF LoginLone, LoginIdle
    <3> QED
      BY <2>1, <3>6
  <2> QED
    BY <2>2, <2>3
<1>3. ASSUME NEW i \in DOMAIN work, LogIn(i) \/ CreateAccount(i)
      PROVE  LoginLone' /\ screen' = "password"
  <2>1. \E op \in {"login", "create"} : Ends(i, op)
    BY <1>3 DEF LogIn, CreateAccount
  <2>2. UNCHANGED << dialogs, screen >> /\ \E e : pending' = Queued(e)
    BY <1>3 DEF LogIn, CreateAccount, login
  <2>3. Loses(work, work', LoginJobs)
    BY <2>1, Handed DEF LoginJobs
  <2>4. Gains(pending, pending', LoginResults) /\ Quiet(dialogs, dialogs', {"chat"})
    BY <2>2, Handed, QuietSame
  <2>5. screen = "password"
    BY <1>0, <2>3 DEF LoginIdle, Idle, Loses
  <2> QED
    BY <1>0, <2>2, <2>3, <2>4, <2>5, LoneSteps DEF LoginLone
<1>4. CASE HandleLoginResult \/ HandleAccountCreationResult
  <2>1. \E do \in {"login", "create"} : Serves(do)
    BY <1>4 DEF HandleLoginResult, HandleAccountCreationResult
  <2>2. /\ UNCHANGED << work, screen >> /\ pending' = Tail(pending)
        /\ \E rest : Shows(rest)
    BY <1>4 DEF HandleLoginResult, HandleAccountCreationResult, login
  <2>3. Loses(pending, pending', LoginResults)
    BY <2>1, <2>2, Handed DEF LoginResults
  <2>4. Gains(dialogs, dialogs', {"chat"}) /\ Quiet(work, work', LoginJobs)
    BY <2>2, Handed, QuietSame
  <2>5. screen = "password"
    BY <1>0, <2>3 DEF LoginIdle, Idle, Loses
  <2> QED
    BY <1>0, <2>2, <2>3, <2>4, <2>5, LoneSteps DEF LoginLone
<1>5. Quiet(work, work', LoginJobs) \/ ProcessCredentials
  <2>1. PICK ops : ops = {"login", "create"}
    OBVIOUS
  <2>2. /\ ops \subseteq {"delete", "send", "login", "create", "fetch", "list"}
        /\ \A e \in LoginJobs : e.op \in ops
        /\ "delete" \notin ops /\ "send" \notin ops /\ "fetch" \notin ops
        /\ "list" \notin ops
    BY <2>1 DEF LoginJobs, Jobs
  <2> QED
    BY <2>2, WorkStep
<1>6. \/ Quiet(pending, pending', LoginResults)
      \/ \E i \in DOMAIN work : LogIn(i) \/ CreateAccount(i)
  <2>1. PICK dos : dos = {"login", "create"}
    OBVIOUS
  <2>2. /\ dos \subseteq {"deleted", "sent", "login", "create", "users"}
        /\ \A e \in LoginResults : e.do \in dos
        /\ "deleted" \notin dos /\ "sent" \notin dos /\ "users" \notin dos
    BY <2>1 DEF LoginResults, Results
  <2> QED
    BY <2>2, PendingStep
<1>7. Quiet(dialogs, dialogs', {"chat"}) \/ HandleLoginResult \/ HandleAccountCreationResult
  BY DialogsStep
<1>8. CASE CreateChatScreen
  <2>1. Loses(dialogs, dialogs', {"chat"})
    BY <1>8, Handed DEF CreateChatScreen
  <2>2. Quiet(work, work', LoginJobs) /\ Quiet(pending, pending', LoginResults)
    <3>1. ~ ProcessCredentials
      BY <1>8 DEF CreateChatScreen, ProcessCredentials, ClickAtLogin, Click, Closes
    <3>2. ASSUME NEW i, LogIn(i) \/ CreateAccount(i)
          PROVE  FALSE
      <4>1. UNCHANGED dialogs
        BY <3>2 DEF LogIn, CreateAccount
      <4>2. Quiet(dialogs, dialogs', {"chat"}) /\ ~ Free(dialogs, {"chat"})
        BY <2>1, <4>1, QuietSame DEF Loses
      <4>3. \E op \in {"login", "create"} : Ends(i, op)
        BY <3>2 DEF LogIn, CreateAccount
      <4>4. ~ Free(work, LoginJobs)
        BY <4>3, NotFree DEF LoginJobs
      <4> QED
        BY <1>0, <4>2, <4>4 DEF LoginLone, Lone
    <3> QED
      BY <1>5, <1>6, <3>1, <3>2
  <2>3. LoginLone' /\ LoginIdle'
    BY <1>0, <2>1, <2>2, LoneSteps DEF LoginLone, LoginIdle
  <2> QED
    BY <2>3
<1>9. CASE Disconnects
  <2>1. work' = <<>> /\ pending' = <<>> /\ dialogs' = <<>>
    BY <1>9 DEF Disconnects
  <2>2. \A S : Free(<<>>, S) /\ Single(<<>>, S)
    BY DEF Free, Single
  <2>3. LoginLone' /\ LoginIdle'
    BY <2>1, <2>2 DEF LoginLone, LoginIdle, Lone, Idle
  <2> QED
    BY <2>3
<1>10. ASSUME UNCHANGED screen \/ HandleLookupResult
       PROVE  screen = "password" => screen' = "password"
  BY <1>10 DEF HandleLookupResult, login
<1> QED
  BY <1>0, <1>1, <1>2, <1>3, <1>4, <1>5, <1>6, <1>7, <1>8, <1>9, <1>10, ScreenStep

-----------------------------------------------------------------------------
\* The page of the messages

\* A page of which the last update holds a message.
PageHolds(p, n, m) == p * MaxMsg < n \/ p * MaxMsg < m

\* Before there is a chat screen the page is the first.
FirstPage == screen \in {"login", "password"} => page = 0

PagesInv ==
  "login" \notin meanwhile => FirstPage /\ (page > 0 => PageHolds(page, Len(messages), unread))

LEMMA PagesStep ==
  ASSUME Typed, LoginInv, PagesInv, [Next]_vars
  PROVE  PagesInv'
<1> DEFINE Goal == FirstPage' /\ (page' > 0 => PageHolds(page', Len(messages'), unread'))
<1> SUFFICES ASSUME "login" \notin meanwhile'
             PROVE  Goal
  BY DEF PagesInv, PageHolds
<1>0. /\ FirstPage /\ (page > 0 => PageHolds(page, Len(messages), unread))
      /\ LoginLone /\ (screen = "password" \/ LoginIdle)
      /\ messages \in Seq(Nat) /\ messages' \in Seq(Nat)
      /\ Len(messages) \in Nat /\ Len(messages') \in Nat
      /\ unread \in Nat /\ page \in Nat /\ MaxMsg \in Nat \ {0}
      /\ screen \in {"login", "password", "chat", "closed"}
  BY HistoryGrows, PaneTyped, LenProperties, Constants
  DEF PagesInv, LoginInv, Typed, TypedPane, TypedLogin
<1>1. ASSUME UNCHANGED << messages, unread, page >>,
             \/ UNCHANGED screen \/ HandleLookupResult \/ screen' \in {"chat", "closed"}
      PROVE  Goal
  <2>1. CASE HandleLookupResult /\ screen = "login"
    <3>1. page' = 0
      BY <1>0, <1>1, <2>1 DEF FirstPage
    <3> QED
      BY <3>1 DEF FirstPage
  <2>2. CASE UNCHANGED screen \/ screen' \in {"chat", "closed"}
    <3>1. FirstPage'
      BY <1>0, <1>1, <2>2 DEF FirstPage
    <3>2. page' = page /\ messages' = messages /\ unread' = unread
      BY <1>1
    <3> QED
      BY <1>0, <3>1, <3>2
  <2> QED
    BY <1>1, <2>1, <2>2 DEF HandleLookupResult, login
<1>2. CASE UpdateMessages
  <2>1. Head(pending).messages \in Seq(Nat)
    <3>1. pending # <<>> /\ Head(pending).do = "update"
      BY <1>2 DEF UpdateMessages, Serves
    <3>2. pending \in Seq(Callbacks)
      BY DEF Typed, TypedLoop
    <3> QED
      BY <3>1, <3>2, TypedQueues, CallbackFields
  <2>2. page' = page /\ unread' = unread /\ screen' = screen
        /\ messages' = messages \o Head(pending).messages
    BY <1>2 DEF UpdateMessages, Draws, display, login
  <2>3. Len(messages) <= Len(messages')
    BY <1>0, <2>1, <2>2, LenProperties
  <2>4. page * MaxMsg \in Nat
    BY <1>0
  <2>5. page' > 0 => page * MaxMsg < Len(messages') \/ page * MaxMsg < unread
    BY <1>0, <2>2, <2>3, <2>4 DEF PageHolds
  <2> QED
    BY <1>0, <2>2, <2>5 DEF FirstPage, PageHolds
<1>3. CASE RemoveDeleted
  <2>1. page' = 0
    BY <1>3 DEF RemoveDeleted, Draws
  <2> QED
    BY <2>1 DEF FirstPage
<1>4. ASSUME NEW step \in {"older", "newer"}, ChangeMsgPage(step)
      PROVE  Goal
  <2> DEFINE new == IF step = "older" THEN page - 1 ELSE page + 1
             most == IF Len(messages) > unread THEN Len(messages) ELSE unread
  <2>1. /\ step = "older" => page > 0
        /\ new < PageCount(most, MaxMsg)
        /\ page' = new
        /\ messages' = messages /\ unread' = unread
        /\ screen' = screen /\ screen = "chat"
    BY <1>4 DEF ChangeMsgPage, Draws, ClickInChat, login
  <2>2. new \in Nat /\ most \in Nat
    BY <1>0, <2>1
  <2> HIDE DEF new
  <2>3. new * MaxMsg < most
    BY <1>0, <2>1, <2>2, PagesCounted
  <2>4. PageHolds(new, Len(messages), unread)
    BY <2>3 DEF PageHolds
  <2> QED
    BY <2>1, <2>4 DEF FirstPage
<1>5. CASE HandleLoginResult
  <2>1. screen = "password"
    <3>1. ~ Free(pending, LoginResults)
      BY <1>5, NotFree DEF HandleLoginResult, LoginResults
    <3> QED
      BY <1>0, <3>1 DEF LoginIdle, Idle
  <2>2. page = 0 /\ page' = page
    BY <1>0, <1>5, <2>1 DEF FirstPage, HandleLoginResult, display
  <2> QED
    BY <2>2 DEF FirstPage
<1>6. CASE CreateChatScreen
  BY <1>1, <1>6 DEF CreateChatScreen
<1>7. CASE Disconnects
  BY <1>1, <1>7 DEF Disconnects, pane, display
<1>8. CASE ServeCallback
  BY <1>1, <1>2, <1>5, <1>7, <1>8
  DEF ServeCallback, HandleLookupResult, HandleAccountCreationResult,
      HandleDeleteMessagesResult, HandleUserResults, HandleSendMessageResult,
      UpdateServerList, Disconnect, login, pane, display
<1>9. CASE Gesture
  BY <1>1, <1>4, <1>7, <1>9
  DEF Gesture, EditName, CheckUsername, ProcessCredentials, TickMessage,
      DeleteSelectedMessages, EditSearch, Search, ChangeUserPage,
      OpenNewMessageWindow, SendMessage, ViewServers, CloseServers,
      RefreshServers, ConfirmDeleteAccount, LogOut, login, pane, display
<1>10. CASE Answer
  BY <1>1, <1>3, <1>6, <1>10
  DEF Answer, Dismiss, DestroySent, AnswerConfirm, AccountDeleted, login, pane, display
<1>11. ASSUME NEW i \in DOMAIN work, Operate(i)
       PROVE  Goal
  BY <1>1, <1>11
  DEF Operate, LookupUsername, LogIn, CreateAccount, FetchUsers, ListUsers,
      ProcessSendMessage, DeleteMessages, DeleteAccount, TimerExpires, Raises, login,
      pane, display
<1>12. CASE OnResize \/ Poll \/ PollNew \/ UpdateReplicas \/ Others \/ OthersLeave
  BY <1>1, <1>12
  DEF OnResize, Poll, PollNew, HandsOut, UpdateReplicas, Others, OthersLeave, login, pane, display
<1>13. CASE UNCHANGED vars
  BY <1>1, <1>13 DEF vars, login, pane, display
<1> QED
  BY <1>8, <1>9, <1>10, <1>11, <1>12, <1>13 DEF Next

LEMMA LoginHolds == Spec => []LoginInv
BY LoginInit, LoginStep, TypedHolds, PTL DEF Spec

\* The current page holds a message of the list, or one that was unread at login,
\* across deletions on any page and whatever is polled, unless the user has logged
\* in twice at once.
THEOREM PageInRangeHolds == Spec => []PageInRange
<1>1. Init => PagesInv
  <2>1. Init => page = 0
    BY DEF Init
  <2>2. page = 0 => ~ (page > 0)
    OBVIOUS
  <2> QED
    BY <2>1, <2>2 DEF PagesInv, FirstPage
<1>2. Typed /\ LoginInv /\ PagesInv /\ [Next]_vars => PagesInv'
  BY PagesStep
<1>3. PagesInv => PageInRange
  BY DEF PagesInv, PageInRange, PageHolds
<1> QED
  BY <1>1, <1>2, <1>3, TypedHolds, LoginHolds, PTL DEF Spec

-----------------------------------------------------------------------------
\* The window of a message

Sent == { c \in Results({"sent"}) : c.success }

\* Messages that are sent from a window other than the one that is open.
OtherSends == { j \in Jobs({"send"}) : j.window # draft.window }

\* What is being sent is sent from the window that is open, if one is; and as long as
\* its message has not been sent, the result that is still to come, or to be shown,
\* is of no message that was.
DraftInv ==
  "open" \notin meanwhile /\ draft # None =>
    /\ Free(work, OtherSends)
    /\ ~ draft.sent => Free(pending, Sent) /\ Free(dialogs, {"sent"})

\* How a message window comes and goes.
LEMMA DraftStep ==
  ASSUME [Next]_vars
  PROVE  \/ UNCHANGED draft \/ OpenNewMessageWindow \/ CreateChatScreen \/ DestroySent
         \/ Disconnects \/ \E i \in DOMAIN work : ProcessSendMessage(i)
<1> DEFINE Goal == \/ UNCHANGED draft \/ OpenNewMessageWindow \/ CreateChatScreen
                   \/ DestroySent \/ Disconnects
                   \/ \E i \in DOMAIN work : ProcessSendMessage(i)
<1> SUFFICES Goal
  OBVIOUS
<1>1. CASE ServeCallback
  BY <1>1
  DEF ServeCallback, HandleLookupResult, HandleLoginResult,
      HandleAccountCreationResult, UpdateMessages, HandleDeleteMessagesResult,
      HandleUserResults, HandleSendMessageResult, UpdateServerList, Disconnect
<1>2. CASE Gesture
  BY <1>2
  DEF Gesture, EditName, CheckUsername, ProcessCredentials, TickMessage,
      DeleteSelectedMessages, ChangeMsgPage, EditSearch, Search, ChangeUserPage,
      SendMessage, ViewServers, CloseServers,
      RefreshServers, ConfirmDeleteAccount, LogOut
<1>3. CASE Answer
  BY <1>3 DEF Answer, Dismiss, RemoveDeleted, AnswerConfirm, AccountDeleted
<1>4. ASSUME NEW i \in DOMAIN work, Operate(i)
      PROVE  Goal
  BY <1>4
  DEF Operate, LookupUsername, LogIn, CreateAccount, FetchUsers, ListUsers,
      DeleteMessages, DeleteAccount, TimerExpires, Raises
<1>5. CASE OnResize \/ Poll \/ PollNew \/ UpdateReplicas \/ Others \/ OthersLeave
  BY <1>5 DEF OnResize, Poll, PollNew, HandsOut, UpdateReplicas, Others, OthersLeave
<1>6. CASE UNCHANGED vars
  BY <1>6 DEF vars
<1> QED
  BY <1>1, <1>2, <1>3, <1>4, <1>5, <1>6 DEF Next

LEMMA DraftInvStep ==
  ASSUME Typed, DraftInv, [Next]_vars
  PROVE  DraftInv'
<1> SUFFICES ASSUME "open" \notin meanwhile', draft' # None
             PROVE  /\ Free(work', OtherSends')
                    /\ ~ draft'.sent => Free(pending', Sent) /\ Free(dialogs', {"sent"})
  BY DEF DraftInv, Free
<1>0. /\ "open" \notin meanwhile
      /\ work \in Seq(Job) /\ IsSequence(work)
  BY HistoryGrows, TypedQueues DEF Typed, TypedLoop
<1>1. CASE OpenNewMessageWindow
  <2>1. UNCHANGED << dialogs, pending, work >> /\ dialogs = <<>>
    BY <1>1 DEF OpenNewMessageWindow, ClickInChat, Click, loop
  <2>2. ~ UnderWay("send", "sent")
    BY <1>1 DEF OpenNewMessageWindow, Hasty
  <2>3. Free(pending, Sent) /\ Free(dialogs, {"sent"})
    BY <2>1, <2>2 DEF UnderWay, Free, Sent, Results
  <2>4. Free(work, OtherSends')
    BY <2>2 DEF UnderWay, Free, OtherSends, Jobs
  <2> QED
    BY <2>1, <2>3, <2>4
<1>2. CASE ~ OpenNewMessageWindow
  <2>1. UNCHANGED draft \/ \E i \in DOMAIN work : ProcessSendMessage(i)
    BY <1>2, DraftStep DEF CreateChatScreen, DestroySent, Disconnects
  <2>2. draft # None /\ draft'.window = draft.window /\ (draft.sent => draft'.sent)
    <3>1. draft' = draft \/ (draft # None /\ draft' = [draft EXCEPT !.sent = TRUE])
      BY <2>1 DEF ProcessSendMessage
    <3>2. draft # None => draft \in [window : Nat, sent : BOOLEAN]
      BY DEF Typed, TypedWindows
    <3> QED
      BY <3>1, <3>2
  <2>3. Free(work, OtherSends) /\ OtherSends' = OtherSends
    BY <1>0, <2>2 DEF DraftInv, OtherSends
  <2>4. Free(work', OtherSends')
    <3>1. CASE SendMessage
      <4> DEFINE e == [op |-> "send", window |-> draft.window]
      <4>1. e \notin OtherSends
        BY DEF OtherSends
      <4>2. UNCHANGED work \/ work' = Append(work, e)
        BY <3>1 DEF SendMessage, Start
      <4> HIDE DEF e
      <4>3. Quiet(work, work', OtherSends)
        BY <1>0, <4>1, <4>2, QuietAppend, QuietSame
      <4> QED
        BY <2>3, <4>3 DEF Quiet
    <3>2. PICK ops : ops = {"send"}
      OBVIOUS
    <3>3. /\ ops \subseteq {"delete", "send", "login", "create", "fetch", "list"}
          /\ \A e \in OtherSends : e.op \in ops
          /\ "delete" \notin ops /\ "fetch" \notin ops /\ "list" \notin ops
          /\ ops \cap {"login", "create"} = {}
      BY <3>2 DEF OtherSends, Jobs
    <3>4. Quiet(work, work', OtherSends) \/ SendMessage
      BY <3>3, WorkStep
    <3> QED
      BY <2>3, <3>1, <3>4 DEF Quiet
  <2>5. ASSUME ~ draft'.sent
        PROVE  Free(pending', Sent) /\ Free(dialogs', {"sent"})
    <3>1. Free(pending, Sent) /\ Free(dialogs, {"sent"})
      BY <1>0, <2>2, <2>5 DEF DraftInv
    <3>2. Quiet(dialogs, dialogs', {"sent"})
      <4>1. ASSUME HandleSendMessageResult
            PROVE  Quiet(dialogs, dialogs', {"sent"})
        <5>1. pending # <<>> /\ Head(pending).do = "sent"
          BY <4>1 DEF HandleSendMessageResult, Serves
        <5>2. pending \in Seq(Callbacks)
          BY DEF Typed, TypedLoop
        <5>3. Head(pending) \in Callbacks /\ 1 \in DOMAIN pending /\ Head(pending) = pending[1]
          BY <5>1, <5>2
        <5>4. ~ Head(pending).success
          BY <3>1, <5>1, <5>3 DEF Free, Sent, Results
        <5>5. Shows("nothing")
          BY <4>1, <5>4 DEF HandleSendMessageResult
        <5> QED
          BY <5>5, Handed
      <4> QED
        BY <4>1, DialogsStep
    <3>3. Quiet(pending, pending', Sent)
      <4>1. ASSUME NEW i \in DOMAIN work, ProcessSendMessage(i)
            PROVE  Quiet(pending, pending', Sent)
        <5> DEFINE e == [do |-> "sent", success |-> session]
        <5>1. draft.window = work[i].window
          <6>1. work[i] \in Job /\ work[i].op = "send"
            BY <1>0, <4>1 DEF ProcessSendMessage, Ends
          <6>2. work[i] \notin OtherSends
            BY <2>3 DEF Free
          <6> QED
            BY <6>1, <6>2 DEF OtherSends, Jobs
        <5>2. ~ session
          <6>1. session => draft' = [draft EXCEPT !.sent = TRUE]
            BY <2>2, <4>1, <5>1 DEF ProcessSendMessage
          <6>2. draft \in [window : Nat, sent : BOOLEAN]
            BY <2>2 DEF Typed, TypedWindows
          <6> QED
            BY <2>5, <6>1, <6>2
        <5>3. e \notin Sent /\ pending' = Queued(e)
          BY <4>1, <5>2 DEF ProcessSendMessage, Sent
        <5> HIDE DEF e
        <5> QED
          BY <5>3, Handed
      <4>2. PICK dos : dos = {"sent"}
        OBVIOUS
      <4>3. /\ dos \subseteq {"deleted", "sent", "login", "create", "users"}
            /\ \A c \in Sent : c.do \in dos
            /\ "deleted" \notin dos /\ "login" \notin dos /\ "create" \notin dos
            /\ "users" \notin dos
        BY <4>2 DEF Sent, Results
      <4> QED
        BY <4>1, <4>3, PendingStep
    <3> QED
      BY <3>1, <3>2, <3>3 DEF Quiet
  <2> QED
    BY <2>4, <2>5
<1> QED
  BY <1>1, <1>2

LEMMA DraftInvHolds == Spec => []DraftInv
<1>1. Init => DraftInv
  BY DEF Init, DraftInv
<1>2. Typed /\ DraftInv /\ [Next]_vars => DraftInv'
  BY DraftInvStep
<1> QED
  BY <1>1, <1>2, TypedHolds, PTL DEF Spec

\* A message window whose message was not sent stays until the client is closed or
\* the user opens another in its place, unless a window was opened while a message was
\* being sent, or the user has logged in twice at once: no failed attempt to send it
\* takes it away.
THEOREM DraftKeptHolds == Spec => DraftKept
<1> DEFINE Left == /\ draft # None /\ ~ draft.sent
                   /\ draft' = None \/ draft'.window # draft.window
                   => \/ screen' = "closed"
                      \/ OpenNewMessageWindow
                      \/ meanwhile \cap {"open", "login"} # {}
<1>1. Typed /\ LoginInv /\ DraftInv /\ [Next]_vars => [Left]_vars
  <2> SUFFICES ASSUME Typed, LoginInv, DraftInv, [Next]_vars,
                      draft # None, ~ draft.sent,
                      draft' = None \/ draft'.window # draft.window,
                      ~ OpenNewMessageWindow,
                      "open" \notin meanwhile, "login" \notin meanwhile
               PROVE  screen' = "closed"
    OBVIOUS
  <2>0. screen = "chat" /\ draft \in [window : Nat, sent : BOOLEAN]
    BY DEF Typed, TypedWindows
  <2>1. Free(dialogs, {"sent"}) /\ Free(dialogs, {"chat"})
    BY <2>0 DEF DraftInv, LoginInv, LoginIdle, Idle
  <2>2. ~ DestroySent /\ ~ CreateChatScreen
    BY <2>1, NotFree DEF DestroySent, CreateChatScreen
  <2>3. ASSUME NEW i, ProcessSendMessage(i)
        PROVE  FALSE
    <3>1. draft' = draft \/ draft' = [draft EXCEPT !.sent = TRUE]
      BY <2>3 DEF ProcessSendMessage
    <3>2. draft' # None /\ draft'.window = draft.window
      <4>1. None \notin [window : Nat, sent : BOOLEAN]
        BY UIAssumption DEF UIAssumption
      <4> QED
        BY <2>0, <3>1, <4>1
    <3> QED
      BY <3>2
  <2>4. Disconnects
    BY <2>2, <2>3, DraftStep
  <2> QED
    BY <2>4 DEF Disconnects
<1> QED
  BY <1>1, TypedHolds, LoginHolds, DraftInvHolds, PTL DEF Spec, DraftKept

-----------------------------------------------------------------------------
\* The pages of the users

\* A list of accounts as ListedOnce wants it, of those that are due.
Listed(list, text, due) ==
  /\ IsInjective(list)
  /\ \A i, j \in DOMAIN list : i < j => Stamp[list[i]] <= Stamp[list[j]]
  /\ Range(list) \subseteq Matches[text]
  /\ \A a \in due \cap Matches[text] :
       Stamp[a] < OffsetAfter(list) => \E b \in Range(list) : Stamp[b] = Stamp[a]

\* The page that a server answers lists matching accounts that are younger than the
\* offset, by age, none twice, and none of those it has is missing before its last.
LEMMA PageOfMatches ==
  ASSUME NEW exist \in SUBSET Account, NEW order \in Listings[exist],
         NEW text \in SearchText, NEW from \in Nat,
         NEW f, f = ListAccounts(order, text, from)
  PROVE  /\ f \in Seq(Account)
         /\ \A i \in DOMAIN f : f[i] \in Matches[text] /\ Stamp[f[i]] > from
         /\ \A i, j \in DOMAIN f : i < j => f[i] # f[j] /\ Stamp[f[i]] <= Stamp[f[j]]
         /\ \A i \in DOMAIN f, a \in exist \cap Matches[text] :
              Stamp[a] > from /\ Stamp[a] < Stamp[f[i]] => a \in Range(f)
<1>0. /\ MaxUsers \in Nat \ {0} /\ Matches[text] \subseteq Account
      /\ \A a \in Account : Stamp[a] \in Nat
  BY Constants, PagesAssumption DEF PagesAssumption
<1>1. /\ order \in Seq(Account) /\ Len(order) \in Nat /\ DOMAIN order = 1 .. Len(order)
      /\ \A p \in 1 .. Len(order) : order[p] \in exist
      /\ \A a \in exist : \E p \in 1 .. Len(order) : order[p] = a
      /\ \A p, q \in 1 .. Len(order) :
           p < q => order[p] # order[q] /\ Stamp[order[p]] <= Stamp[order[q]]
  <2>1. /\ order \in Seq(Account) /\ Range(order) = exist /\ IsInjective(order)
        /\ \A i, j \in DOMAIN order : i < j => Stamp[order[i]] <= Stamp[order[j]]
    BY ListingIs
  <2>2. Len(order) \in Nat /\ DOMAIN order = 1 .. Len(order)
    BY <2>1, LenProperties
  <2> QED
    BY <2>1, <2>2 DEF Range, IsInjective
<1>3. PICK m : m = Within(order, Matches[text])
  OBVIOUS
<1>4. m \in Seq(Account) /\ Excerpt(m, order, Matches[text])
  BY <1>1, <1>3, WithinKeeps
<1>5. PICK w : w = Within(m, Younger(from))
  OBVIOUS
<1>6. w \in Seq(Account) /\ Excerpt(w, m, Younger(from))
  BY <1>4, <1>5, WithinKeeps
<1>7. f = Slice(w, 0, MaxUsers)
  BY <1>3, <1>5 DEF ListAccounts
<1>8. /\ \A i \in DOMAIN m : m[i] \in Matches[text]
      /\ \A a \in exist : a \in Matches[text] => \E i \in DOMAIN m : m[i] = a
      /\ \A i, j \in DOMAIN m : i < j => m[i] # m[j] /\ Stamp[m[i]] <= Stamp[m[j]]
  <2>1. ASSUME NEW i \in DOMAIN m
        PROVE  m[i] \in Matches[text]
    BY <1>4 DEF Excerpt
  <2>2. ASSUME NEW a \in exist, a \in Matches[text]
        PROVE  \E i \in DOMAIN m : m[i] = a
    BY <1>1, <1>4, <2>2 DEF Excerpt
  <2>3. ASSUME NEW i \in DOMAIN m, NEW j \in DOMAIN m, i < j
        PROVE  m[i] # m[j] /\ Stamp[m[i]] <= Stamp[m[j]]
    <3>1. \E p, q \in 1 .. Len(order) : p < q /\ m[i] = order[p] /\ m[j] = order[q]
      BY <1>4, <2>3 DEF Excerpt
    <3> QED
      BY <1>1, <3>1
  <2> QED
    BY <2>1, <2>2, <2>3
<1>9. Len(m) \in Nat /\ DOMAIN m = 1 .. Len(m) /\ Len(w) \in Nat /\ DOMAIN w = 1 .. Len(w)
  BY <1>4, <1>6, LenProperties
<1>10. /\ \A i \in DOMAIN w : w[i] \in Matches[text] /\ Stamp[w[i]] > from
       /\ \A a \in exist : a \in Matches[text] /\ Stamp[a] > from => \E i \in DOMAIN w : w[i] = a
       /\ \A i, j \in DOMAIN w : i < j => w[i] # w[j] /\ Stamp[w[i]] <= Stamp[w[j]]
  <2>1. ASSUME NEW i \in DOMAIN w
        PROVE  w[i] \in Matches[text] /\ Stamp[w[i]] > from
    <3>1. \E p \in 1 .. Len(m) : w[i] = m[p] /\ m[p] \in Younger(from)
      BY <1>6 DEF Excerpt
    <3> QED
      BY <1>8, <1>9, <3>1 DEF Younger
  <2>2. ASSUME NEW a \in exist, a \in Matches[text], Stamp[a] > from
        PROVE  \E i \in DOMAIN w : w[i] = a
    <3>1. PICK p \in 1 .. Len(m) : m[p] = a
      BY <1>8, <1>9, <2>2
    <3>2. m[p] \in Younger(from)
      BY <1>0, <2>2, <3>1 DEF Younger
    <3> QED
      BY <1>6, <3>1, <3>2 DEF Excerpt
  <2>3. ASSUME NEW i \in DOMAIN w, NEW j \in DOMAIN w, i < j
        PROVE  w[i] # w[j] /\ Stamp[w[i]] <= Stamp[w[j]]
    <3>1. \E p, q \in 1 .. Len(m) : p < q /\ w[i] = m[p] /\ w[j] = m[q]
      BY <1>6, <2>3 DEF Excerpt
    <3> QED
      BY <1>8, <1>9, <3>1
  <2> QED
    BY <2>1, <2>2, <2>3
<1>11. PICK k \in 0 .. Len(w) : f = SubSeq(w, 1, k)
  <2>1. 0 * MaxUsers + 1 = 1 /\ (0 + 1) * MaxUsers = MaxUsers
    BY <1>0
  <2>2. Least(MaxUsers, Len(w)) \in 0 .. Len(w)
    BY <1>0, <1>9 DEF Least
  <2> QED
    BY <1>7, <2>1, <2>2 DEF Slice
<1>12. /\ f \in Seq(Account) /\ DOMAIN f = 1 .. k
       /\ \A i \in 1 .. k : f[i] = w[i] /\ i \in DOMAIN w
  BY <1>6, <1>9, <1>11
<1>13. ASSUME NEW i \in DOMAIN f, NEW a \in exist, a \in Matches[text],
              Stamp[a] > from, Stamp[a] < Stamp[f[i]]
       PROVE  a \in Range(f)
  <2>1. a \in Account /\ i \in 1 .. k /\ f[i] = w[i] /\ f[i] \in Account
    BY <1>12
  <2>2. PICK j \in DOMAIN w : w[j] = a
    BY <1>10, <1>13
  <2>3. ~ (i <= j)
    <3>1. ASSUME i < j
          PROVE  FALSE
      <4>1. Stamp[f[i]] <= Stamp[a]
        BY <1>10, <1>12, <2>1, <2>2, <3>1
      <4>2. Stamp[f[i]] \in Nat /\ Stamp[a] \in Nat
        BY <1>0, <2>1
      <4> QED
        BY <1>13, <4>1, <4>2
    <3>2. i # j
      <4>1. Stamp[a] \in Nat
        BY <1>0, <2>1
      <4> QED
        BY <1>13, <2>1, <2>2, <4>1
    <3> QED
      BY <1>9, <2>1, <3>1, <3>2
  <2>4. j \in 1 .. k
    BY <1>9, <2>1, <2>3
  <2> QED
    BY <1>12, <2>2, <2>4 DEF Range
<1> QED
  BY <1>10, <1>12, <1>13

\* The page that a server answers to the offset after a list continues it, whatever it
\* does with the accounts of one millisecond: by age, with none twice, and none that is
\* due skipped but those of the millisecond of another.
THEOREM PagesContinue ==
  ASSUME NEW exist \in SUBSET Account, NEW order \in Listings[exist],
         NEW text \in SearchText, NEW due \in SUBSET exist,
         NEW list \in Seq(Account), Listed(list, text, due)
  PROVE  Listed(list \o ListAccounts(order, text, OffsetAfter(list)), text, due)
<1>0. /\ \A a \in Account : Stamp[a] \in Nat \ {0}
      /\ Matches[text] \subseteq Account
  BY Constants, PagesAssumption DEF PagesAssumption
<1>1. PICK from : from = OffsetAfter(list)
  OBVIOUS
<1>2. PICK f : f = ListAccounts(order, text, from)
  OBVIOUS
<1> DEFINE d == Len(list)
           e == Len(f)
<1>3. d \in Nat /\ DOMAIN list = 1 .. d /\ (list = <<>> <=> d = 0)
      /\ \A i \in 1 .. d : list[i] \in Account
  OBVIOUS
<1>4. /\ d = 0 => from = 0
      /\ d # 0 => from = Stamp[list[d]]
  BY <1>1, <1>3 DEF OffsetAfter, Last
<1>5. from \in Nat
  <2>1. CASE d = 0
    BY <1>4, <2>1
  <2>2. CASE d # 0
    <3>1. list[d] \in Account
      BY <1>3, <2>2
    <3> QED
      BY <1>0, <1>4, <2>2, <3>1
  <2> QED
    BY <2>1, <2>2
<1>6. /\ f \in Seq(Account)
      /\ \A i \in DOMAIN f : f[i] \in Matches[text] /\ Stamp[f[i]] > from
      /\ \A i, j \in DOMAIN f : i < j => f[i] # f[j] /\ Stamp[f[i]] <= Stamp[f[j]]
      /\ \A i \in DOMAIN f, a \in exist \cap Matches[text] :
           Stamp[a] > from /\ Stamp[a] < Stamp[f[i]] => a \in Range(f)
  BY <1>2, <1>5, PageOfMatches
<1>7. e \in Nat /\ DOMAIN f = 1 .. e /\ (f = <<>> <=> e = 0)
      /\ \A i \in 1 .. e : f[i] \in Account
  BY <1>6
<1>8. PICK new : new = list \o f
  OBVIOUS
<1>9. /\ new \in Seq(Account) /\ Len(new) = d + e /\ DOMAIN new = 1 .. d + e
      /\ \A i \in 1 .. d : new[i] = list[i]
      /\ \A i \in 1 .. e : new[d + i] = f[i]
  BY <1>6, <1>8
<1>10. /\ \A i, j \in 1 .. d : i < j => list[i] # list[j] /\ Stamp[list[i]] <= Stamp[list[j]]
       /\ \A i \in 1 .. d : list[i] \in Matches[text]
       /\ \A a \in due \cap Matches[text] :
            Stamp[a] < from => \E b \in Range(list) : Stamp[b] = Stamp[a]
  BY <1>1, <1>3 DEF Listed, Range, IsInjective
<1> HIDE DEF d, e
\* What comes is younger than what is there.
<1>11. ASSUME NEW i \in 1 .. d, NEW j \in 1 .. e
       PROVE  Stamp[list[i]] < Stamp[f[j]] /\ list[i] # f[j]
  <2>1. /\ list[i] \in Account /\ list[d] \in Account /\ f[j] \in Account /\ d # 0
        /\ d \in 1 .. d
    BY <1>3, <1>7
  <2>2. Stamp[f[j]] > Stamp[list[d]]
    BY <1>4, <1>6, <1>7, <2>1
  <2>3. i = d \/ Stamp[list[i]] <= Stamp[list[d]]
    BY <1>3, <1>10, <2>1
  <2>4. Stamp[list[i]] \in Nat /\ Stamp[list[d]] \in Nat /\ Stamp[f[j]] \in Nat
    BY <1>0, <2>1
  <2>5. Stamp[list[i]] < Stamp[f[j]]
    BY <2>2, <2>3, <2>4
  <2> QED
    BY <2>4, <2>5
<1>12. ASSUME NEW i \in DOMAIN new
       PROVE  \/ i \in 1 .. d /\ new[i] = list[i]
              \/ \E k \in 1 .. e : i = d + k /\ new[i] = f[k]
  <2>1. CASE i <= d
    BY <1>3, <1>9, <2>1
  <2>2. CASE ~ (i <= d)
    <3>1. i - d \in 1 .. e /\ i = d + (i - d)
      BY <1>3, <1>7, <1>9, <2>2
    <3> QED
      BY <1>9, <3>1
  <2> QED
    BY <2>1, <2>2
<1>13. ASSUME NEW i \in DOMAIN new, NEW j \in DOMAIN new, i < j
       PROVE  new[i] # new[j] /\ Stamp[new[i]] <= Stamp[new[j]]
  <2>1. CASE j \in 1 .. d /\ new[j] = list[j]
    <3>1. i \in 1 .. d
      BY <1>3, <1>9, <1>13, <2>1
    <3> QED
      BY <1>9, <1>10, <1>13, <2>1, <3>1
  <2>2. CASE \E k \in 1 .. e : j = d + k /\ new[j] = f[k]
    <3>1. PICK k \in 1 .. e : j = d + k /\ new[j] = f[k]
      BY <2>2
    <3>2. CASE i \in 1 .. d /\ new[i] = list[i]
      <4>1. Stamp[list[i]] \in Nat /\ Stamp[f[k]] \in Nat
        BY <1>0, <1>3, <1>7, <3>1, <3>2
      <4>2. Stamp[list[i]] < Stamp[f[k]] /\ list[i] # f[k]
        BY <1>11, <3>1, <3>2
      <4> QED
        BY <3>1, <3>2, <4>1, <4>2
    <3>3. CASE \E l \in 1 .. e : i = d + l /\ new[i] = f[l]
      <4>1. PICK l \in 1 .. e : i = d + l /\ new[i] = f[l]
        BY <3>3
      <4>2. l < k
        BY <1>3, <1>7, <1>13, <3>1, <4>1
      <4> QED
        BY <1>6, <1>7, <3>1, <4>1, <4>2
    <3> QED
      BY <1>12, <3>2, <3>3
  <2> QED
    BY <1>12, <2>1, <2>2
<1>14. Range(new) \subseteq Matches[text]
  BY <1>6, <1>7, <1>10, <1>12 DEF Range
<1>15. /\ \A i \in 1 .. d : list[i] \in Range(new)
       /\ \A i \in 1 .. e : f[i] \in Range(new)
  <2>1. \A i \in 1 .. d : i \in DOMAIN new
    BY <1>3, <1>7, <1>9
  <2>2. \A i \in 1 .. e : d + i \in DOMAIN new
    BY <1>3, <1>7, <1>9
  <2> QED
    BY <1>9, <2>1, <2>2 DEF Range
<1>16. ASSUME NEW a \in due, a \in Matches[text], Stamp[a] < OffsetAfter(new)
       PROVE  \E b \in Range(new) : Stamp[b] = Stamp[a]
  <2>1. a \in Account /\ a \in exist /\ Stamp[a] \in Nat /\ Stamp[a] > 0
    BY <1>0
  <2>2. CASE Stamp[a] > from
    <3>1. e # 0
      <4>1. ASSUME e = 0
            PROVE  FALSE
        <5>1. new = list
          BY <1>7, <1>8, <4>1, ConcatEmptySeq
        <5> QED
          BY <1>1, <1>5, <1>16, <2>1, <2>2, <5>1
      <4> QED
        BY <4>1
    <3>2. new # <<>> /\ Last(new) = f[e] /\ e \in DOMAIN f
      BY <1>3, <1>7, <1>9, <3>1 DEF Last
    <3>3. OffsetAfter(new) = Stamp[f[e]]
      BY <3>2 DEF OffsetAfter
    <3>4. a \in Range(f)
      BY <1>6, <1>16, <2>1, <2>2, <3>2, <3>3
    <3> QED
      BY <1>7, <1>15, <3>4 DEF Range
  <2>3. CASE Stamp[a] = from
    <3>1. d # 0 /\ d \in 1 .. d
      BY <1>3, <1>4, <2>1, <2>3
    <3> QED
      BY <1>4, <1>15, <2>3, <3>1
  <2>4. CASE Stamp[a] < from
    <3>1. PICK b \in Range(list) : Stamp[b] = Stamp[a]
      BY <1>10, <1>16, <2>4
    <3>2. b \in Range(new)
      BY <1>3, <1>15, <3>1 DEF Range
    <3> QED
      BY <3>1, <3>2
  <2> QED
    BY <1>5, <2>1, <2>2, <2>3, <2>4
<1>17. IsInjective(new)
  <2> SUFFICES ASSUME NEW i \in DOMAIN new, NEW j \in DOMAIN new, new[i] = new[j]
               PROVE  i = j
    BY DEF IsInjective
  <2>1. i \in Nat /\ j \in Nat
    BY <1>9
  <2>2. ~ (i < j) /\ ~ (j < i)
    BY <1>13
  <2> QED
    BY <2>1, <2>2
<1>18. \A i, j \in DOMAIN new : i < j => Stamp[new[i]] <= Stamp[new[j]]
  BY <1>13
<1>19. Listed(new, text, due)
  BY <1>14, <1>16, <1>17, <1>18 DEF Listed
<1> QED
  BY <1>1, <1>2, <1>8, <1>19

\* A list owes nothing to an account that no account on it is younger than.
LEMMA ListedDue ==
  ASSUME NEW list \in Seq(Account), NEW text \in SearchText, NEW due, NEW new,
         Listed(list, text, due),
         \A a \in new : a \in due \/ \A b \in Range(list) : ~ (Stamp[a] < Stamp[b])
  PROVE  Listed(list, text, new)
<1>1. /\ \A a \in Account : Stamp[a] \in Nat
      /\ Matches[text] \subseteq Account
  BY Constants, PagesAssumption DEF PagesAssumption
<1>2. ASSUME NEW a \in new, a \in Matches[text], Stamp[a] < OffsetAfter(list)
      PROVE  \E b \in Range(list) : Stamp[b] = Stamp[a]
  <2>1. CASE a \in due
    BY <1>2, <2>1 DEF Listed
  <2>2. CASE \A b \in Range(list) : ~ (Stamp[a] < Stamp[b])
    <3>1. list # <<>>
      <4>1. Stamp[a] \in Nat
        BY <1>1, <1>2
      <4> QED
        BY <1>2, <4>1 DEF OffsetAfter
    <3>2. list[Len(list)] \in Range(list) /\ OffsetAfter(list) = Stamp[list[Len(list)]]
      BY <3>1 DEF Range, OffsetAfter, Last
    <3> QED
      BY <1>2, <2>2, <3>2
  <2> QED
    BY <1>2, <2>1, <2>2
<1> QED
  BY <1>2 DEF Listed

\* The accounts that a list owes: those of the server that did not come too late.
Due == accounts \ (gone \cup late)

FetchJobs == Jobs({"fetch", "list"})
UsersResults == Results({"users"})

\* A request that asks for anything but what follows the list; a page that does not.
StaleJobs == { j \in Jobs({"list"}) : j.text # previous \/ offset # OffsetAfter(users) }
StaleResults == { c \in UsersResults : ~ Listed(users \o c.found, previous, Due) }

FetchLone == Lone(FetchJobs, UsersResults, {})

\* Users are loaded once at a time, unless the user did not wait for it, and what
\* comes continues the list.
FetchInv ==
  "fetch" \notin meanwhile =>
    /\ FetchLone /\ Listed(users, previous, Due)
    /\ Free(work, StaleJobs) /\ Free(pending, StaleResults)

\* How the list of users, and what is asked to continue it, come about.
LEMMA PeopleStep ==
  ASSUME [Next]_vars
  PROVE  \/ UNCHANGED << users, previous, offset >>
         \/ HandleUserResults \/ \E i \in DOMAIN work : FetchUsers(i)
<1> DEFINE Goal == \/ UNCHANGED << users, previous, offset >>
                   \/ HandleUserResults \/ \E i \in DOMAIN work : FetchUsers(i)
<1> SUFFICES Goal
  OBVIOUS
<1>1. CASE ServeCallback
  BY <1>1
  DEF ServeCallback, HandleLookupResult, HandleLoginResult,
      HandleAccountCreationResult, UpdateMessages, HandleDeleteMessagesResult,
      HandleSendMessageResult, UpdateServerList, Disconnect, Disconnects, people
<1>2. CASE Gesture
  BY <1>2
  DEF Gesture, EditName, CheckUsername, ProcessCredentials, TickMessage,
      DeleteSelectedMessages, ChangeMsgPage, EditSearch, Search, ChangeUserPage,
      OpenNewMessageWindow, SendMessage, ViewServers, CloseServers,
      RefreshServers, ConfirmDeleteAccount, LogOut, Disconnects, people
<1>3. CASE Answer
  BY <1>3
  DEF Answer, Dismiss, CreateChatScreen, RemoveDeleted, DestroySent, AnswerConfirm,
      AccountDeleted, people
<1>4. ASSUME NEW i \in DOMAIN work, Operate(i)
      PROVE  Goal
  BY <1>4
  DEF Operate, LookupUsername, LogIn, CreateAccount, ListUsers,
      ProcessSendMessage, DeleteMessages, DeleteAccount, TimerExpires, Raises, people
<1>5. CASE OnResize \/ Poll \/ PollNew \/ UpdateReplicas \/ Others \/ OthersLeave
  BY <1>5 DEF OnResize, Poll, PollNew, HandsOut, UpdateReplicas, Others, OthersLeave, people
<1>6. CASE UNCHANGED vars
  BY <1>6 DEF vars, people
<1> QED
  BY <1>1, <1>2, <1>3, <1>4, <1>5, <1>6 DEF Next

\* An account that is owed from now on is not overtaken, but when the list begins anew.
LEMMA DueStep ==
  ASSUME [Next]_vars
  PROVE  \/ \A a \in Due' : a \in Due \/ ~ Overtaken(a)
         \/ \E i \in DOMAIN work : FetchUsers(i)
<1> DEFINE Goal == \/ \A a \in Due' : a \in Due \/ ~ Overtaken(a)
                   \/ \E i \in DOMAIN work : FetchUsers(i)
<1> SUFFICES Goal
  OBVIOUS
<1>0. UNCHANGED << accounts, gone, late >> => Goal
  BY DEF Due
<1>1. ASSUME NEW a, Appears(a), gone' = gone
      PROVE  Goal
  <2>1. accounts' = accounts \cup {a}
        /\ late' = IF a \notin accounts /\ Overtaken(a) THEN late \cup {a} ELSE late
    BY <1>1 DEF Appears
  <2>2. ASSUME NEW b \in Due', b \notin Due
        PROVE  ~ Overtaken(b)
    <3>1. b \in accounts' /\ b \notin gone /\ b \notin late'
      BY <1>1 DEF Due
    <3>2. b \notin late
      BY <2>1, <3>1
    <3>3. b \notin accounts /\ b = a
      BY <2>1, <2>2, <3>1, <3>2 DEF Due
    <3> QED
      BY <2>1, <3>1, <3>3
  <2> QED
    BY <2>2
<1>2. CASE ServeCallback
  BY <1>0, <1>2
  DEF ServeCallback, HandleLookupResult, HandleLoginResult,
      HandleAccountCreationResult, UpdateMessages, HandleDeleteMessagesResult,
      HandleSendMessageResult, HandleUserResults, UpdateServerList, Disconnect,
      Disconnects, network, history
<1>3. CASE Gesture
  BY <1>0, <1>3
  DEF Gesture, EditName, CheckUsername, ProcessCredentials, TickMessage,
      DeleteSelectedMessages, ChangeMsgPage, EditSearch, Search, ChangeUserPage,
      OpenNewMessageWindow, SendMessage, ViewServers, CloseServers,
      RefreshServers, ConfirmDeleteAccount, LogOut, Disconnects, network, history
<1>4. CASE Answer
  BY <1>0, <1>4
  DEF Answer, Dismiss, CreateChatScreen, RemoveDeleted, DestroySent, AnswerConfirm,
      AccountDeleted, network, history
<1>5. ASSUME NEW i \in DOMAIN work, Operate(i)
      PROVE  Goal
  <2>1. CASE CreateAccount(i)
    BY <1>1, <2>1 DEF CreateAccount
  <2>2. CASE FetchUsers(i)
    BY <2>2
  <2>3. CASE ~ CreateAccount(i) /\ ~ FetchUsers(i)
    BY <1>0, <1>5, <2>3
    DEF Operate, LookupUsername, LogIn, ListUsers,
        ProcessSendMessage, DeleteMessages, DeleteAccount, TimerExpires, Raises,
        network, history
  <2> QED
    BY <2>1, <2>2, <2>3
<1>6. CASE Others
  BY <1>1, <1>6 DEF Others
<1>7. CASE OthersLeave
  <2>1. accounts' = accounts /\ late' = late /\ gone \subseteq gone'
    BY <1>7 DEF OthersLeave, history
  <2> QED
    BY <2>1 DEF Due
<1>8. CASE OnResize \/ Poll \/ PollNew \/ UpdateReplicas
  BY <1>0, <1>8 DEF OnResize, Poll, PollNew, HandsOut, UpdateReplicas, network, history
<1>9. CASE UNCHANGED vars
  BY <1>0, <1>9 DEF vars, network, history
<1> QED
  BY <1>2, <1>3, <1>4, <1>5, <1>6, <1>7, <1>8, <1>9 DEF Next

LEMMA ListedNothing ==
  ASSUME NEW text \in SearchText, NEW due
  PROVE  Listed(<<>>, text, due)
<1>1. /\ \A a \in Account : Stamp[a] \in Nat
      /\ Matches[text] \subseteq Account
  BY Constants, PagesAssumption DEF PagesAssumption
<1> QED
  BY <1>1 DEF Listed, Range, IsInjective, OffsetAfter

LEMMA FetchInit ==
  ASSUME Init
  PROVE  FetchInv
<1>1. /\ work = <<>> /\ pending = <<>> /\ dialogs = <<>> /\ users = <<>>
      /\ previous \in SearchText
  BY UIAssumption DEF Init, UIAssumption
<1>2. \A S : Free(<<>>, S) /\ Single(<<>>, S)
  BY DEF Free, Single
<1> QED
  BY <1>1, <1>2, ListedNothing DEF FetchInv, FetchLone, Lone

\* A smaller set is met less.
LEMMA FreeOfMore ==
  ASSUME NEW q, NEW S, NEW U, S \subseteq U, Free(q, U)
  PROVE  Free(q, S)
BY DEF Free

LEMMA FetchStep ==
  ASSUME Typed, FetchInv, [Next]_vars
  PROVE  FetchInv'
<1> DEFINE Goal == /\ FetchLone' /\ Listed(users', previous', Due')
                   /\ Free(work', StaleJobs') /\ Free(pending', StaleResults')
<1> SUFFICES ASSUME "fetch" \notin meanwhile'
             PROVE  Goal
  BY DEF FetchInv, Listed, Free
<1>0. /\ FetchLone /\ Listed(users, previous, Due)
      /\ Free(work, StaleJobs) /\ Free(pending, StaleResults)
      /\ work \in Seq(Job) /\ pending \in Seq(Callbacks)
      /\ IsSequence(work) /\ IsSequence(pending)
      /\ users \in Seq(Account) /\ accounts \in SUBSET Account
      /\ previous \in SearchText /\ search \in SearchText
  BY HistoryGrows, TypedQueues
  DEF FetchInv, Typed, TypedLoop, TypedPeople, TypedNetwork
<1>1. /\ StaleJobs \subseteq FetchJobs /\ StaleJobs' \subseteq FetchJobs
      /\ StaleResults \subseteq UsersResults /\ StaleResults' \subseteq UsersResults
  BY DEF StaleJobs, FetchJobs, StaleResults, Jobs, Results
<1>2. Quiet(dialogs, dialogs', {}) /\ Free(dialogs, {}) /\ Free(dialogs', {})
  BY DEF Quiet, Free, Single
<1>3. ASSUME NEW i \in DOMAIN work, FetchUsers(i)
      PROVE  Goal
  <2> DEFINE e == [op |-> "list", text |-> search]
  <2>1. /\ work[i].op = "fetch" /\ work' = [work EXCEPT ![i] = e]
        /\ pending' = pending /\ previous' = search
        /\ users' = IF search # previous THEN <<>> ELSE users
        /\ offset' = OffsetAfter(users')
    BY <1>3 DEF FetchUsers
  <2>2. work[i] \in FetchJobs
    BY <1>0, <2>1 DEF FetchJobs, Jobs
  <2>3. Quiet(work, work', FetchJobs)
    BY <1>0, <2>1, <2>2, QuietReplace
  <2>4. Free(pending, UsersResults)
    BY <1>0, <2>2 DEF FetchLone, Lone, Free
  <2>5. FetchLone'
    BY <1>0, <1>2, <2>1, <2>3, LoneSteps, QuietSame DEF FetchLone
  <2>6. Free(pending', StaleResults')
    BY <1>1, <2>1, <2>4, FreeOfMore
  <2>7. Listed(users', previous', Due')
    <3>1. CASE search # previous
      BY <1>0, <2>1, <3>1, ListedNothing
    <3>2. CASE search = previous
      <4>1. Due' = Due
        BY <1>3, <3>2 DEF FetchUsers, Due, network
      <4> QED
        BY <1>0, <2>1, <3>2, <4>1
    <3> QED
      BY <3>1, <3>2
  <2>8. e \notin StaleJobs' /\ e.op = "list"
    BY <2>1 DEF StaleJobs
  <2> HIDE DEF e
  <2>9. Free(work', StaleJobs')
    <3> SUFFICES ASSUME NEW j \in DOMAIN work', work'[j] \in StaleJobs'
                 PROVE  FALSE
      BY DEF Free
    <3>1. j \in DOMAIN work /\ work'[j] = IF j = i THEN e ELSE work[j]
      BY <1>0, <2>1
    <3>2. j # i
      BY <2>8, <3>1
    <3>3. work[j] \in FetchJobs
      BY <1>1, <3>1, <3>2
    <3> QED
      BY <1>0, <2>2, <3>1, <3>2, <3>3 DEF FetchLone, Lone, Single
  <2> QED
    BY <2>5, <2>6, <2>7, <2>9
<1>4. ASSUME NEW i \in DOMAIN work, ListUsers(i)
      PROVE  Goal
  <2>1. /\ Ends(i, "list") /\ UNCHANGED << users, previous, offset >>
        /\ \/ UNCHANGED pending
           \/ pending' = Queued([do |-> "users", found |-> <<>>])
           \/ \E order \in Listings[accounts \ gone] :
                pending' = Queued([ do |-> "users",
                                    found |-> ListAccounts(order, work[i].text, offset) ])
    BY <1>4 DEF ListUsers, people
  <2>2. Loses(work, work', FetchJobs) /\ Quiet(work, work', FetchJobs)
    <3>1. Loses(work, work', FetchJobs)
      BY <2>1, Handed DEF FetchJobs
    <3>2. Quiet(work, work', FetchJobs)
      BY <1>0, <2>1, QuietRemove DEF Ends
    <3> QED
      BY <3>1, <3>2
  <2>3. Free(work', FetchJobs) /\ Free(pending, UsersResults)
    BY <1>0, <2>2 DEF FetchLone, Lone, Loses
  <2>4. Free(work', StaleJobs')
    BY <1>1, <2>3, FreeOfMore
  <2>0. Due' = Due /\ Due \in SUBSET (accounts \ gone)
    BY <1>4 DEF ListUsers, Due, network, past
  <2>5. Listed(users', previous', Due') /\ StaleResults' = StaleResults
    BY <1>0, <2>0, <2>1 DEF StaleResults
  <2>6. CASE UNCHANGED pending
    <3>1. FetchLone'
      BY <1>0, <1>2, <2>2, <2>6, LoneSteps, QuietSame DEF FetchLone
    <3> QED
      BY <1>0, <2>4, <2>5, <2>6, <3>1
  <2>7. CASE ~ UNCHANGED pending
    <3>0. \E found : /\ pending' = Queued([do |-> "users", found |-> found])
                     /\ \/ found = <<>>
                        \/ \E order \in Listings[accounts \ gone] :
                             found = ListAccounts(order, work[i].text, offset)
      BY <2>1, <2>7
    <3>1. PICK found : /\ pending' = Queued([do |-> "users", found |-> found])
                       /\ \/ found = <<>>
                          \/ \E order \in Listings[accounts \ gone] :
                               found = ListAccounts(order, work[i].text, offset)
      BY <3>0
    <3> DEFINE c == [do |-> "users", found |-> found]
    <3>2. FetchLone'
      <4>1. Gains(pending, pending', UsersResults)
        BY <3>1, Handed
      <4> QED
        BY <1>0, <1>2, <2>2, <4>1, LoneSteps DEF FetchLone
    <3>3. Listed(users \o found, previous, Due)
      <4>1. CASE found = <<>>
        BY <1>0, <4>1, ConcatEmptySeq
      <4>2. CASE found # <<>>
        <5>0. PICK order \in Listings[accounts \ gone] :
                     found = ListAccounts(order, work[i].text, offset)
          BY <3>1, <4>2
        <5>1. work[i] \in Jobs({"list"}) /\ work[i] \notin StaleJobs
          BY <1>0, <2>1 DEF Ends, Jobs, Free
        <5>2. work[i].text = previous /\ offset = OffsetAfter(users)
          BY <5>1 DEF StaleJobs
        <5>3. accounts \ gone \in SUBSET Account
          BY <1>0
        <5> QED
          BY <1>0, <2>0, <5>0, <5>2, <5>3, PagesContinue
      <4> QED
        BY <4>1, <4>2
    <3>4. c \notin StaleResults /\ pending' = Queued(c)
      BY <3>1, <3>3 DEF StaleResults
    <3> HIDE DEF c
    <3>5. Quiet(pending, pending', StaleResults)
      BY <3>4, Handed
    <3> QED
      BY <1>0, <2>4, <2>5, <3>2, <3>5 DEF Quiet
  <2> QED
    BY <2>1, <2>6, <2>7
<1>5. CASE HandleUserResults
  <2>1. /\ Serves("users") /\ pending' = Tail(pending) /\ work' = work
        /\ previous' = previous /\ offset' = offset
        /\ \/ users' = users
           \/ users' = users \o Head(pending).found
    BY <1>5 DEF HandleUserResults
  <2>2. Loses(pending, pending', UsersResults) /\ Quiet(pending, pending', UsersResults)
    BY <1>0, <2>1, Handed, QuietTail DEF UsersResults, Serves
  <2>3. Free(pending', UsersResults) /\ Free(work', FetchJobs)
    BY <1>0, <2>1, <2>2 DEF FetchLone, Lone, Loses
  <2>4. FetchLone'
    BY <1>0, <1>2, <2>1, <2>2, LoneSteps, QuietSame DEF FetchLone
  <2>5. Free(work', StaleJobs') /\ Free(pending', StaleResults')
    BY <1>1, <2>3, FreeOfMore
  <2>0. Due' = Due
    BY <1>5 DEF HandleUserResults, Due, network, history
  <2>6. Listed(users \o Head(pending).found, previous, Due)
    <3>1. /\ 1 \in DOMAIN pending /\ Head(pending) = pending[1]
          /\ Head(pending) \in UsersResults
      BY <1>0, <2>1 DEF Serves, UsersResults, Results
    <3>2. Head(pending) \notin StaleResults
      BY <1>0, <3>1 DEF Free
    <3> QED
      BY <3>1, <3>2 DEF StaleResults
  <2>7. Listed(users', previous', Due')
    BY <1>0, <2>0, <2>1, <2>6
  <2> QED
    BY <2>4, <2>5, <2>7
<1>6. ASSUME UNCHANGED << users, previous, offset >>,
             ~ \E i \in DOMAIN work : ListUsers(i),
             ~ \E i \in DOMAIN work : FetchUsers(i)
      PROVE  Goal
  <2>1. StaleJobs' = StaleJobs
    BY <1>6 DEF StaleJobs
  <2>10. \A a \in Due' : a \in Due \/ ~ Overtaken(a)
    BY <1>6, DueStep
  <2>11. Listed(users', previous', Due')
    <3>1. \A a \in Due' : a \in Due \/ \A b \in Range(users) : ~ (Stamp[a] < Stamp[b])
      BY <2>10 DEF Overtaken
    <3> QED
      BY <1>0, <1>6, <3>1, ListedDue
  <2>2. PICK lists : lists = {"list"}
    OBVIOUS
  <2>3. Quiet(work, work', StaleJobs)
    <3>1. /\ lists \subseteq {"delete", "send", "login", "create", "fetch", "list"}
          /\ \A e \in StaleJobs : e.op \in lists
          /\ "delete" \notin lists /\ "send" \notin lists /\ "fetch" \notin lists
          /\ lists \cap {"login", "create"} = {}
      BY <2>2 DEF StaleJobs, Jobs
    <3> QED
      BY <1>6, <3>1, WorkStep
  <2>4. PICK dos : dos = {"users"}
    OBVIOUS
  <2>5. /\ dos \subseteq {"deleted", "sent", "login", "create", "users"}
        /\ "deleted" \notin dos /\ "sent" \notin dos /\ "login" \notin dos
        /\ "create" \notin dos
        /\ \A e \in UsersResults : e.do \in dos
    BY <2>4 DEF UsersResults, Results
  <2>6. Quiet(pending, pending', UsersResults)
    BY <1>6, <2>5, PendingStep
\* A page that has come follows the list still, whoever is owed now.
  <2>12. Free(pending', StaleResults')
    <3> SUFFICES ASSUME NEW j \in DOMAIN pending', pending'[j] \in StaleResults'
                 PROVE  FALSE
      BY DEF Free
    <3>1. PICK c : c = pending'[j]
      OBVIOUS
    <3>2. c \in UsersResults /\ ~ Listed(users \o c.found, previous, Due')
      BY <1>6, <3>1 DEF StaleResults, UsersResults, Results
    <3>3. Quiet(pending, pending', {c})
      <4>1. \A e \in {c} : e.do \in dos
        BY <2>5, <3>2
      <4> QED
        BY <1>6, <2>5, <4>1, PendingStep
    <3>4. ~ Free(pending, {c})
      BY <3>1, <3>3 DEF Free, Quiet
    <3>5. PICK k \in DOMAIN pending : pending[k] = c
      BY <3>4 DEF Free
    <3>6. Listed(users \o c.found, previous, Due)
      BY <1>0, <3>2, <3>5 DEF Free, StaleResults
    <3>7. c.do = "users" /\ c.found \in Seq(Account)
      BY <1>0, <3>2 DEF UsersResults, Results, Callbacks
    <3>8. ASSUME NEW a \in Due', a \notin Due, NEW b \in Range(users \o c.found)
          PROVE  ~ (Stamp[a] < Stamp[b])
      <4>1. ~ Overtaken(a)
        BY <2>10, <3>8
      <4>2. b \in Range(users) \/ b \in Range(c.found)
        BY <1>0, <3>7, <3>8, RangeConcatenation DEF Range
      <4> QED
        BY <3>5, <3>7, <4>1, <4>2 DEF Overtaken
    <3>9. users \o c.found \in Seq(Account)
      BY <1>0, <3>7
    <3> QED
      BY <1>0, <3>2, <3>6, <3>8, <3>9, ListedDue
  <2>7. Free(work', StaleJobs') /\ Free(pending', StaleResults')
    BY <1>0, <2>1, <2>3, <2>12 DEF Quiet
  <2>8. FetchLone'
    <3>1. CASE Quiet(work, work', FetchJobs)
      BY <1>0, <1>2, <2>6, <3>1, LoneSteps DEF FetchLone
    <3>2. CASE CreateChatScreen \/ Search \/ \E new : ChangeUserPage(new)
      <4>1. \/ UNCHANGED work
            \/ /\ work' = Append(work, Operation("fetch"))
               /\ Hasty("fetch", UnderWay("fetch", "users") \/ UnderWay("list", "users"))
        BY <3>2 DEF CreateChatScreen, Search, ChangeUserPage, LoadUserList
      <4>2. CASE UNCHANGED work
        BY <3>1, <4>2, QuietSame
      <4>3. CASE /\ work' = Append(work, Operation("fetch"))
                 /\ Hasty("fetch", UnderWay("fetch", "users") \/ UnderWay("list", "users"))
        <5>1. ~ UnderWay("fetch", "users") /\ ~ UnderWay("list", "users")
          BY <4>3 DEF Hasty
        <5>2. Idle(FetchJobs, UsersResults, {})
          BY <1>2, <5>1 DEF UnderWay, Idle, Free, FetchJobs, UsersResults, Jobs, Results
        <5>3. Gains(work, work', FetchJobs)
          BY <1>0, <4>3, QuietAppend
        <5> QED
          BY <1>0, <1>2, <2>6, <5>2, <5>3, LoneSteps DEF FetchLone
      <4> QED
        BY <4>1, <4>2, <4>3
    <3>3. PICK ops : ops = {"fetch", "list"}
      OBVIOUS
    <3>4. /\ ops \subseteq {"delete", "send", "login", "create", "fetch", "list"}
          /\ \A e \in FetchJobs : e.op \in ops
          /\ "delete" \notin ops /\ "send" \notin ops
          /\ ops \cap {"login", "create"} = {}
      BY <3>3 DEF FetchJobs, Jobs
    <3> QED
      BY <1>6, <3>1, <3>2, <3>4, WorkStep
  <2> QED
    BY <2>7, <2>8, <2>11
<1>7. ASSUME NEW i \in DOMAIN work, ListUsers(i)
      PROVE  UNCHANGED << users, previous, offset >>
  BY <1>7 DEF ListUsers, people
<1> QED
  BY <1>3, <1>4, <1>5, <1>6, PeopleStep

\* Pages that are loaded one after the other, for one search text after another and
\* from whatever servers, list the matching accounts by age ("Older users (who joined
\* first) are listed at the top", docs/CLIENT_SPEC.md:34), none twice, and skip none of
\* those that were not deleted but those created in the same millisecond as another and
\* those that became known when a younger one had been listed.
THEOREM ListedOnceHolds == Spec => []ListedOnce
<1>1. Typed /\ FetchInv /\ [Next]_vars => FetchInv'
  BY FetchStep
<1>2. FetchInv => ListedOnce
  BY DEF FetchInv, ListedOnce, Listed, Due
<1> QED
  BY <1>1, <1>2, FetchInit, TypedHolds, PTL DEF Spec

=============================================================================
