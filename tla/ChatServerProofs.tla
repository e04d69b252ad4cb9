-------------------------- MODULE ChatServerProofs --------------------------
(***************************************************************************)
(* One chat server, for any number of threads, users, calls and crashes:   *)
(* TypeCorrect, and RestartInvisibleHolds for the operations that delete   *)
(* nothing.                                                                *)
(*                                                                         *)
(* First what the loops of Database and LogReplay compute, each by an      *)
(* instance of FoldProofs, then what the steps of the threads make of it.  *)
(***************************************************************************)
EXTENDS ChatServer, SequenceTheorems, TLAPS

-----------------------------------------------------------------------------
\* The tables, and the loops over the ids of a log message

\* The tables are those of Database.
Tables(d) ==
  d = [accounts |-> d.accounts, usernames |-> d.usernames,
       chats |-> d.chats, unread |-> d.unread]

\* The tables have their types.
TypedDb(d) ==
  /\ Tables(d)
  /\ DOMAIN d.chats \subseteq Id
  /\ \A id \in DOMAIN d.chats : d.chats[id] \in Chat
  /\ \A username \in DOMAIN d.usernames : d.usernames[username] \in Id
  /\ \A user \in DOMAIN d.unread : d.unread[user] \in Seq(Id)

\* The unread lists say what the messages say, and only accounts have one.
Indexed(d) ==
  /\ DOMAIN d.unread \subseteq DOMAIN d.accounts
  /\ \A user \in DOMAIN d.accounts :
       /\ IsInjective(Unread(d, user))
       /\ Range(Unread(d, user)) =
            { id \in DOMAIN d.chats :
                d.chats[id].recipient = user /\ ~ d.chats[id].read }

MarkTurn(out, id) == IF out.ok THEN MarkRead(out.db, id) ELSE out

DeleteTurn(out, id) == IF out.ok THEN DeleteMessage(out.db, id) ELSE out

Done(c, k) == { c.ids[j] : j \in 1 .. k }

\* What k turns of markMessagesRead make of the database c.db.
Marked(c, k, out) ==
  /\ TypedDb(out.db)
  /\ out.db.accounts = c.db.accounts
  /\ out.db.usernames = c.db.usernames
  /\ DOMAIN out.db.unread = DOMAIN c.db.unread
  /\ DOMAIN out.db.chats = DOMAIN c.db.chats
  /\ out.ok =>
       /\ \A id \in DOMAIN c.db.chats :
            out.db.chats[id] = IF id \in Done(c, k)
                                 THEN [c.db.chats[id] EXCEPT !.read = TRUE]
                                 ELSE c.db.chats[id]
       /\ Indexed(c.db) => Indexed(out.db)
  /\ (\A j \in 1 .. k : /\ c.ids[j] \in DOMAIN c.db.chats
                        /\ c.db.chats[c.ids[j]].recipient \in DOMAIN c.db.unread)
       => out.ok

\* deleteMessage does not throw: the message is gone or read, or it can be taken
\* from the list of its recipient.
Deletable(d, id) ==
  id \in DOMAIN d.chats =>
    d.chats[id].read \/ d.chats[id].recipient \in DOMAIN d.unread

\* What k turns of the loop over deleteMessage make of the database c.db.
Deleted(c, k, out) ==
  /\ TypedDb(out.db)
  /\ out.db.accounts = c.db.accounts
  /\ out.db.usernames = c.db.usernames
  /\ DOMAIN out.db.unread = DOMAIN c.db.unread
  /\ DOMAIN out.db.chats \subseteq DOMAIN c.db.chats
  /\ \A id \in DOMAIN out.db.chats : out.db.chats[id] = c.db.chats[id]
  /\ Indexed(c.db) => Indexed(out.db)
  /\ out.ok => DOMAIN out.db.chats = DOMAIN c.db.chats \ Done(c, k)
  /\ out.ok <=> \A j \in 1 .. k : Deletable(c.db, c.ids[j])

Marking == INSTANCE FoldProofs WITH Step <- LAMBDA c, s, x : MarkTurn(s, x), Holds <- Marked

Deleting == INSTANCE FoldProofs WITH Step <- LAMBDA c, s, x : DeleteTurn(s, x), Holds <- Deleted

-----------------------------------------------------------------------------
\* Sequences

\* The place of the first e in a list.
LEMMA FirstPlace ==
  ASSUME NEW S, NEW s \in Seq(S), NEW e, e \in Range(s)
  PROVE  \E i \in 1 .. Len(s) : /\ s[i] = e
                                /\ RemoveFirst(s, e)
                                     = SubSeq(s, 1, i - 1) \o SubSeq(s, i + 1, Len(s))
<1> DEFINE I == { i \in 1 .. Len(s) : s[i] = e }
           T == { i \in Nat : i \in I }
<1>1. Len(s) \in Nat /\ DOMAIN s = 1 .. Len(s)
  BY LenProperties
<1>2. I # {} /\ I \in SUBSET Nat
  BY <1>1 DEF Range
<1>3. PICK i \in I : \A j \in I : i <= j
  BY <1>2, Marking!SmallestNumber
<1>4. Min(I) \in I
  BY <1>3 DEF Min
<1>5. SelectInSeq(s, LAMBDA v : v = e) = Min(I)
  BY <1>2 DEF SelectInSeq
<1>6. RemoveFirst(s, e) = RemoveAt(s, Min(I))
  BY <1>2, <1>5 DEF RemoveFirst
<1> QED
  BY <1>4, <1>6 DEF RemoveAt

\* What RemoveFirst returns.
LEMMA RemoveFirstIs ==
  ASSUME NEW S, NEW s \in Seq(S), NEW e
  PROVE  /\ RemoveFirst(s, e) \in Seq(S)
         /\ Range(s) \ {e} \subseteq Range(RemoveFirst(s, e))
         /\ Range(RemoveFirst(s, e)) \subseteq Range(s)
         /\ IsInjective(s) => /\ IsInjective(RemoveFirst(s, e))
                              /\ Range(RemoveFirst(s, e)) = Range(s) \ {e}
<1> DEFINE n == Len(s)
           r == RemoveFirst(s, e)
<1>1. n \in Nat /\ DOMAIN s = 1 .. n
  BY LenProperties
<1>2. CASE e \notin Range(s)
  <2>1. r = s
    BY <1>1, <1>2 DEF RemoveFirst, Range
  <2>2. Range(s) \ {e} = Range(s)
    BY <1>2
  <2> QED
    BY <2>1, <2>2
<1>3. CASE e \in Range(s)
  <2>1. PICK i \in 1 .. n : s[i] = e /\ r = SubSeq(s, 1, i - 1) \o SubSeq(s, i + 1, n)
    BY <1>3, FirstPlace
  <2> HIDE DEF r, n
  <2> DEFINE a == SubSeq(s, 1, i - 1)
             b == SubSeq(s, i + 1, n)
             at(j) == IF j < i THEN j ELSE j + 1
  <2>2. \A j \in 1 .. n : s[j] \in S
    BY <1>1, ElementOfSeq DEF n
  <2>3. /\ a \in Seq(S) /\ Len(a) = i - 1
        /\ \A j \in 1 .. i - 1 : a[j] = s[j]
    <3>1. \A j \in 1 .. i - 1 : j \in 1 .. n
      BY <1>1
    <3>2. \A j \in 1 .. i - 1 : s[j] \in S
      BY <2>2, <3>1
    <3>3. 1 \in Int /\ i - 1 \in Int
      BY <1>1
    <3> HIDE DEF a
    <3>4. /\ a \in Seq(S)
          /\ Len(a) = IF 1 <= i - 1 THEN (i - 1) - 1 + 1 ELSE 0
          /\ \A j \in 1 .. (i - 1) - 1 + 1 : a[j] = s[1 + j - 1]
      BY <3>2, <3>3, SubSeqProperties DEF a
    <3> QED
      BY <1>1, <3>4
  <2>4. /\ b \in Seq(S) /\ Len(b) = n - i
        /\ \A j \in 1 .. n - i : b[j] = s[j + i]
    <3>1. \A j \in i + 1 .. n : j \in 1 .. n
      BY <1>1
    <3>2. \A j \in i + 1 .. n : s[j] \in S
      BY <2>2, <3>1
    <3>3. i + 1 \in Int /\ n \in Int
      BY <1>1
    <3> HIDE DEF b
    <3>4. /\ b \in Seq(S)
          /\ Len(b) = IF i + 1 <= n THEN n - (i + 1) + 1 ELSE 0
          /\ \A j \in 1 .. n - (i + 1) + 1 : b[j] = s[i + 1 + j - 1]
      BY <3>2, <3>3, SubSeqProperties DEF b
    <3>5. \A j \in 1 .. n - i : b[j] = s[j + i]
      <4> TAKE j \in 1 .. n - i
      <4>1. j \in 1 .. n - (i + 1) + 1 /\ i + 1 + j - 1 = j + i
        BY <1>1
      <4> QED
        BY <3>4, <4>1
    <3> QED
      BY <1>1, <3>4, <3>5
  <2> HIDE DEF a, b
  <2>5. /\ a \o b \in Seq(S) /\ Len(a \o b) = Len(a) + Len(b)
        /\ \A j \in 1 .. Len(a) + Len(b) :
             (a \o b)[j] = IF j <= Len(a) THEN a[j] ELSE b[j - Len(a)]
    BY <2>3, <2>4, ConcatProperties
  <2>6. r = a \o b
    BY <2>1 DEF a, b
  <2>7. r \in Seq(S) /\ Len(r) = n - 1 /\ DOMAIN r = 1 .. n - 1
    <3>1. r \in Seq(S) /\ Len(r) = n - 1
      <4>1. Len(a) + Len(b) = n - 1
        BY <1>1, <2>3, <2>4
      <4> QED
        BY <2>5, <2>6, <4>1
    <3> QED
      BY <3>1, LenProperties
  <2>8. \A j \in 1 .. n - 1 : r[j] = s[at(j)] /\ at(j) \in (1 .. n) \ {i}
    <3> TAKE j \in 1 .. n - 1
    <3>1. CASE j < i
      <4>1. j \in 1 .. Len(a) + Len(b) /\ j <= Len(a) /\ j \in 1 .. i - 1
        BY <1>1, <2>3, <2>4, <3>1
      <4>2. (a \o b)[j] = a[j]
        BY <2>5, <4>1
      <4> QED
        BY <1>1, <2>3, <2>6, <3>1, <4>1, <4>2
    <3>2. CASE ~ (j < i)
      <4>1. /\ j \in 1 .. Len(a) + Len(b) /\ ~ (j <= Len(a))
            /\ j - (i - 1) \in 1 .. n - i
        BY <1>1, <2>3, <2>4, <3>2
      <4>2. (a \o b)[j] = b[j - (i - 1)]
        BY <2>3, <2>5, <4>1
      <4>3. (j - (i - 1)) + i = j + 1 /\ j + 1 \in 1 .. n /\ j + 1 # i
        BY <1>1, <3>2
      <4>4. b[j - (i - 1)] = s[j + 1]
        BY <2>4, <4>1, <4>3
      <4> QED
        BY <2>6, <3>2, <4>2, <4>3, <4>4
    <3> QED
      BY <3>1, <3>2
  <2>9. \A k \in (1 .. n) \ {i} : \E j \in 1 .. n - 1 : at(j) = k
    <3> TAKE k \in (1 .. n) \ {i}
    <3>1. CASE k < i
      <4>1. k \in 1 .. n - 1 /\ at(k) = k
        BY <1>1, <3>1
      <4> QED
        BY <4>1
    <3>2. CASE ~ (k < i)
      <4>1. k - 1 \in 1 .. n - 1 /\ at(k - 1) = k
        BY <1>1, <3>2
      <4> QED
        BY <4>1
    <3> QED
      BY <3>1, <3>2
  <2>10. \A j, k \in 1 .. n - 1 : at(j) = at(k) => j = k
    BY <1>1
  <2> HIDE DEF at
  <2>11. Range(r) \subseteq Range(s)
    BY <1>1, <2>7, <2>8 DEF Range
  <2>12. Range(s) \ {e} \subseteq Range(r)
    <3>1. ASSUME NEW k \in 1 .. n, s[k] # e PROVE s[k] \in Range(r)
      <4>1. PICK j \in 1 .. n - 1 : at(j) = k
        BY <2>1, <2>9, <3>1
      <4>2. r[j] = s[k] /\ j \in DOMAIN r
        BY <2>7, <2>8, <4>1
      <4> QED
        BY <4>2 DEF Range
    <3> QED
      BY <1>1, <3>1 DEF Range
  <2>13. ASSUME IsInjective(s) PROVE IsInjective(r) /\ e \notin Range(r)
    <3>1. \A j, k \in 1 .. n : s[j] = s[k] => j = k
      BY <1>1, <2>13 DEF IsInjective
    <3>2. \A j \in 1 .. n - 1 : r[j] # e
      BY <2>1, <2>8, <3>1
    <3>3. \A j, k \in 1 .. n - 1 : r[j] = r[k] => j = k
      BY <2>8, <2>10, <3>1
    <3> QED
      BY <2>7, <3>2, <3>3 DEF IsInjective, Range
  <2> QED
    BY <2>7, <2>11, <2>12, <2>13 DEF r
<1> QED
  BY <1>2, <1>3

-----------------------------------------------------------------------------
\* Each table after an operation

LEMMA CreateAccountIs ==
  ASSUME NEW d, Tables(d), NEW id, NEW username,
         NEW e, e = CreateAccount(d, id, username)
  PROVE  /\ Tables(e)
         /\ e.accounts = Put(d.accounts, id, username)
         /\ e.usernames = Put(d.usernames, username, id)
         /\ e.chats = d.chats
         /\ e.unread = d.unread
BY DEF Tables, CreateAccount

LEMMA DeleteAccountIs ==
  ASSUME NEW d, Tables(d), NEW id, NEW e, e = DeleteAccount(d, id)
  PROVE  /\ Tables(e)
         /\ e.accounts = Without(d.accounts, id)
         /\ e.usernames = d.usernames
         /\ e.chats = d.chats
         /\ e.unread = Without(d.unread, id)
BY DEF Tables, DeleteAccount

LEMMA CreateMessageIs ==
  ASSUME NEW d, Tables(d), NEW id, NEW chat \in Chat,
         NEW e, e = CreateMessage(d, id, chat)
  PROVE  /\ Tables(e)
         /\ e.accounts = d.accounts
         /\ e.usernames = d.usernames
         /\ e.chats = Put(d.chats, id, chat)
         /\ e.unread = IF chat.read THEN d.unread
                       ELSE Put(d.unread, chat.recipient,
                                Append(Unread(d, chat.recipient), id))
<1>1. Unread([d EXCEPT !.chats = Put(@, id, chat)], chat.recipient)
        = Unread(d, chat.recipient)
  BY DEF Tables, Unread
<1>2. e = IF chat.read THEN [d EXCEPT !.chats = Put(@, id, chat)]
          ELSE [d EXCEPT !.chats = Put(@, id, chat),
                         !.unread = Put(@, chat.recipient,
                                        Append(Unread(d, chat.recipient), id))]
  BY <1>1 DEF Tables, CreateMessage
<1>3. chat.read \in BOOLEAN
  BY DEF Chat
<1> QED
  BY <1>2, <1>3 DEF Tables

LEMMA UnindexIs ==
  ASSUME NEW d, Tables(d), NEW id, NEW user, user = d.chats[id].recipient,
         NEW out, out = Unindex(d, id)
  PROVE  /\ Tables(out.db)
         /\ out.ok <=> user \in DOMAIN d.unread
         /\ out.db.accounts = d.accounts
         /\ out.db.usernames = d.usernames
         /\ out.db.chats = d.chats
         /\ DOMAIN out.db.unread = DOMAIN d.unread
         /\ \A u \in DOMAIN d.unread :
              out.db.unread[u] = IF u = user THEN RemoveFirst(d.unread[u], id)
                                             ELSE d.unread[u]
<1>1. CASE user \in DOMAIN d.unread
  <2> DEFINE unread == [d.unread EXCEPT ![user] = RemoveFirst(d.unread[user], id)]
  <2>1. out = Outcome([d EXCEPT !.unread = unread], TRUE)
    BY <1>1 DEF Unindex, Tables
  <2>2. /\ DOMAIN unread = DOMAIN d.unread
        /\ \A u \in DOMAIN d.unread :
             unread[u] = IF u = user THEN RemoveFirst(d.unread[u], id)
                                     ELSE d.unread[u]
    OBVIOUS
  <2> HIDE DEF unread
  <2>3. out.db = [d EXCEPT !.unread = unread] /\ out.ok
    BY <2>1 DEF Outcome
  <2>4. /\ Tables(out.db)
        /\ out.db.accounts = d.accounts
        /\ out.db.usernames = d.usernames
        /\ out.db.chats = d.chats
        /\ out.db.unread = unread
    BY <2>3 DEF Tables
  <2> QED
    BY <1>1, <2>2, <2>3, <2>4
<1>2. CASE user \notin DOMAIN d.unread
  <2>1. out = Outcome(d, FALSE)
    BY <1>2 DEF Unindex
  <2>2. out.db = d /\ ~ out.ok
    BY <2>1 DEF Outcome
  <2> QED
    BY <1>2, <2>2
<1> QED
  BY <1>1, <1>2

LEMMA MarkReadIs ==
  ASSUME NEW d, Tables(d), NEW id \in DOMAIN d.chats, d.chats[id] \in Chat,
         NEW user, user = d.chats[id].recipient,
         NEW out, out = MarkRead(d, id)
  PROVE  /\ Tables(out.db)
         /\ out.ok <=> user \in DOMAIN d.unread
         /\ out.db.accounts = d.accounts
         /\ out.db.usernames = d.usernames
         /\ DOMAIN out.db.chats = DOMAIN d.chats
         /\ \A i \in DOMAIN d.chats :
              out.db.chats[i] = IF i = id THEN [d.chats[i] EXCEPT !.read = TRUE]
                                          ELSE d.chats[i]
         /\ DOMAIN out.db.unread = DOMAIN d.unread
         /\ \A u \in DOMAIN d.unread :
              out.db.unread[u] = IF u = user THEN RemoveFirst(d.unread[u], id)
                                             ELSE d.unread[u]
<1> DEFINE chats == [d.chats EXCEPT ![id] = [d.chats[id] EXCEPT !.read = TRUE]]
           e == [d EXCEPT !.chats = chats]
<1>1. /\ Tables(e) /\ e.chats = chats
      /\ e.accounts = d.accounts /\ e.usernames = d.usernames /\ e.unread = d.unread
  <2> HIDE DEF chats
  <2> QED
    BY DEF Tables
<1>2. /\ DOMAIN chats = DOMAIN d.chats
      /\ \A i \in DOMAIN d.chats :
           chats[i] = IF i = id THEN [d.chats[i] EXCEPT !.read = TRUE] ELSE d.chats[i]
      /\ chats[id].recipient = user
  BY DEF Chat
<1>3. out = Unindex(e, id)
  BY DEF MarkRead, Tables
<1> HIDE DEF chats, e
<1>4. /\ Tables(out.db)
      /\ out.ok <=> user \in DOMAIN e.unread
      /\ out.db.accounts = e.accounts
      /\ out.db.usernames = e.usernames
      /\ out.db.chats = e.chats
      /\ DOMAIN out.db.unread = DOMAIN e.unread
      /\ \A u \in DOMAIN e.unread :
           out.db.unread[u] = IF u = user THEN RemoveFirst(e.unread[u], id)
                                          ELSE e.unread[u]
  BY <1>1, <1>2, <1>3, UnindexIs
<1> QED
  BY <1>1, <1>2, <1>4

\* The entry goes, unless it is unread and its recipient has no list.
LEMMA DeleteMessageIs ==
  ASSUME NEW d, Tables(d), NEW id \in DOMAIN d.chats, d.chats[id] \in Chat,
         NEW user, user = d.chats[id].recipient,
         NEW out, out = DeleteMessage(d, id)
  PROVE  /\ Tables(out.db)
         /\ out.ok <=> (d.chats[id].read \/ user \in DOMAIN d.unread)
         /\ out.db.accounts = d.accounts
         /\ out.db.usernames = d.usernames
         /\ out.db.chats = IF out.ok THEN Without(d.chats, id) ELSE d.chats
         /\ DOMAIN out.db.unread = DOMAIN d.unread
         /\ \A u \in DOMAIN d.unread :
              out.db.unread[u] = IF u = user /\ ~ d.chats[id].read
                                   THEN RemoveFirst(d.unread[u], id)
                                   ELSE d.unread[u]
<1> DEFINE first == IF d.chats[id].read THEN Outcome(d, TRUE) ELSE Unindex(d, id)
<1>1. d.chats[id].read \in BOOLEAN
  BY DEF Chat
<1>2. /\ Tables(first.db)
      /\ first.ok <=> (d.chats[id].read \/ user \in DOMAIN d.unread)
      /\ first.db.accounts = d.accounts
      /\ first.db.usernames = d.usernames
      /\ first.db.chats = d.chats
      /\ DOMAIN first.db.unread = DOMAIN d.unread
      /\ \A u \in DOMAIN d.unread :
           first.db.unread[u] = IF u = user /\ ~ d.chats[id].read
                                  THEN RemoveFirst(d.unread[u], id)
                                  ELSE d.unread[u]
  <2>1. CASE d.chats[id].read
    BY <1>1, <2>1 DEF Outcome
  <2>2. CASE ~ d.chats[id].read
    <3>1. first = Unindex(d, id)
      BY <2>2
    <3> HIDE DEF first
    <3>2. /\ Tables(first.db)
          /\ first.ok <=> user \in DOMAIN d.unread
          /\ first.db.accounts = d.accounts
          /\ first.db.usernames = d.usernames
          /\ first.db.chats = d.chats
          /\ DOMAIN first.db.unread = DOMAIN d.unread
          /\ \A u \in DOMAIN d.unread :
               first.db.unread[u] = IF u = user THEN RemoveFirst(d.unread[u], id)
                                                ELSE d.unread[u]
      BY <3>1, UnindexIs
    <3> QED
      BY <1>1, <2>2, <3>2
  <2> QED
    BY <2>1, <2>2
<1>3. out = IF first.ok THEN Outcome([first.db EXCEPT !.chats = Without(@, id)], TRUE)
                        ELSE first
  BY DEF DeleteMessage
<1> HIDE DEF first
<1>4. CASE first.ok
  <2>1. out = Outcome([first.db EXCEPT !.chats = Without(@, id)], TRUE)
    BY <1>3, <1>4
  <2>2. /\ out.ok
        /\ out.db = [first.db EXCEPT !.chats = Without(first.db.chats, id)]
    BY <2>1 DEF Outcome
  <2>3. /\ Tables(out.db)
        /\ out.db.accounts = first.db.accounts
        /\ out.db.usernames = first.db.usernames
        /\ out.db.chats = Without(first.db.chats, id)
        /\ out.db.unread = first.db.unread
    BY <1>2, <2>2 DEF Tables
  <2> QED
    BY <1>2, <1>4, <2>2, <2>3
<1>5. CASE ~ first.ok
  <2>1. out = first
    BY <1>3, <1>5
  <2> QED
    BY <1>2, <1>5, <2>1
<1> QED
  BY <1>4, <1>5

-----------------------------------------------------------------------------
\* The turns of the loops

LEMMA DoneTurns ==
  ASSUME NEW c, NEW k \in Nat \ {0}
  PROVE  Done(c, 0) = {} /\ Done(c, k) = Done(c, k - 1) \cup {c.ids[k]}
<1>1. 1 .. k = (1 .. k - 1) \cup {k} /\ 1 .. 0 = {}
  OBVIOUS
<1> QED
  BY <1>1 DEF Done

LEMMA ReadIsChat ==
  ASSUME NEW chat \in Chat
  PROVE  /\ [chat EXCEPT !.read = TRUE] \in Chat
         /\ [chat EXCEPT !.read = TRUE].read
         /\ [chat EXCEPT !.read = TRUE].recipient = chat.recipient
         /\ [chat EXCEPT !.read = TRUE].sender = chat.sender
         /\ [chat EXCEPT !.read = TRUE].number = chat.number
         /\ [[chat EXCEPT !.read = TRUE] EXCEPT !.read = TRUE]
              = [chat EXCEPT !.read = TRUE]
BY DEF Chat

LEMMA MarkTyped ==
  ASSUME NEW d, TypedDb(d), NEW id, NEW out, out = MarkRead(d, id)
  PROVE  TypedDb(out.db)
<1>1. CASE id \notin DOMAIN d.chats
  BY <1>1 DEF MarkRead, Outcome
<1>2. CASE id \in DOMAIN d.chats
  <2> DEFINE user == d.chats[id].recipient
  <2>1. d.chats[id] \in Chat /\ Tables(d)
    BY <1>2 DEF TypedDb
  <2>2. /\ Tables(out.db)
        /\ out.db.usernames = d.usernames
        /\ DOMAIN out.db.chats = DOMAIN d.chats
        /\ \A i \in DOMAIN d.chats :
             out.db.chats[i] = IF i = id THEN [d.chats[i] EXCEPT !.read = TRUE]
                                         ELSE d.chats[i]
        /\ DOMAIN out.db.unread = DOMAIN d.unread
        /\ \A u \in DOMAIN d.unread :
             out.db.unread[u] = IF u = user THEN RemoveFirst(d.unread[u], id)
                                            ELSE d.unread[u]
    BY <1>2, <2>1, MarkReadIs
  <2> HIDE DEF user
  <2>3. \A i \in DOMAIN d.chats : out.db.chats[i] \in Chat
    BY <2>2, ReadIsChat DEF TypedDb
  <2>4. \A u \in DOMAIN d.unread : RemoveFirst(d.unread[u], id) \in Seq(Id)
    BY RemoveFirstIs DEF TypedDb
  <2>5. \A u \in DOMAIN d.unread : out.db.unread[u] \in Seq(Id)
    BY <2>2, <2>4 DEF TypedDb
  <2> QED
    BY <2>2, <2>3, <2>5 DEF TypedDb
<1> QED
  BY <1>1, <1>2

\* An id leaves the list of its recipient when it stops to be an unread message.
LEMMA IndexKept ==
  ASSUME NEW d, TypedDb(d), Indexed(d), NEW id \in DOMAIN d.chats,
         NEW user, user = d.chats[id].recipient, user \in DOMAIN d.unread,
         NEW e, TypedDb(e), e.accounts = d.accounts,
         DOMAIN e.unread = DOMAIN d.unread,
         \A u \in DOMAIN d.unread :
           e.unread[u] = IF u = user THEN RemoveFirst(d.unread[u], id) ELSE d.unread[u],
         DOMAIN e.chats \subseteq DOMAIN d.chats,
         DOMAIN d.chats \ {id} \subseteq DOMAIN e.chats,
         \A i \in DOMAIN d.chats \ {id} : e.chats[i] = d.chats[i],
         id \in DOMAIN e.chats => e.chats[id].read
  PROVE  Indexed(e)
<1> DEFINE listed(x, u) == { i \in DOMAIN x.chats :
                               x.chats[i].recipient = u /\ ~ x.chats[i].read }
<1>1. DOMAIN e.unread \subseteq DOMAIN e.accounts
  BY DEF Indexed
<1>2. ASSUME NEW u \in DOMAIN d.accounts, u # user
      PROVE  IsInjective(Unread(e, u)) /\ Range(Unread(e, u)) = listed(e, u)
  <2>1. Unread(e, u) = Unread(d, u)
    BY <1>2 DEF Unread
  <2>2. listed(e, u) = listed(d, u)
    BY <1>2
  <2> QED
    BY <2>1, <2>2 DEF Indexed
<1>3. IsInjective(Unread(e, user)) /\ Range(Unread(e, user)) = listed(e, user)
  <2>1. /\ Unread(d, user) = d.unread[user]
        /\ Unread(e, user) = RemoveFirst(d.unread[user], id)
    BY DEF Unread
  <2>2. d.unread[user] \in Seq(Id)
    BY DEF TypedDb
  <2>3. /\ IsInjective(d.unread[user])
        /\ Range(d.unread[user]) = listed(d, user)
    BY <2>1 DEF Indexed
  <2>4. /\ IsInjective(Unread(e, user))
        /\ Range(Unread(e, user)) = listed(d, user) \ {id}
    BY <2>1, <2>2, <2>3, RemoveFirstIs
  <2>5. listed(e, user) = listed(d, user) \ {id}
    OBVIOUS
  <2> QED
    BY <2>4, <2>5
<1> QED
  BY <1>1, <1>2, <1>3 DEF Indexed

LEMMA MarkTurnKeeps ==
  ASSUME NEW c, NEW k \in Nat \ {0}, NEW out, Marked(c, k - 1, out),
         \A id \in DOMAIN c.db.chats : c.db.chats[id] \in Chat
  PROVE  Marked(c, k, MarkTurn(out, c.ids[k]))
<1> DEFINE id == c.ids[k]
           d == out.db
           next == MarkTurn(out, id)
           user == d.chats[id].recipient
<1>1. Done(c, k) = Done(c, k - 1) \cup {id}
  BY DoneTurns
<1>2. 1 .. k - 1 \subseteq 1 .. k /\ k \in 1 .. k
  OBVIOUS
<1>3. CASE ~ out.ok
  <2>1. next = out
    BY <1>3 DEF MarkTurn
  <2> QED
    BY <1>2, <1>3, <2>1 DEF Marked
<1>4. CASE out.ok /\ id \notin DOMAIN d.chats
  <2>1. next.db = d /\ ~ next.ok
    BY <1>4 DEF MarkTurn, MarkRead, Outcome
  <2>2. id \notin DOMAIN c.db.chats
    BY <1>4 DEF Marked
  <2> QED
    BY <1>2, <2>1, <2>2 DEF Marked
<1>5. CASE out.ok /\ id \in DOMAIN d.chats
  <2>1. next = MarkRead(d, id)
    BY <1>5 DEF MarkTurn
  <2>2. TypedDb(d) /\ Tables(d) /\ d.chats[id] \in Chat
    BY <1>5 DEF Marked, TypedDb
  <2>3. TypedDb(next.db)
    BY <2>1, <2>2, MarkTyped
  <2>4. /\ next.ok <=> user \in DOMAIN d.unread
        /\ next.db.accounts = d.accounts
        /\ next.db.usernames = d.usernames
        /\ DOMAIN next.db.chats = DOMAIN d.chats
        /\ \A i \in DOMAIN d.chats :
             next.db.chats[i] = IF i = id THEN [d.chats[i] EXCEPT !.read = TRUE]
                                          ELSE d.chats[i]
        /\ DOMAIN next.db.unread = DOMAIN d.unread
        /\ \A u \in DOMAIN d.unread :
             next.db.unread[u] = IF u = user THEN RemoveFirst(d.unread[u], id)
                                             ELSE d.unread[u]
    BY <1>5, <2>1, <2>2, MarkReadIs
  <2>5. /\ d.accounts = c.db.accounts /\ d.usernames = c.db.usernames
        /\ DOMAIN d.unread = DOMAIN c.db.unread /\ DOMAIN d.chats = DOMAIN c.db.chats
        /\ \A i \in DOMAIN c.db.chats :
             d.chats[i] = IF i \in Done(c, k - 1)
                            THEN [c.db.chats[i] EXCEPT !.read = TRUE]
                            ELSE c.db.chats[i]
        /\ Indexed(c.db) => Indexed(d)
    BY <1>5 DEF Marked
  <2> HIDE DEF next
  <2>6. ASSUME NEW i \in DOMAIN c.db.chats
        PROVE  next.db.chats[i] = IF i \in Done(c, k)
                                    THEN [c.db.chats[i] EXCEPT !.read = TRUE]
                                    ELSE c.db.chats[i]
    <3>1. c.db.chats[i] \in Chat
      OBVIOUS
    <3>2. CASE i = id
      <4>1. i \in Done(c, k) /\ next.db.chats[i] = [d.chats[i] EXCEPT !.read = TRUE]
        BY <1>1, <2>4, <2>5, <3>2
      <4>2. CASE i \in Done(c, k - 1)
        BY <2>5, <3>1, <4>1, <4>2, ReadIsChat
      <4>3. CASE i \notin Done(c, k - 1)
        BY <2>5, <4>1, <4>3
      <4> QED
        BY <4>2, <4>3
    <3>3. CASE i # id
      <4>1. next.db.chats[i] = d.chats[i]
        BY <2>4, <2>5, <3>3
      <4>2. i \in Done(c, k) <=> i \in Done(c, k - 1)
        BY <1>1, <3>3
      <4> QED
        BY <2>5, <4>1, <4>2
    <3> QED
      BY <3>2, <3>3
  <2>7. c.db.chats[id].recipient = user
    <3>1. id \in DOMAIN c.db.chats /\ c.db.chats[id] \in Chat
      BY <1>5, <2>5
    <3>2. [c.db.chats[id] EXCEPT !.read = TRUE].recipient = c.db.chats[id].recipient
      BY <3>1, ReadIsChat
    <3> QED
      BY <2>5, <3>1, <3>2
  <2>8. ASSUME next.ok, Indexed(c.db) PROVE Indexed(next.db)
    <3>1. user \in DOMAIN d.unread /\ Indexed(d)
      BY <2>4, <2>5, <2>8
    <3>2. next.db.chats[id].read
      BY <1>5, <2>2, <2>4, ReadIsChat
    <3>3. /\ DOMAIN next.db.chats \subseteq DOMAIN d.chats
          /\ DOMAIN d.chats \ {id} \subseteq DOMAIN next.db.chats
          /\ \A i \in DOMAIN d.chats \ {id} : next.db.chats[i] = d.chats[i]
      BY <2>4
    <3>4. id \in DOMAIN d.chats
      BY <1>5
    <3> HIDE DEF d, id
    <3> QED
      BY <2>2, <2>3, <2>4, <3>1, <3>2, <3>3, <3>4, IndexKept
  <2>9. ASSUME \A j \in 1 .. k : c.db.chats[c.ids[j]].recipient \in DOMAIN c.db.unread
        PROVE  next.ok
    BY <1>2, <2>4, <2>5, <2>7, <2>9
  <2>10. Marked(c, k, next)
    BY <2>3, <2>4, <2>5, <2>6, <2>8, <2>9 DEF Marked
  <2> QED
    BY <2>10 DEF next
<1> QED
  BY <1>3, <1>4, <1>5

LEMMA DeleteTurnKeeps ==
  ASSUME NEW c, NEW k \in Nat \ {0}, NEW out, Deleted(c, k - 1, out),
         \A id \in DOMAIN c.db.chats : c.db.chats[id] \in Chat
  PROVE  Deleted(c, k, DeleteTurn(out, c.ids[k]))
<1> DEFINE id == c.ids[k]
           d == out.db
           next == DeleteTurn(out, id)
           user == d.chats[id].recipient
<1>1. Done(c, k) = Done(c, k - 1) \cup {id}
  BY DoneTurns
<1>2. 1 .. k = (1 .. k - 1) \cup {k}
  OBVIOUS
<1>3. CASE ~ out.ok
  <2>1. next = out
    BY <1>3 DEF DeleteTurn
  <2> QED
    BY <1>2, <1>3, <2>1 DEF Deleted
<1>4. CASE out.ok /\ id \notin DOMAIN d.chats
  <2>1. next.db = d /\ next.ok
    BY <1>4 DEF DeleteTurn, DeleteMessage, Outcome
  <2>2. DOMAIN d.chats = DOMAIN c.db.chats \ Done(c, k)
    BY <1>1, <1>4 DEF Deleted
  <2>3. \A j \in 1 .. k - 1 : Deletable(c.db, c.ids[j])
    BY <1>4 DEF Deleted
  <2>4. Deletable(c.db, id)
    <3>1. id \notin DOMAIN c.db.chats \/ id \in Done(c, k - 1)
      BY <1>4 DEF Deleted
    <3> QED
      BY <2>3, <3>1 DEF Done, Deletable
  <2> HIDE DEF next
  <2>5. Deleted(c, k, next)
    BY <1>2, <1>4, <2>1, <2>2, <2>3, <2>4 DEF Deleted
  <2> QED
    BY <2>5 DEF next
<1>5. CASE out.ok /\ id \in DOMAIN d.chats
  <2>1. next = DeleteMessage(d, id)
    BY <1>5 DEF DeleteTurn
  <2>2. TypedDb(d) /\ Tables(d) /\ d.chats[id] \in Chat /\ d.chats[id].read \in BOOLEAN
    BY <1>5 DEF Deleted, TypedDb, Chat
  <2>3. /\ Tables(next.db)
        /\ next.ok <=> (d.chats[id].read \/ user \in DOMAIN d.unread)
        /\ next.db.accounts = d.accounts
        /\ next.db.usernames = d.usernames
        /\ next.db.chats = IF next.ok THEN Without(d.chats, id) ELSE d.chats
        /\ DOMAIN next.db.unread = DOMAIN d.unread
        /\ \A u \in DOMAIN d.unread :
             next.db.unread[u] = IF u = user /\ ~ d.chats[id].read
                                   THEN RemoveFirst(d.unread[u], id)
                                   ELSE d.unread[u]
    BY <1>5, <2>1, <2>2, DeleteMessageIs
  <2>4. /\ d.accounts = c.db.accounts /\ d.usernames = c.db.usernames
        /\ DOMAIN d.unread = DOMAIN c.db.unread
        /\ DOMAIN d.chats = DOMAIN c.db.chats \ Done(c, k - 1)
        /\ DOMAIN d.chats \subseteq DOMAIN c.db.chats
        /\ \A i \in DOMAIN d.chats : d.chats[i] = c.db.chats[i]
        /\ Indexed(c.db) => Indexed(d)
    BY <1>5 DEF Deleted
  <2> HIDE DEF next
  <2>5. /\ DOMAIN next.db.chats = IF next.ok THEN DOMAIN d.chats \ {id}
                                             ELSE DOMAIN d.chats
        /\ \A i \in DOMAIN next.db.chats : next.db.chats[i] = d.chats[i]
    BY <2>3 DEF Without, Restrict
  <2>6. TypedDb(next.db)
    <3>1. \A u \in DOMAIN d.unread : RemoveFirst(d.unread[u], id) \in Seq(Id)
      BY <2>2, RemoveFirstIs DEF TypedDb
    <3>2. \A u \in DOMAIN d.unread : next.db.unread[u] \in Seq(Id)
      BY <2>2, <2>3, <3>1 DEF TypedDb
    <3> QED
      BY <2>2, <2>3, <2>5, <3>2 DEF TypedDb
  <2>7. ASSUME Indexed(c.db) PROVE Indexed(next.db)
    <3>1. Indexed(d)
      BY <2>4, <2>7
    <3>2. CASE d.chats[id].read
      <4>1. \A u \in DOMAIN d.unread : next.db.unread[u] = d.unread[u]
        BY <2>3, <3>2
      <4>2. \A u : Unread(next.db, u) = Unread(d, u)
        BY <2>3, <4>1 DEF Unread
      <4>3. \A u : { i \in DOMAIN next.db.chats : /\ next.db.chats[i].recipient = u
                                                  /\ ~ next.db.chats[i].read }
                     = { i \in DOMAIN d.chats :
                           d.chats[i].recipient = u /\ ~ d.chats[i].read }
        BY <2>5, <3>2
      <4> QED
        BY <2>3, <3>1, <4>2, <4>3 DEF Indexed
    <3>3. CASE ~ d.chats[id].read /\ user \notin DOMAIN d.unread
      <4>1. \A u \in DOMAIN d.unread : next.db.unread[u] = d.unread[u]
        BY <2>3, <3>3
      <4>2. \A u : Unread(next.db, u) = Unread(d, u)
        BY <2>3, <4>1 DEF Unread
      <4>3. next.db.chats = d.chats
        BY <2>3, <3>3
      <4> QED
        BY <2>3, <3>1, <4>2, <4>3 DEF Indexed
    <3>4. CASE ~ d.chats[id].read /\ user \in DOMAIN d.unread
      <4>1. /\ DOMAIN next.db.chats = DOMAIN d.chats \ {id}
            /\ \A i \in DOMAIN d.chats \ {id} : next.db.chats[i] = d.chats[i]
        BY <2>3, <2>5, <3>4
      <4>2. \A u \in DOMAIN d.unread :
              next.db.unread[u] = IF u = user THEN RemoveFirst(d.unread[u], id)
                                              ELSE d.unread[u]
        BY <2>3, <3>4
      <4>3. id \in DOMAIN d.chats
        BY <1>5
      <4> HIDE DEF d, id
      <4> QED
        BY <2>2, <2>3, <2>6, <3>1, <3>4, <4>1, <4>2, <4>3, IndexKept
    <3> QED
      BY <2>2, <3>2, <3>3, <3>4
  <2>8. next.ok <=> \A j \in 1 .. k : Deletable(c.db, c.ids[j])
    <3>1. id \in DOMAIN c.db.chats /\ d.chats[id] = c.db.chats[id]
      BY <1>5, <2>4
    <3>2. next.ok <=> Deletable(c.db, id)
      BY <2>3, <2>4, <3>1 DEF Deletable
    <3>3. \A j \in 1 .. k - 1 : Deletable(c.db, c.ids[j])
      BY <1>5 DEF Deleted
    <3> QED
      BY <1>2, <3>2, <3>3
  <2>9. next.ok => DOMAIN next.db.chats = DOMAIN c.db.chats \ Done(c, k)
    BY <1>1, <2>4, <2>5
  <2>10. /\ DOMAIN next.db.chats \subseteq DOMAIN c.db.chats
         /\ \A i \in DOMAIN next.db.chats : next.db.chats[i] = c.db.chats[i]
    BY <2>4, <2>5
  <2>11. Deleted(c, k, next)
    BY <2>3, <2>4, <2>6, <2>7, <2>8, <2>9, <2>10 DEF Deleted
  <2> QED
    BY <2>11 DEF next
<1> QED
  BY <1>3, <1>4, <1>5

LEMMA MarkLoop ==
  ASSUME NEW d, TypedDb(d), NEW S, NEW ids \in Seq(S)
  PROVE  Marked([db |-> d, ids |-> ids], Len(ids), MarkMessagesRead(d, ids))
<1> DEFINE c == [db |-> d, ids |-> ids]
<1>1. c.db = d /\ c.ids = ids
  OBVIOUS
<1> HIDE DEF c
<1>2. MarkMessagesRead(d, ids) = Marking!Fold(c, Outcome(d, TRUE), ids)
  BY DEF MarkMessagesRead, ForEach, MarkTurn, FoldLeft, MapThenFoldSet, Max,
         Marking!Fold, Marking!FoldLeft, Marking!MapThenFoldSet, Marking!Max
<1>3. Marked(c, 0, Outcome(d, TRUE))
  <2>1. Outcome(d, TRUE).db = d /\ Outcome(d, TRUE).ok
    BY DEF Outcome
  <2>2. Done(c, 0) = {}
    BY DEF Done
  <2> QED
    BY <1>1, <2>1, <2>2 DEF Marked
<1>4. \A k \in 1 .. Len(ids) : \A out :
        Marked(c, k - 1, out) => Marked(c, k, MarkTurn(out, ids[k]))
  <2> TAKE k \in 1 .. Len(ids)
  <2> TAKE out
  <2>1. k \in Nat \ {0}
    OBVIOUS
  <2>2. \A id \in DOMAIN c.db.chats : c.db.chats[id] \in Chat
    BY <1>1 DEF TypedDb
  <2> QED
    BY <1>1, <2>1, <2>2, MarkTurnKeeps
<1>5. Marked(c, Len(ids), Marking!Fold(c, Outcome(d, TRUE), ids))
  BY <1>3, <1>4, Marking!FoldKeeps
<1> QED
  BY <1>2, <1>5 DEF c

LEMMA DeleteLoop ==
  ASSUME NEW d, TypedDb(d), NEW S, NEW ids \in Seq(S)
  PROVE  Deleted([db |-> d, ids |-> ids], Len(ids), ForEach(DeleteMessage, d, ids))
<1> DEFINE c == [db |-> d, ids |-> ids]
<1>1. c.db = d /\ c.ids = ids
  OBVIOUS
<1> HIDE DEF c
<1>2. ForEach(DeleteMessage, d, ids) = Deleting!Fold(c, Outcome(d, TRUE), ids)
  BY DEF ForEach, DeleteTurn, FoldLeft, MapThenFoldSet, Max,
         Deleting!Fold, Deleting!FoldLeft, Deleting!MapThenFoldSet, Deleting!Max
<1>3. Deleted(c, 0, Outcome(d, TRUE))
  <2>1. PICK out : out = Outcome(d, TRUE)
    OBVIOUS
  <2>2. out.db = d /\ out.ok
    BY <2>1 DEF Outcome
  <2>3. Done(c, 0) = {} /\ \A j \in 1 .. 0 : Deletable(d, c.ids[j])
    BY DEF Done
  <2>4. Deleted(c, 0, out)
    BY <1>1, <2>2, <2>3 DEF Deleted
  <2> QED
    BY <2>1, <2>4
<1>4. \A k \in 1 .. Len(ids) : \A out :
        Deleted(c, k - 1, out) => Deleted(c, k, DeleteTurn(out, ids[k]))
  <2> TAKE k \in 1 .. Len(ids)
  <2> TAKE out
  <2>1. k \in Nat \ {0}
    OBVIOUS
  <2>2. \A id \in DOMAIN c.db.chats : c.db.chats[id] \in Chat
    BY <1>1 DEF TypedDb
  <2> QED
    BY <1>1, <2>1, <2>2, DeleteTurnKeeps
<1>5. Deleted(c, Len(ids), Deleting!Fold(c, Outcome(d, TRUE), ids))
  BY <1>3, <1>4, Deleting!FoldKeeps
<1> QED
  BY <1>2, <1>5 DEF c

-----------------------------------------------------------------------------
\* The replay of a log message

LEMMA MessageFields ==
  ASSUME NEW m \in LogMessage
  PROVE  /\ m.orig = Self
         /\ m.kind \in { "NEW_ACCOUNT", "NEW_CHAT_MESSAGE", "MARK_AS_READ",
                         "DELETE_MESSAGES", "DELETE_ACCOUNT" }
         /\ m.kind = "NEW_ACCOUNT" => m.id \in Id /\ m.username \in Username
         /\ m.kind = "NEW_CHAT_MESSAGE" => m.id \in Id /\ m.chat \in Chat
         /\ m.kind \in { "MARK_AS_READ", "DELETE_MESSAGES" } => m.ids \in Seq(Id)
         /\ m.kind = "DELETE_ACCOUNT" => m.id \in Id
BY DEF LogMessage

\* What an operation does, by its kind.
LEMMA EffectIs ==
  ASSUME NEW d, NEW m, NEW out, out = Effect(d, m)
  PROVE  /\ m.kind = "NEW_ACCOUNT" =>
              out.db = CreateAccount(d, m.id, m.username) /\ out.ok
         /\ m.kind = "NEW_CHAT_MESSAGE" =>
              out.db = CreateMessage(d, m.id, m.chat) /\ out.ok
         /\ m.kind = "MARK_AS_READ" => out = MarkMessagesRead(d, m.ids)
         /\ m.kind = "DELETE_MESSAGES" => out = ForEach(DeleteMessage, d, m.ids)
         /\ m.kind = "DELETE_ACCOUNT" => out.db = DeleteAccount(d, m.id) /\ out.ok
<1>1. CASE m.kind = "NEW_ACCOUNT"
  <2>1. out = Outcome(CreateAccount(d, m.id, m.username), TRUE)
    BY <1>1 DEF Effect
  <2> QED
    BY <1>1, <2>1 DEF Outcome
<1>2. CASE m.kind = "NEW_CHAT_MESSAGE"
  <2>1. out = Outcome(CreateMessage(d, m.id, m.chat), TRUE)
    BY <1>2 DEF Effect
  <2> QED
    BY <1>2, <2>1 DEF Outcome
<1>3. CASE m.kind = "DELETE_ACCOUNT"
  <2>1. out = Outcome(DeleteAccount(d, m.id), TRUE)
    BY <1>3 DEF Effect
  <2> QED
    BY <1>3, <2>1 DEF Outcome
<1>4. CASE m.kind = "MARK_AS_READ"
  BY <1>4 DEF Effect
<1>5. CASE m.kind = "DELETE_MESSAGES"
  BY <1>5 DEF Effect
<1> QED
  BY <1>1, <1>2, <1>3, <1>4, <1>5

State(s) ==
  s = [db |-> s.db, nextAccount |-> s.nextAccount, nextMessage |-> s.nextMessage,
       messages |-> s.messages, thrown |-> s.thrown]

TypedState(s) ==
  /\ State(s)
  /\ TypedDb(s.db)
  /\ s.nextAccount \in Nat \ {0}
  /\ s.nextMessage \in Nat \ {0}
  /\ s.messages \in Seq(LogMessage)

LEMMA ReplayIs ==
  ASSUME NEW s, NEW m, NEW r, r = Replay(Self, s, m), NEW out, out = Effect(s.db, m)
  PROVE  /\ State(r)
         /\ r.db = out.db
         /\ r.nextAccount = IF m.kind = "NEW_ACCOUNT"
                              THEN NextAfter(Self, s.nextAccount, m) ELSE s.nextAccount
         /\ r.nextMessage = IF m.kind = "NEW_CHAT_MESSAGE"
                              THEN NextAfter(Self, s.nextMessage, m) ELSE s.nextMessage
         /\ r.messages = IF out.ok THEN Append(s.messages, m) ELSE s.messages
         /\ r.thrown <=> ~ out.ok
<1> HIDE DEF Effect, NextAfter
<1> QED
  BY DEF Replay, State

LEMMA EffectTyped ==
  ASSUME NEW d, TypedDb(d), NEW m \in LogMessage, NEW out, out = Effect(d, m)
  PROVE  TypedDb(out.db)
<1>1. Tables(d)
  BY DEF TypedDb
<1>2. CASE m.kind = "NEW_ACCOUNT"
  <2>1. m.id \in Id
    BY <1>2, MessageFields
  <2>2. out.db = CreateAccount(d, m.id, m.username)
    BY <1>2, EffectIs
  <2>3. /\ Tables(out.db) /\ out.db.chats = d.chats /\ out.db.unread = d.unread
        /\ out.db.usernames = Put(d.usernames, m.username, m.id)
    BY <1>1, <2>2, CreateAccountIs
  <2> QED
    BY <2>1, <2>3 DEF TypedDb, Put
<1>3. CASE m.kind = "NEW_CHAT_MESSAGE"
  <2> DEFINE user == m.chat.recipient
  <2>1. m.id \in Id /\ m.chat \in Chat
    BY <1>3, MessageFields
  <2>2. out.db = CreateMessage(d, m.id, m.chat)
    BY <1>3, EffectIs
  <2>3. /\ Tables(out.db)
        /\ out.db.usernames = d.usernames
        /\ out.db.chats = Put(d.chats, m.id, m.chat)
        /\ out.db.unread = IF m.chat.read THEN d.unread
                           ELSE Put(d.unread, user, Append(Unread(d, user), m.id))
    BY <1>1, <2>1, <2>2, CreateMessageIs
  <2>4. Append(Unread(d, user), m.id) \in Seq(Id)
    <3>1. Unread(d, user) \in Seq(Id)
      BY DEF TypedDb, Unread
    <3> QED
      BY <2>1, <3>1
  <2>5. m.chat.read \in BOOLEAN
    BY <2>1 DEF Chat
  <2>6. \A u \in DOMAIN out.db.unread : out.db.unread[u] \in Seq(Id)
    <3>1. CASE m.chat.read
      BY <2>3, <3>1 DEF TypedDb
    <3>2. CASE ~ m.chat.read
      BY <2>3, <2>4, <3>2 DEF TypedDb, Put
    <3> QED
      BY <2>5, <3>1, <3>2
  <2>7. /\ DOMAIN out.db.chats \subseteq Id
        /\ \A id \in DOMAIN out.db.chats : out.db.chats[id] \in Chat
    BY <2>1, <2>3 DEF TypedDb, Put
  <2> QED
    BY <2>3, <2>6, <2>7 DEF TypedDb
<1>4. CASE m.kind = "MARK_AS_READ"
  <2>1. m.ids \in Seq(Id)
    BY <1>4, MessageFields
  <2>2. out = MarkMessagesRead(d, m.ids)
    BY <1>4, EffectIs
  <2>3. Marked([db |-> d, ids |-> m.ids], Len(m.ids), out)
    BY <2>1, <2>2, MarkLoop
  <2> QED
    BY <2>3 DEF Marked
<1>5. CASE m.kind = "DELETE_MESSAGES"
  <2>1. m.ids \in Seq(Id)
    BY <1>5, MessageFields
  <2>2. out = ForEach(DeleteMessage, d, m.ids)
    BY <1>5, EffectIs
  <2>3. Deleted([db |-> d, ids |-> m.ids], Len(m.ids), out)
    BY <2>1, <2>2, DeleteLoop
  <2> QED
    BY <2>3 DEF Deleted
<1>6. CASE m.kind = "DELETE_ACCOUNT"
  <2>1. out.db = DeleteAccount(d, m.id)
    BY <1>6, EffectIs
  <2>2. /\ Tables(out.db)
        /\ out.db.usernames = d.usernames
        /\ out.db.chats = d.chats
        /\ out.db.unread = Without(d.unread, m.id)
    BY <1>1, <2>1, DeleteAccountIs
  <2> QED
    BY <2>2 DEF TypedDb, Without, Restrict
<1> QED
  BY <1>2, <1>3, <1>4, <1>5, <1>6, MessageFields

LEMMA ReplayTyped ==
  ASSUME NEW s, TypedState(s), NEW m \in LogMessage
  PROVE  TypedState(Replay(Self, s, m))
<1> DEFINE r == Replay(Self, s, m)
           out == Effect(s.db, m)
<1>1. /\ State(r)
      /\ r.db = out.db
      /\ r.nextAccount = IF m.kind = "NEW_ACCOUNT"
                           THEN NextAfter(Self, s.nextAccount, m) ELSE s.nextAccount
      /\ r.nextMessage = IF m.kind = "NEW_CHAT_MESSAGE"
                           THEN NextAfter(Self, s.nextMessage, m) ELSE s.nextMessage
      /\ r.messages = IF out.ok THEN Append(s.messages, m) ELSE s.messages
  BY ReplayIs
<1>2. TypedDb(out.db)
  BY EffectTyped DEF TypedState
<1>3. \A n \in Nat \ {0} :
        m.kind \in { "NEW_ACCOUNT", "NEW_CHAT_MESSAGE" }
          => NextAfter(Self, n, m) \in Nat \ {0}
  <2>1. m.kind \in { "NEW_ACCOUNT", "NEW_CHAT_MESSAGE" } => m.id \in Id
    BY MessageFields
  <2> QED
    BY <2>1 DEF NextAfter, Id
<1>4. Append(s.messages, m) \in Seq(LogMessage)
  BY DEF TypedState
<1> HIDE DEF r, out
<1>5. TypedState(r)
  BY <1>1, <1>2, <1>3, <1>4 DEF TypedState
<1> QED
  BY <1>5 DEF r

-----------------------------------------------------------------------------
\* The replay of a file

ReplayTurn(s, m) == IF s.thrown THEN s ELSE Replay(Self, s, m)

TypedTurn(c, k, s) == TypedState(s)

Replaying == INSTANCE FoldProofs WITH Step <- LAMBDA c, s, x : ReplayTurn(s, x), Holds <- TypedTurn

LEMMA RebuiltIs ==
  ASSUME NEW file
  PROVE  Rebuilt(Self, file) = Replaying!Fold(0, Fresh, file)
BY DEF Rebuilt, ReplayTurn, FoldLeft, MapThenFoldSet, Max,
       Replaying!Fold, Replaying!FoldLeft, Replaying!MapThenFoldSet, Replaying!Max

\* The replay of a longer file.
LEMMA RebuiltAppend ==
  ASSUME NEW file \in Seq(LogMessage), NEW m \in LogMessage
  PROVE  Rebuilt(Self, Append(file, m)) = ReplayTurn(Rebuilt(Self, file), m)
BY RebuiltIs, Replaying!FoldAppend

LEMMA FreshTyped == TypedState(Fresh) /\ ~ Fresh.thrown
<1>1. TypedDb(EmptyDatabase)
  <2>1. DOMAIN << >> = {}
    OBVIOUS
  <2> QED
    BY <2>1 DEF EmptyDatabase, TypedDb, Tables
<1>2. << >> \in Seq(LogMessage)
  OBVIOUS
<1> QED
  BY <1>1, <1>2 DEF Fresh, TypedState, State

LEMMA RebuiltTyped ==
  ASSUME NEW file \in Seq(LogMessage)
  PROVE  TypedState(Rebuilt(Self, file))
<1>1. TypedTurn(0, 0, Fresh)
  BY FreshTyped DEF TypedTurn
<1>2. \A k \in 1 .. Len(file) : \A s :
        TypedTurn(0, k - 1, s) => TypedTurn(0, k, ReplayTurn(s, file[k]))
  BY ElementOfSeq, ReplayTyped DEF TypedTurn, ReplayTurn
<1>3. TypedTurn(0, Len(file), Replaying!Fold(0, Fresh, file))
  BY <1>1, <1>2, Replaying!FoldKeeps
<1> QED
  BY <1>3, RebuiltIs DEF TypedTurn

-----------------------------------------------------------------------------
\* Types

Places == { "idle", "numbering", "dispatch", "saving", "answering" }

\* What a thread handles is of the type that its place asks for.
Handles(t) ==
  /\ t.pc = "idle" <=> t.message = None
  /\ t.pc = "numbering" => t.message \in Draft
  /\ t.pc \in { "dispatch", "saving", "answering" } => t.message \in LogMessage

Typed ==
  /\ up \in BOOLEAN
  /\ TypedState(memory)
  /\ disk \in Seq(LogMessage)
  /\ thread \in [Worker -> [pc : Places, message : {None} \cup Draft \cup LogMessage,
                            batch : SUBSET Nat]]
  /\ \A w \in Worker : Handles(thread[w])
  /\ sessions \subseteq Id
  /\ deliveries \in [1 .. MaxCalls -> Nat]
  /\ calls \in 0 .. MaxCalls
  /\ crashes \in 0 .. MaxCrashes
  /\ failed \in 0 .. MaxFailed

\* One thread at a time is inside dispatchMessage, and it replayed its message last;
\* a server that is down handles nothing.
Exclusive ==
  /\ up \/ \A w \in Worker : thread[w] = Idle
  /\ \A v, w \in Worker :
       thread[v].pc = "saving" /\ thread[w].pc = "saving" => v = w
  /\ \A w \in Worker :
       thread[w].pc = "saving" =>
         memory.messages # << >> /\ thread[w].message = Last(memory.messages)

LEMMA IdleIs ==
  /\ Idle \in [pc : Places, message : {None} \cup Draft \cup LogMessage,
               batch : SUBSET Nat]
  /\ Idle.pc = "idle"
  /\ Handles(Idle)
BY DEF Idle, Places, Handles

LEMMA AtIs ==
  ASSUME NEW pc \in Places, NEW m \in Draft \cup LogMessage, NEW batch \in SUBSET Nat
  PROVE  /\ At(pc, m, batch) \in
              [pc : Places, message : {None} \cup Draft \cup LogMessage,
               batch : SUBSET Nat]
         /\ At(pc, m, batch).pc = pc
         /\ At(pc, m, batch).message = m
         /\ At(pc, m, batch).batch = batch
BY DEF At

\* A thread that takes a call gets a place and a message that fit.
LEMMA CallTyped ==
  ASSUME Typed, Exclusive, NEW w \in Worker, NEW op, NEW next, TakesCall(w, op, next),
         next \in [pc : Places, message : {None} \cup Draft \cup LogMessage,
                   batch : SUBSET Nat],
         Handles(next), next.pc # "saving"
  PROVE  Typed' /\ Exclusive'
<1>1. thread' = [thread EXCEPT ![w] = next]
  BY DEF TakesCall
<1>2. /\ thread' \in [Worker -> [pc : Places,
                                 message : {None} \cup Draft \cup LogMessage,
                                 batch : SUBSET Nat]]
      /\ thread'[w] = next
      /\ \A v \in Worker : v # w => thread'[v] = thread[v]
  BY <1>1 DEF Typed
<1>3. calls' \in 0 .. MaxCalls
  BY ServerAssumption DEF TakesCall, Typed, ServerAssumption
<1>4. \A v \in Worker : Handles(thread'[v])
  BY <1>2 DEF Typed
<1>5. Typed'
  BY <1>2, <1>3, <1>4 DEF TakesCall, Typed, faults
<1>6. Exclusive'
  BY <1>2 DEF TakesCall, Exclusive
<1> QED
  BY <1>5, <1>6

LEMMA InitTyped == Init => Typed /\ Exclusive
<1> SUFFICES ASSUME Init PROVE Typed /\ Exclusive
  OBVIOUS
<1>1. Members \in Seq(Username) /\ MaxCalls \in Nat /\ MaxCrashes \in Nat /\ MaxFailed \in Nat
  BY ServerAssumption DEF ServerAssumption
<1>2. DOMAIN Members = 1 .. Len(Members) /\ Len(Members) \in Nat
  BY <1>1, LenProperties
<1>3. \A i \in 1 .. Len(Members) : Members[i] \in Username
  BY <1>1, ElementOfSeq
<1>4. \A i \in 1 .. Len(Members) : << Self, i >> \in Id
  BY <1>2 DEF Id
<1>5. \A i \in 1 .. Len(Members) :
        NewAccount(<< Self, i >>, Members[i]) \in LogMessage
  BY <1>3, <1>4 DEF NewAccount, LogMessage
<1>6. disk \in [1 .. Len(Members) -> LogMessage]
  BY <1>2, <1>5 DEF Init
<1>7. disk \in Seq(LogMessage)
  BY <1>2, <1>6, SeqDef
<1>8. sessions \subseteq Id
  BY <1>2, <1>4 DEF Init
<1>9. TypedState(memory)
  BY FreshTyped DEF Init
<1>10. thread = [w \in Worker |-> Idle]
  BY DEF Init
<1>11. Typed
  <2>1. /\ thread \in [Worker -> [pc : Places,
                                  message : {None} \cup Draft \cup LogMessage,
                                  batch : SUBSET Nat]]
        /\ \A w \in Worker : Handles(thread[w])
    BY <1>10, IdleIs
  <2>2. /\ up = FALSE /\ deliveries = [t \in 1 .. MaxCalls |-> 0]
        /\ calls = 0 /\ crashes = 0 /\ failed = 0
    BY DEF Init
  <2>3. up \in BOOLEAN
    BY <2>2
  <2>4. deliveries \in [1 .. MaxCalls -> Nat]
    BY <2>2
  <2>5. /\ calls \in 0 .. MaxCalls
        /\ crashes \in 0 .. MaxCrashes
        /\ failed \in 0 .. MaxFailed
    BY <1>1, <2>2
  <2> QED
    BY <1>7, <1>8, <1>9, <2>1, <2>3, <2>4, <2>5 DEF Typed
<1>12. Exclusive
  BY <1>10, IdleIs DEF Exclusive, Init
<1> QED
  BY <1>11, <1>12

LEMMA FirstUnreadIs ==
  ASSUME NEW d, TypedDb(d), NEW user
  PROVE  /\ FirstUnread(d, user, PageSize) \in Seq(Id)
         /\ Unread(d, user) \in Seq(Id)
         /\ Len(FirstUnread(d, user, PageSize)) <= Len(Unread(d, user))
         /\ \A j \in 1 .. Len(FirstUnread(d, user, PageSize)) :
              FirstUnread(d, user, PageSize)[j] = Unread(d, user)[j]
<1> DEFINE ids == Unread(d, user)
           n == IF PageSize < Len(ids) THEN PageSize ELSE Len(ids)
<1>1. ids \in Seq(Id)
  BY DEF TypedDb, Unread
<1> HIDE DEF ids
<1>2. Len(ids) \in Nat
  BY <1>1, LenProperties
<1>3. PageSize \in Nat
  BY ServerAssumption DEF ServerAssumption
<1>4. n \in Nat /\ n <= Len(ids)
  BY <1>2, <1>3
<1> HIDE DEF n
<1>5. \A i \in 1 .. n : ids[i] \in Id
  <2>1. \A i \in 1 .. n : i \in 1 .. Len(ids)
    BY <1>2, <1>4
  <2> QED
    BY <1>1, <2>1, ElementOfSeq
<1>6. /\ SubSeq(ids, 1, n) \in Seq(Id)
      /\ Len(SubSeq(ids, 1, n)) = n
      /\ \A i \in 1 .. n : SubSeq(ids, 1, n)[i] = ids[i]
  BY <1>4, <1>5
<1>7. FirstUnread(d, user, PageSize) = SubSeq(ids, 1, n)
  BY DEF FirstUnread, ids, n
<1> QED
  BY <1>1, <1>4, <1>6, <1>7 DEF ids

LEMMA ShortSeq ==
  ASSUME NEW S, NEW s \in SeqOf(S, 2)
  PROVE  s \in Seq(S)
<1>1. PICK m \in 0 .. 2 : s \in [1 .. m -> S]
  BY DEF SeqOf
<1> QED
  BY <1>1, SeqDef

ThreadType == [pc : Places, message : {None} \cup Draft \cup LogMessage,
               batch : SUBSET Nat]

\* The calls.
LEMMA CallsTyped ==
  ASSUME Typed, Exclusive, NEW w \in Worker,
         \/ CreateAccountCall(w)
         \/ SendMessageCall(w)
         \/ RequestMessagesCall(w)
         \/ DeleteMessagesCall(w)
         \/ DeleteAccountCall(w)
  PROVE  Typed' /\ Exclusive'
<1>1. TypedDb(db)
  BY DEF Typed, TypedState, db
<1>2. ASSUME NEW pc \in { "numbering", "dispatch" }, NEW m, NEW batch \in SUBSET Nat,
             pc = "numbering" => m \in Draft, pc = "dispatch" => m \in LogMessage,
             NEW op, TakesCall(w, op, At(pc, m, batch))
      PROVE  Typed' /\ Exclusive'
  <2>1. m \in Draft \cup LogMessage /\ pc \in Places
    BY <1>2 DEF Places
  <2>2. /\ At(pc, m, batch) \in ThreadType
        /\ At(pc, m, batch).pc = pc
        /\ At(pc, m, batch).message = m
    BY <2>1, AtIs DEF ThreadType
  <2>3. m # None
    BY <2>1, NoneAssumption
  <2>4. Handles(At(pc, m, batch)) /\ At(pc, m, batch).pc # "saving"
    BY <1>2, <2>2, <2>3 DEF Handles
  <2> QED
    BY <1>2, <2>2, <2>4, CallTyped DEF ThreadType
<1>3. CASE CreateAccountCall(w)
  <2>1. PICK u \in Username : TakesCall(w, "createAccount",
                                        At("numbering", NewAccount(None, u), {}))
    BY <1>3 DEF CreateAccountCall
  <2>2. NewAccount(None, u) \in Draft
    BY DEF NewAccount, Draft
  <2> QED
    BY <1>2, <2>1, <2>2
<1>4. CASE SendMessageCall(w)
  <2>1. PICK sender \in sessions, u \in Username :
          /\ HasAccount(db, u)
          /\ TakesCall(w, "sendMessage",
               At("numbering",
                  NewChatMessage(None, [ sender |-> sender,
                                         recipient |-> db.usernames[u],
                                         read |-> FALSE, number |-> calls + 1 ]), {}))
    BY <1>4 DEF SendMessageCall
  <2> DEFINE chat == [ sender |-> sender, recipient |-> db.usernames[u],
                       read |-> FALSE, number |-> calls + 1 ]
  <2>2. db.usernames[u] \in Id
    BY <1>1, <2>1 DEF HasAccount, AccountExists, TypedDb
  <2>3. sender \in Id /\ calls + 1 \in Nat
    BY ServerAssumption DEF Typed, ServerAssumption
  <2>4. chat \in Chat
    BY <2>2, <2>3 DEF Chat
  <2> HIDE DEF chat
  <2>5. NewChatMessage(None, chat) \in Draft
    BY <2>4 DEF NewChatMessage, Draft
  <2> QED
    BY <1>2, <2>1, <2>5 DEF chat
<1>5. CASE RequestMessagesCall(w)
  <2>1. PICK user \in sessions :
          LET ids == FirstUnread(db, user, PageSize) IN
          /\ \A id \in Range(ids) : id \in DOMAIN db.chats
          /\ TakesCall(w, "requestMessages",
               At("dispatch", MarkAsRead(ids),
                  { db.chats[id].number : id \in Range(ids) }))
    BY <1>5 DEF RequestMessagesCall
  <2> DEFINE ids == FirstUnread(db, user, PageSize)
             batch == { db.chats[id].number : id \in Range(ids) }
  <2>2. ids \in Seq(Id)
    BY <1>1, FirstUnreadIs
  <2>3. \A id \in DOMAIN db.chats : db.chats[id].number \in Nat
    BY <1>1 DEF TypedDb, Chat
  <2>4. batch \in SUBSET Nat
    BY <2>1, <2>3
  <2> HIDE DEF ids
  <2>5. MarkAsRead(ids) \in LogMessage
    BY <2>2 DEF MarkAsRead, LogMessage
  <2> HIDE DEF batch
  <2>6. TakesCall(w, "requestMessages", At("dispatch", MarkAsRead(ids), batch))
    BY <2>1 DEF ids, batch
  <2> QED
    BY <1>2, <2>4, <2>5, <2>6
<1>6. CASE DeleteMessagesCall(w)
  <2>1. PICK ids \in SeqOf(DOMAIN db.chats, 2) :
          TakesCall(w, "deleteMessages", At("dispatch", DeleteMessages(ids), {}))
    BY <1>6 DEF DeleteMessagesCall
  <2>2. ids \in Seq(Id)
    <3>1. ids \in Seq(DOMAIN db.chats)
      BY ShortSeq
    <3>2. DOMAIN db.chats \subseteq Id
      BY <1>1 DEF TypedDb
    <3> QED
      BY <3>1, <3>2, SeqMonotonic
  <2>3. DeleteMessages(ids) \in LogMessage
    BY <2>2 DEF DeleteMessages, LogMessage
  <2> QED
    BY <1>2, <2>1, <2>3
<1>7. CASE DeleteAccountCall(w)
  <2>1. PICK user \in sessions :
          TakesCall(w, "deleteAccount", At("dispatch", DeletedAccount(user), {}))
    BY <1>7 DEF DeleteAccountCall
  <2>2. DeletedAccount(user) \in LogMessage
    BY DEF DeletedAccount, LogMessage, Typed
  <2> QED
    BY <1>2, <2>1, <2>2
<1> QED
  BY <1>3, <1>4, <1>5, <1>6, <1>7

\* What a step makes of one thread.
LEMMA ThreadStep ==
  ASSUME Typed, NEW w \in Worker, NEW next \in ThreadType, Handles(next),
         thread' = [thread EXCEPT ![w] = next]
  PROVE  /\ thread' \in [Worker -> ThreadType]
         /\ \A v \in Worker : Handles(thread'[v])
         /\ thread'[w] = next
         /\ \A v \in Worker : v # w => thread'[v] = thread[v]
<1>1. /\ thread' \in [Worker -> ThreadType]
      /\ thread'[w] = next
      /\ \A v \in Worker : v # w => thread'[v] = thread[v]
  BY DEF Typed, ThreadType
<1> QED
  BY <1>1 DEF Typed

LEMMA TakeIdTyped ==
  ASSUME Typed, Exclusive, NEW w \in Worker, TakeId(w)
  PROVE  Typed' /\ Exclusive'
<1> DEFINE m == thread[w].message
           n == IF m.kind = "NEW_ACCOUNT" THEN memory.nextAccount ELSE memory.nextMessage
           next == At("dispatch", [m EXCEPT !.id = << Self, n >>], {})
<1>1. m \in Draft /\ thread[w] \in ThreadType
  BY DEF TakeId, Typed, Handles, ThreadType
<1>2. n \in Nat \ {0}
  BY DEF Typed, TypedState
<1> HIDE DEF n
<1>3. << Self, n >> \in Id
  BY <1>2 DEF Id
<1>4. [m EXCEPT !.id = << Self, n >>] \in LogMessage
  BY <1>1, <1>3 DEF Draft, LogMessage
<1> HIDE DEF m
<1>5. /\ next \in ThreadType /\ Handles(next) /\ next.pc = "dispatch"
  BY <1>4, NoneAssumption, AtIs DEF Handles, Places, ThreadType
<1>6. thread' = [thread EXCEPT ![w] = next]
  BY DEF TakeId, m, n
<1> HIDE DEF next
<1>7. /\ thread' \in [Worker -> ThreadType]
      /\ \A v \in Worker : Handles(thread'[v])
      /\ thread'[w] = next
      /\ \A v \in Worker : v # w => thread'[v] = thread[v]
  BY <1>5, <1>6, ThreadStep
<1>8. /\ TypedState(memory')
      /\ memory'.messages = memory.messages
  <2>1. \/ memory' = [memory EXCEPT !.nextAccount = n + 1]
        \/ memory' = [memory EXCEPT !.nextMessage = n + 1]
    BY DEF TakeId, m, n
  <2>2. n + 1 \in Nat \ {0}
    BY <1>2
  <2> QED
    BY <2>1, <2>2 DEF Typed, TypedState, State
<1>9. Typed'
  BY <1>7, <1>8 DEF Typed, TakeId, ThreadType, faults
<1>10. Exclusive'
  BY <1>5, <1>7, IdleIs DEF Exclusive, TakeId, LogReplayFree
<1> QED
  BY <1>9, <1>10

LEMMA DispatchTyped ==
  ASSUME Typed, Exclusive, NEW w \in Worker, Dispatch(w)
  PROVE  Typed' /\ Exclusive'
<1> DEFINE m == thread[w].message
           t == thread[w]
           next == IF memory'.thrown THEN Idle ELSE [t EXCEPT !.pc = "saving"]
           out == Effect(memory.db, m)
<1>1. m \in LogMessage /\ t \in ThreadType /\ Handles(t) /\ t.pc = "dispatch"
  BY DEF Dispatch, Typed, Handles, ThreadType
<1>2. memory' = Replay(Self, memory, m)
  BY DEF Dispatch
<1>3. TypedState(memory')
  BY <1>1, <1>2, ReplayTyped DEF Typed
<1>4. ~ memory'.thrown => memory'.messages = Append(memory.messages, m)
  <2>1. /\ memory'.messages = IF out.ok THEN Append(memory.messages, m)
                                        ELSE memory.messages
        /\ memory'.thrown <=> ~ out.ok
    BY <1>2, ReplayIs
  <2> QED
    BY <2>1
<1> HIDE DEF t
<1>5. next \in ThreadType /\ Handles(next)
  <2>1. [t EXCEPT !.pc = "saving"] \in ThreadType
    BY <1>1 DEF ThreadType, Places
  <2>2. /\ [t EXCEPT !.pc = "saving"].pc = "saving"
        /\ [t EXCEPT !.pc = "saving"].message = m
    BY <1>1 DEF ThreadType, t
  <2>3. m # None
    BY <1>1, NoneAssumption
  <2>4. Handles([t EXCEPT !.pc = "saving"])
    BY <1>1, <2>2, <2>3 DEF Handles
  <2> QED
    BY <2>1, <2>4, IdleIs DEF ThreadType
<1>6. thread' = [thread EXCEPT ![w] = next]
  BY DEF Dispatch, t
<1>7. /\ next.pc = "saving" => ~ memory'.thrown
      /\ ~ memory'.thrown => next.message = m
  <2>1. [t EXCEPT !.pc = "saving"].message = m
    BY <1>1 DEF ThreadType, t
  <2> QED
    BY <2>1, IdleIs
<1> HIDE DEF next, m
<1>8. /\ thread' \in [Worker -> ThreadType]
      /\ \A v \in Worker : Handles(thread'[v])
      /\ thread'[w] = next
      /\ \A v \in Worker : v # w => thread'[v] = thread[v]
  BY <1>5, <1>6, ThreadStep
<1>9. Typed'
  BY <1>3, <1>8 DEF Typed, Dispatch, ThreadType, faults
<1>10. \A v \in Worker : v # w => thread'[v].pc # "saving"
  BY <1>8 DEF Dispatch, LogReplayFree
<1>11. ~ memory'.thrown => memory'.messages # << >> /\ m = Last(memory'.messages)
  <2>1. memory.messages \in Seq(LogMessage)
    BY DEF Typed, TypedState
  <2>2. /\ Append(memory.messages, m) # << >>
        /\ Append(memory.messages, m)[Len(Append(memory.messages, m))] = m
    BY <1>1, <2>1 DEF m
  <2> QED
    BY <1>4, <2>2 DEF Last
<1>12. up'
  BY IdleIs DEF Exclusive, Dispatch
<1>13. Exclusive'
  BY <1>7, <1>8, <1>10, <1>11, <1>12 DEF Exclusive
<1> QED
  BY <1>9, <1>13

LEMMA SaveTyped ==
  ASSUME Typed, Exclusive, NEW w \in Worker, Save(w)
  PROVE  Typed' /\ Exclusive'
<1> DEFINE t == thread[w]
           next == [t EXCEPT !.pc = "answering"]
<1>1. t.message \in LogMessage /\ t \in ThreadType /\ Handles(t) /\ t.pc = "saving"
  BY DEF Save, Typed, Handles, ThreadType
<1>2. thread' = [thread EXCEPT ![w] = next]
  BY DEF Save
<1> HIDE DEF t
<1>3. next \in ThreadType /\ next.pc = "answering" /\ next.message = t.message
  BY <1>1 DEF ThreadType, Places
<1>4. Handles(next)
  BY <1>1, <1>3 DEF Handles
<1> HIDE DEF next
<1>5. /\ thread' \in [Worker -> ThreadType]
      /\ \A v \in Worker : Handles(thread'[v])
      /\ thread'[w] = next
      /\ \A v \in Worker : v # w => thread'[v] = thread[v]
  BY <1>2, <1>3, <1>4, ThreadStep
<1>6. disk' \in Seq(LogMessage)
  BY <1>1 DEF Save, Typed, t
<1>7. Typed'
  BY <1>5, <1>6 DEF Typed, Save, ThreadType, faults
<1>8. Exclusive'
  BY <1>3, <1>5, IdleIs DEF Exclusive, Save
<1> QED
  BY <1>7, <1>8

LEMMA SaveFailsTyped ==
  ASSUME Typed, Exclusive, NEW w \in Worker, SaveFails(w)
  PROVE  Typed' /\ Exclusive'
<1>1. thread' = [thread EXCEPT ![w] = Idle]
  BY DEF SaveFails
<1>2. /\ thread' \in [Worker -> ThreadType]
      /\ \A v \in Worker : Handles(thread'[v])
      /\ thread'[w] = Idle
      /\ \A v \in Worker : v # w => thread'[v] = thread[v]
  BY <1>1, IdleIs, ThreadStep DEF ThreadType
<1>3. failed' \in 0 .. MaxFailed
  BY ServerAssumption DEF ServerAssumption, SaveFails, Typed
<1>4. Typed'
  BY <1>2, <1>3 DEF Typed, SaveFails, ThreadType
<1>5. Exclusive'
  BY <1>2, IdleIs DEF Exclusive, SaveFails
<1> QED
  BY <1>4, <1>5

LEMMA AnswerTyped ==
  ASSUME Typed, Exclusive, NEW w \in Worker, Answer(w)
  PROVE  Typed' /\ Exclusive'
<1>1. thread' = [thread EXCEPT ![w] = Idle]
  BY DEF Answer
<1>2. /\ thread' \in [Worker -> ThreadType]
      /\ \A v \in Worker : Handles(thread'[v])
      /\ thread'[w] = Idle
      /\ \A v \in Worker : v # w => thread'[v] = thread[v]
  BY <1>1, IdleIs, ThreadStep DEF ThreadType
<1>3. sessions' \subseteq Id
  <2>1. thread[w].message \in LogMessage
    BY DEF Answer, Typed, Handles
  <2>2. thread[w].message.kind = "NEW_ACCOUNT" => thread[w].message.id \in Id
    BY <2>1, MessageFields
  <2> QED
    BY <2>2 DEF Answer, Typed
<1>4. deliveries' \in [1 .. MaxCalls -> Nat]
  <2>1. deliveries' = [ t \in DOMAIN deliveries |->
                          deliveries[t] + IF t \in thread[w].batch THEN 1 ELSE 0 ]
    BY DEF Answer
  <2>2. deliveries \in [1 .. MaxCalls -> Nat]
    BY DEF Typed
  <2> QED
    BY <2>1, <2>2
<1>5. Typed'
  BY <1>2, <1>3, <1>4 DEF Typed, Answer, ThreadType, faults
<1>6. Exclusive'
  BY <1>2, IdleIs DEF Exclusive, Answer
<1> QED
  BY <1>5, <1>6

LEMMA ProcessTyped ==
  ASSUME Typed, Exclusive, Login \/ Crash \/ Start \/ UNCHANGED vars
  PROVE  Typed' /\ Exclusive'
<1>1. CASE Login
  <2>1. sessions' \subseteq Id
    <3>1. PICK u \in Username : /\ HasAccount(db, u)
                                /\ sessions' = sessions \cup { db.usernames[u] }
      BY <1>1 DEF Login
    <3>2. db.usernames[u] \in Id
      BY <3>1 DEF HasAccount, AccountExists, Typed, TypedState, TypedDb, db
    <3> QED
      BY <3>1, <3>2 DEF Typed
  <2>2. Typed'
    BY <1>1, <2>1 DEF Typed, Login, faults
  <2>3. Exclusive'
    BY <1>1 DEF Exclusive, Login
  <2> QED
    BY <2>2, <2>3
<1>2. CASE Crash
  <2>1. thread' = [w \in Worker |-> Idle]
    BY <1>2 DEF Crash
  <2>2. /\ thread' \in [Worker -> ThreadType]
        /\ \A w \in Worker : Handles(thread'[w])
        /\ \A w \in Worker : thread'[w].pc # "saving"
    BY <2>1, IdleIs DEF ThreadType
  <2>3. crashes' \in 0 .. MaxCrashes
    BY <1>2, ServerAssumption DEF ServerAssumption, Crash, Typed
  <2>4. TypedState(memory')
    BY <1>2, FreshTyped DEF Crash
  <2>5. Typed'
    BY <1>2, <2>2, <2>3, <2>4 DEF Crash, Typed, ThreadType
  <2>6. Exclusive'
    BY <2>1, <2>2 DEF Exclusive
  <2> QED
    BY <2>5, <2>6
<1>3. CASE Start
  <2>1. TypedState(memory')
    BY <1>3, RebuiltTyped DEF Start, Typed
  <2>2. Typed'
    BY <1>3, <2>1 DEF Start, Typed, faults
  <2>3. \A w \in Worker : thread'[w] = Idle
    BY <1>3 DEF Start, Exclusive
  <2>4. Exclusive'
    BY <2>3, IdleIs DEF Exclusive
  <2> QED
    BY <2>2, <2>4
<1>4. CASE UNCHANGED vars
  BY <1>4 DEF vars, Typed, Exclusive
<1> QED
  BY <1>1, <1>2, <1>3, <1>4

TypeInv == Typed /\ Exclusive

LEMMA TypeInvInvariant == Spec => []TypeInv
<1>1. Init => TypeInv
  BY InitTyped DEF TypeInv
<1>2. TypeInv /\ [Next]_vars => TypeInv'
  <2> SUFFICES ASSUME TypeInv, [Next]_vars PROVE TypeInv'
    OBVIOUS
  <2>1. Typed /\ Exclusive
    BY DEF TypeInv
  <2>2. CASE Login \/ Crash \/ Start \/ UNCHANGED vars
    BY <2>1, <2>2, ProcessTyped DEF TypeInv
  <2>3. ASSUME NEW w \in Worker, Handle(w) PROVE TypeInv'
    <3>1. CASE \/ CreateAccountCall(w)
               \/ SendMessageCall(w)
               \/ RequestMessagesCall(w)
               \/ DeleteMessagesCall(w)
               \/ DeleteAccountCall(w)
      BY <2>1, <3>1, CallsTyped DEF TypeInv
    <3>2. CASE TakeId(w)
      BY <2>1, <3>2, TakeIdTyped DEF TypeInv
    <3>3. CASE Dispatch(w)
      BY <2>1, <3>3, DispatchTyped DEF TypeInv
    <3>4. CASE Save(w)
      BY <2>1, <3>4, SaveTyped DEF TypeInv
    <3>5. CASE SaveFails(w)
      BY <2>1, <3>5, SaveFailsTyped DEF TypeInv
    <3>6. CASE Answer(w)
      BY <2>1, <3>6, AnswerTyped DEF TypeInv
    <3> QED
      BY <2>3, <3>1, <3>2, <3>3, <3>4, <3>5, <3>6 DEF Handle
  <2> QED
    BY <2>2, <2>3 DEF Next
<1> QED
  BY <1>1, <1>2, PTL DEF Spec

\* The type invariant, for any number of threads and all operations: the replay of
\* whatever the file holds, LogReplay.replayMessagesFromDisk, gives tables, counters
\* and a log of their types, and the message that a thread saves is the one that was
\* replayed last.
THEOREM TypeCorrect == Spec => []TypeOK
<1>1. TypeInv => TypeOK
  <2> SUFFICES ASSUME TypeInv PROVE TypeOK
    OBVIOUS
  <2>1. \A w \in Worker : thread[w].pc \in Places
    BY DEF TypeInv, Typed
  <2>2. /\ memory.nextAccount \in Nat /\ memory.nextMessage \in Nat
        /\ memory.messages \in Seq(LogMessage)
    BY DEF TypeInv, Typed, TypedState
  <2> QED
    BY <2>1, <2>2 DEF TypeInv, Typed, Exclusive, Handles, TypeOK, Places
<1> QED
  BY <1>1, TypeInvInvariant, PTL

-----------------------------------------------------------------------------
\* A restart is invisible

\* Every message has a recipient with an unread list.
Listable(d) ==
  \A id \in DOMAIN d.chats : d.chats[id].recipient \in DOMAIN d.unread

\* m adds something, or marks messages that are there.
Adds(d, m) ==
  /\ m.kind \in { "NEW_ACCOUNT", "NEW_CHAT_MESSAGE", "MARK_AS_READ" }
  /\ m.kind = "NEW_CHAT_MESSAGE" => ~ m.chat.read
  /\ m.kind = "MARK_AS_READ" => Range(m.ids) \subseteq DOMAIN d.chats

\* Such a message is replayed without an exception.
LEMMA EffectAdds ==
  ASSUME NEW d, TypedDb(d), Listable(d), NEW m \in LogMessage, Adds(d, m),
         NEW out, out = Effect(d, m)
  PROVE  /\ out.ok
         /\ Listable(out.db)
         /\ DOMAIN d.chats \subseteq DOMAIN out.db.chats
<1>1. Tables(d)
  BY DEF TypedDb
<1>2. CASE m.kind = "NEW_ACCOUNT"
  <2>1. out.db = CreateAccount(d, m.id, m.username) /\ out.ok
    BY <1>2, EffectIs
  <2>2. out.db.chats = d.chats /\ out.db.unread = d.unread
    BY <1>1, <2>1, CreateAccountIs
  <2> QED
    BY <2>1, <2>2 DEF Listable
<1>3. CASE m.kind = "NEW_CHAT_MESSAGE"
  <2> DEFINE user == m.chat.recipient
  <2>1. m.id \in Id /\ m.chat \in Chat /\ ~ m.chat.read
    BY <1>3, MessageFields DEF Adds
  <2>2. out.db = CreateMessage(d, m.id, m.chat) /\ out.ok
    BY <1>3, EffectIs
  <2>3. /\ out.db.chats = Put(d.chats, m.id, m.chat)
        /\ out.db.unread = IF m.chat.read THEN d.unread
                           ELSE Put(d.unread, user, Append(Unread(d, user), m.id))
    BY <1>1, <2>1, <2>2, CreateMessageIs
  <2>4. /\ DOMAIN out.db.unread = DOMAIN d.unread \cup {user}
        /\ DOMAIN out.db.chats = DOMAIN d.chats \cup {m.id}
        /\ \A id \in DOMAIN out.db.chats :
             out.db.chats[id] = IF id = m.id THEN m.chat ELSE d.chats[id]
    BY <2>1, <2>3 DEF Put
  <2>5. Listable(out.db)
    BY <2>4 DEF Listable
  <2> QED
    BY <2>2, <2>4, <2>5
<1>4. CASE m.kind = "MARK_AS_READ"
  <2> DEFINE c == [db |-> d, ids |-> m.ids]
  <2>1. m.ids \in Seq(Id) /\ Range(m.ids) \subseteq DOMAIN d.chats
    BY <1>4, MessageFields DEF Adds
  <2>2. Marked(c, Len(m.ids), out)
    BY <1>4, <2>1, EffectIs, MarkLoop
  <2>3. c.db = d /\ c.ids = m.ids
    OBVIOUS
  <2> HIDE DEF c
  <2>4. \A j \in 1 .. Len(m.ids) : m.ids[j] \in DOMAIN d.chats
    BY <2>1, LenProperties DEF Range
  <2>5. out.ok
    BY <2>2, <2>3, <2>4 DEF Marked, Listable
  <2>6. /\ DOMAIN out.db.unread = DOMAIN d.unread
        /\ DOMAIN out.db.chats = DOMAIN d.chats
        /\ \A id \in DOMAIN d.chats :
             \/ out.db.chats[id] = d.chats[id]
             \/ out.db.chats[id] = [d.chats[id] EXCEPT !.read = TRUE]
    BY <2>2, <2>3, <2>5 DEF Marked
  <2>7. \A id \in DOMAIN d.chats :
          out.db.chats[id].recipient = d.chats[id].recipient
    BY <2>6, ReadIsChat DEF TypedDb
  <2> QED
    BY <2>5, <2>6, <2>7 DEF Listable
<1> QED
  BY <1>2, <1>3, <1>4 DEF Adds

\* The file the server starts with.
FirstTurn(c, k, s) ==
  /\ TypedState(s)
  /\ ~ s.thrown
  /\ DOMAIN s.db.chats = {} /\ DOMAIN s.db.unread = {}
  /\ s.nextAccount = k + 1 /\ s.nextMessage = 1
  /\ \A id \in DOMAIN s.db.accounts : id \in Id /\ id[2] < k + 1
  /\ \A i \in 1 .. k : Members[i] \in DOMAIN s.db.usernames

First == INSTANCE FoldProofs WITH Step <- LAMBDA c, s, x : ReplayTurn(s, x), Holds <- FirstTurn

LEMMA FirstFile ==
  ASSUME Init
  PROVE  FirstTurn(0, Len(Members), Rebuilt(Self, disk))
<1>1. Members \in Seq(Username) /\ Len(Members) \in Nat
  BY ServerAssumption, LenProperties DEF ServerAssumption
<1>2. DOMAIN Members = 1 .. Len(Members)
  BY <1>1, LenProperties
<1>3. disk \in Seq(LogMessage)
  BY InitTyped DEF Typed
<1>4. disk = [ i \in 1 .. Len(Members) |-> NewAccount(<< Self, i >>, Members[i]) ]
  BY <1>2 DEF Init
<1>5. Len(disk) = Len(Members)
  <2>1. DOMAIN disk = 1 .. Len(Members) /\ DOMAIN disk = 1 .. Len(disk)
    BY <1>3, <1>4, LenProperties
  <2>2. Len(disk) \in Nat
    BY <1>3, LenProperties
  <2> QED
    BY <1>1, <2>1, <2>2
<1>6. FirstTurn(0, 0, Fresh)
  <2>1. /\ DOMAIN Fresh.db.chats = {} /\ DOMAIN Fresh.db.unread = {}
        /\ DOMAIN Fresh.db.accounts = {}
        /\ Fresh.nextAccount = 1 /\ Fresh.nextMessage = 1
    <3>1. DOMAIN << >> = {}
      OBVIOUS
    <3> QED
      BY <3>1 DEF Fresh, EmptyDatabase
  <2> HIDE DEF Fresh
  <2> QED
    BY <2>1, FreshTyped DEF FirstTurn
<1>7. ASSUME NEW k \in 1 .. Len(disk), NEW s, FirstTurn(0, k - 1, s)
      PROVE  FirstTurn(0, k, ReplayTurn(s, disk[k]))
  <2> DEFINE m == disk[k]
             r == Replay(Self, s, m)
             out == Effect(s.db, m)
  <2>1. k \in 1 .. Len(Members) /\ k \in Nat
    BY <1>1, <1>5
  <2>2. /\ m.kind = "NEW_ACCOUNT" /\ m.orig = Self
        /\ m.id = << Self, k >> /\ m.username = Members[k]
    BY <1>4, <2>1 DEF NewAccount
  <2>3. m \in LogMessage
    BY <1>3, ElementOfSeq
  <2>4. /\ TypedState(s) /\ ~ s.thrown /\ Tables(s.db)
        /\ DOMAIN s.db.chats = {} /\ DOMAIN s.db.unread = {}
        /\ s.nextAccount = k /\ s.nextMessage = 1
        /\ \A id \in DOMAIN s.db.accounts : id \in Id /\ id[2] < k
        /\ \A i \in 1 .. k - 1 : Members[i] \in DOMAIN s.db.usernames
    BY <1>7, <2>1 DEF FirstTurn, TypedState, TypedDb
  <2>5. ReplayTurn(s, m) = r
    BY <2>4 DEF ReplayTurn
  <2>6. TypedState(r)
    BY <2>3, <2>4, ReplayTyped
  <2>7. /\ r.db = out.db
        /\ r.nextAccount = NextAfter(Self, s.nextAccount, m)
        /\ r.nextMessage = s.nextMessage
        /\ r.thrown <=> ~ out.ok
    BY <2>2, ReplayIs
  <2>8. out.db = CreateAccount(s.db, m.id, m.username) /\ out.ok
    BY <2>2, EffectIs
  <2>9. /\ out.db.accounts = Put(s.db.accounts, m.id, m.username)
        /\ out.db.usernames = Put(s.db.usernames, m.username, m.id)
        /\ out.db.chats = s.db.chats /\ out.db.unread = s.db.unread
    BY <2>4, <2>8, CreateAccountIs
  <2>10. NextAfter(Self, s.nextAccount, m) = k + 1
    BY <2>1, <2>2, <2>4 DEF NextAfter
  <2> HIDE DEF r, out, m
  <2>11. /\ DOMAIN r.db.accounts = DOMAIN s.db.accounts \cup {<< Self, k >>}
         /\ DOMAIN r.db.usernames = DOMAIN s.db.usernames \cup {Members[k]}
    BY <2>2, <2>7, <2>9 DEF Put
  <2>12. \A id \in DOMAIN r.db.accounts : id \in Id /\ id[2] < k + 1
    <3> TAKE id \in DOMAIN r.db.accounts
    <3>1. CASE id \in DOMAIN s.db.accounts
      <4>1. id \in Id /\ id[2] < k
        BY <2>4, <3>1
      <4>2. id[2] \in Nat
        BY <4>1 DEF Id
      <4> QED
        BY <2>1, <4>1, <4>2
    <3>2. CASE id = << Self, k >>
      BY <2>1, <3>2 DEF Id
    <3> QED
      BY <2>11, <3>1, <3>2
  <2>13. \A i \in 1 .. k : Members[i] \in DOMAIN r.db.usernames
    <3>1. \A i \in 1 .. k : i \in 1 .. k - 1 \/ i = k
      BY <2>1
    <3> QED
      BY <2>4, <2>11, <3>1
  <2>14. FirstTurn(0, k, r)
    BY <2>4, <2>6, <2>7, <2>8, <2>9, <2>10, <2>12, <2>13 DEF FirstTurn
  <2> QED
    BY <2>5, <2>14 DEF m
<1>8. \A k \in 1 .. Len(disk) : \A s :
        FirstTurn(0, k - 1, s) => FirstTurn(0, k, ReplayTurn(s, disk[k]))
  BY <1>7
<1>9. FirstTurn(0, Len(disk), First!Fold(0, Fresh, disk))
  BY <1>3, <1>6, <1>8, First!FoldKeeps
<1>10. Rebuilt(Self, disk) = First!Fold(0, Fresh, disk)
  BY DEF Rebuilt, ReplayTurn, FoldLeft, MapThenFoldSet, Max,
         First!Fold, First!FoldLeft, First!MapThenFoldSet, First!Max
<1> QED
  BY <1>5, <1>9, <1>10

\* s is what memory holds.
Agrees(s) ==
  s.db = memory.db /\ s.messages = memory.messages /\ ~ s.thrown

\* The inductive invariant, as long as no write fails: outside of dispatchMessage
\* the file replays to what memory holds, inside of it the file with the message
\* that is about to be saved does, and whatever is about to be replayed can be.
Mirror ==
  failed = 0 =>
    /\ ~ Rebuilt(Self, disk).thrown
    /\ Listable(Rebuilt(Self, disk).db)
    /\ up /\ LogReplayFree => Agrees(Rebuilt(Self, disk))
    /\ up => Listable(memory.db)
    /\ \A w \in Worker :
         /\ thread[w].pc = "saving" =>
              Agrees(Rebuilt(Self, Append(disk, thread[w].message)))
         /\ thread[w].pc \in { "numbering", "dispatch" } =>
              Adds(memory.db, thread[w].message)

Additive == Operation \cap { "deleteMessages", "deleteAccount" } = {}

LEMMA ThreadAfter ==
  ASSUME Typed, NEW w \in Worker, NEW next, thread' = [thread EXCEPT ![w] = next]
  PROVE  /\ thread'[w] = next
         /\ \A v \in Worker : v # w => thread'[v] = thread[v]
BY DEF Typed

LEMMA AtFields ==
  ASSUME NEW pc, NEW m, NEW batch
  PROVE  At(pc, m, batch).pc = pc /\ At(pc, m, batch).message = m
BY DEF At

LEMMA CallMirror ==
  ASSUME Additive, Typed, Exclusive, Mirror, NEW w \in Worker,
         \/ CreateAccountCall(w)
         \/ SendMessageCall(w)
         \/ RequestMessagesCall(w)
         \/ DeleteMessagesCall(w)
         \/ DeleteAccountCall(w)
  PROVE  Mirror'
<1>1. ASSUME NEW pc \in { "numbering", "dispatch" }, NEW m, NEW batch, NEW op,
             TakesCall(w, op, At(pc, m, batch)), Adds(memory.db, m)
      PROVE  Mirror'
  <2>1. /\ thread' = [thread EXCEPT ![w] = At(pc, m, batch)]
        /\ thread[w] = Idle
        /\ UNCHANGED << up, memory, disk, failed >>
    BY <1>1 DEF TakesCall, faults
  <2>2. /\ thread'[w] = At(pc, m, batch)
        /\ \A v \in Worker : v # w => thread'[v] = thread[v]
    BY <2>1, ThreadAfter
  <2>3. thread'[w].pc = pc /\ thread'[w].message = m
    BY <2>2, AtFields
  <2>4. LogReplayFree' <=> LogReplayFree
    BY <2>1, <2>2, <2>3, IdleIs DEF LogReplayFree
  <2> QED
    BY <1>1, <2>1, <2>2, <2>3, <2>4 DEF Mirror, Agrees
<1>2. CASE CreateAccountCall(w)
  <2>1. PICK u \in Username : TakesCall(w, "createAccount",
                                        At("numbering", NewAccount(None, u), {}))
    BY <1>2 DEF CreateAccountCall
  <2>2. Adds(memory.db, NewAccount(None, u))
    BY DEF Adds, NewAccount
  <2> QED
    BY <1>1, <2>1, <2>2
<1>3. CASE SendMessageCall(w)
  <2>1. PICK sender \in sessions, u \in Username :
          TakesCall(w, "sendMessage",
            At("numbering",
               NewChatMessage(None, [ sender |-> sender,
                                      recipient |-> db.usernames[u],
                                      read |-> FALSE, number |-> calls + 1 ]), {}))
    BY <1>3 DEF SendMessageCall
  <2> DEFINE chat == [ sender |-> sender, recipient |-> db.usernames[u],
                       read |-> FALSE, number |-> calls + 1 ]
  <2>2. ~ chat.read
    OBVIOUS
  <2> HIDE DEF chat
  <2>3. Adds(memory.db, NewChatMessage(None, chat))
    BY <2>2 DEF Adds, NewChatMessage
  <2> QED
    BY <1>1, <2>1, <2>3 DEF chat
<1>4. CASE RequestMessagesCall(w)
  <2>1. PICK user \in sessions :
          LET ids == FirstUnread(db, user, PageSize) IN
          /\ \A id \in Range(ids) : id \in DOMAIN db.chats
          /\ TakesCall(w, "requestMessages",
               At("dispatch", MarkAsRead(ids),
                  { db.chats[id].number : id \in Range(ids) }))
    BY <1>4 DEF RequestMessagesCall
  <2> DEFINE ids == FirstUnread(db, user, PageSize)
             batch == { db.chats[id].number : id \in Range(ids) }
  <2>2. Range(ids) \subseteq DOMAIN memory.db.chats
    BY <2>1 DEF db
  <2>3. TakesCall(w, "requestMessages", At("dispatch", MarkAsRead(ids), batch))
    BY <2>1
  <2> HIDE DEF ids, batch
  <2>4. Adds(memory.db, MarkAsRead(ids))
    BY <2>2 DEF Adds, MarkAsRead
  <2> QED
    BY <1>1, <2>3, <2>4
<1>5. CASE DeleteMessagesCall(w) \/ DeleteAccountCall(w)
  <2>1. "deleteMessages" \in Operation \/ "deleteAccount" \in Operation
    BY <1>5 DEF DeleteMessagesCall, DeleteAccountCall, TakesCall
  <2> QED
    BY <2>1 DEF Additive
<1> QED
  BY <1>2, <1>3, <1>4, <1>5

LEMMA TakeIdMirror ==
  ASSUME Typed, Exclusive, Mirror, NEW w \in Worker, TakeId(w)
  PROVE  Mirror'
<1> DEFINE m == thread[w].message
           n == IF m.kind = "NEW_ACCOUNT" THEN memory.nextAccount ELSE memory.nextMessage
           numbered == [m EXCEPT !.id = << Self, n >>]
<1>1. thread[w].pc = "numbering" /\ m \in Draft
  BY DEF TakeId, Typed, Handles
<1> HIDE DEF n, m
<1>2. numbered.kind = m.kind /\ (m.kind = "NEW_CHAT_MESSAGE" => numbered.chat = m.chat)
  BY <1>1 DEF Draft
<1>3. m.kind # "MARK_AS_READ"
  BY <1>1 DEF Draft
<1> HIDE DEF numbered
<1>4. \A d : Adds(d, m) => Adds(d, numbered)
  BY <1>2, <1>3 DEF Adds
<1>5. thread' = [thread EXCEPT ![w] = At("dispatch", numbered, {})]
  BY DEF TakeId, m, n, numbered
<1>6. /\ thread'[w] = At("dispatch", numbered, {})
      /\ \A v \in Worker : v # w => thread'[v] = thread[v]
  BY <1>5, ThreadAfter
<1>7. thread'[w].pc = "dispatch" /\ thread'[w].message = numbered
  BY <1>6, AtFields
<1>8. memory'.db = memory.db /\ memory'.messages = memory.messages
  <2>1. \/ memory' = [memory EXCEPT !.nextAccount = n + 1]
        \/ memory' = [memory EXCEPT !.nextMessage = n + 1]
    BY DEF TakeId, m, n
  <2> QED
    BY <2>1 DEF Typed, TypedState, State
<1>9. LogReplayFree' /\ LogReplayFree /\ UNCHANGED << up, disk, failed >>
  BY <1>6, <1>7 DEF TakeId, LogReplayFree, faults
<1> QED
  BY <1>1, <1>4, <1>6, <1>7, <1>8, <1>9 DEF Mirror, Agrees, m

LEMMA DispatchMirror ==
  ASSUME Typed, Exclusive, Mirror, NEW w \in Worker, Dispatch(w)
  PROVE  Mirror'
<1> DEFINE m == thread[w].message
           out == Effect(memory.db, m)
           file == Rebuilt(Self, disk)
           longer == Rebuilt(Self, Append(disk, m))
<1>1. SUFFICES ASSUME failed = 0 PROVE Mirror'
  BY DEF Dispatch, Mirror, faults
<1>2. thread[w].pc = "dispatch" /\ m \in LogMessage /\ LogReplayFree
  BY DEF Dispatch, Typed, Handles
<1>3. up
  BY <1>2, IdleIs DEF Exclusive
<1>4. /\ ~ file.thrown /\ Listable(file.db) /\ Agrees(file)
      /\ Adds(memory.db, m) /\ Listable(memory.db)
  BY <1>1, <1>2, <1>3 DEF Mirror
<1>5. TypedDb(memory.db)
  BY DEF Typed, TypedState
<1>6. /\ out.ok /\ Listable(out.db)
      /\ DOMAIN memory.db.chats \subseteq DOMAIN out.db.chats
  BY <1>2, <1>4, <1>5, EffectAdds
<1>7. /\ memory'.db = out.db
      /\ memory'.messages = Append(memory.messages, m)
      /\ ~ memory'.thrown
  <2>1. memory' = Replay(Self, memory, m)
    BY DEF Dispatch
  <2>2. /\ memory'.db = out.db
        /\ memory'.messages = IF out.ok THEN Append(memory.messages, m)
                                        ELSE memory.messages
        /\ memory'.thrown <=> ~ out.ok
    BY <2>1, ReplayIs
  <2> QED
    BY <1>6, <2>2
<1>8. /\ longer.db = out.db
      /\ longer.messages = Append(memory.messages, m)
      /\ ~ longer.thrown
  <2>1. longer = Replay(Self, file, m)
    BY <1>2, <1>4, RebuiltAppend DEF Typed, ReplayTurn
  <2>2. file.db = memory.db /\ file.messages = memory.messages
    BY <1>4 DEF Agrees
  <2>3. out = Effect(file.db, m)
    BY <2>2
  <2> HIDE DEF longer, out, file
  <2>4. /\ longer.db = out.db
        /\ longer.messages = IF out.ok THEN Append(file.messages, m) ELSE file.messages
        /\ longer.thrown <=> ~ out.ok
    BY <2>1, <2>3, ReplayIs
  <2> QED
    BY <1>6, <2>2, <2>4
<1> DEFINE next == [thread[w] EXCEPT !.pc = "saving"]
<1>9. next.pc = "saving" /\ next.message = m
  BY DEF Typed
<1>10. thread' = [thread EXCEPT ![w] = next]
  BY <1>7 DEF Dispatch
<1> HIDE DEF next
<1>11. /\ thread'[w] = next
       /\ \A v \in Worker : v # w => thread'[v] = thread[v]
  BY <1>10, ThreadAfter
<1>12. UNCHANGED << up, disk, failed >> /\ ~ LogReplayFree'
  BY <1>9, <1>11 DEF Dispatch, faults, LogReplayFree
<1> HIDE DEF m, out, file, longer
<1>13. \A v \in Worker : thread'[v].pc = "saving" =>
                           v = w /\ thread'[v].message = m
  BY <1>2, <1>9, <1>11 DEF LogReplayFree
<1>14. \A v \in Worker : thread'[v].pc \in { "numbering", "dispatch" } =>
                           Adds(memory'.db, thread'[v].message)
  <2> TAKE v \in Worker
  <2> HAVE thread'[v].pc \in { "numbering", "dispatch" }
  <2>1. v # w /\ thread'[v] = thread[v]
    BY <1>9, <1>11
  <2>2. Adds(memory.db, thread[v].message)
    BY <1>1, <2>1 DEF Mirror
  <2>3. DOMAIN memory.db.chats \subseteq DOMAIN memory'.db.chats
    BY <1>6, <1>7
  <2> QED
    BY <2>1, <2>2, <2>3 DEF Adds
<1>15. /\ Listable(memory'.db)
       /\ longer.db = memory'.db /\ longer.messages = memory'.messages /\ ~ longer.thrown
  BY <1>6, <1>7, <1>8
<1>16. \A v \in Worker : thread'[v].pc = "saving" =>
         LET s == Rebuilt(Self, Append(disk', thread'[v].message))
         IN  s.db = memory'.db /\ s.messages = memory'.messages /\ ~ s.thrown
  <2> TAKE v \in Worker
  <2> HAVE thread'[v].pc = "saving"
  <2>1. Rebuilt(Self, Append(disk', thread'[v].message)) = longer
    BY <1>12, <1>13 DEF longer
  <2> QED
    BY <2>1, <1>15
<1>17. /\ ~ Rebuilt(Self, disk').thrown
       /\ Listable(Rebuilt(Self, disk').db)
  BY <1>4, <1>12 DEF file
<1> QED
  BY <1>12, <1>14, <1>15, <1>16, <1>17 DEF Mirror, Agrees

LEMMA SaveMirror ==
  ASSUME Typed, Exclusive, Mirror, NEW w \in Worker, Save(w)
  PROVE  Mirror'
<1> DEFINE m == thread[w].message
           next == [thread[w] EXCEPT !.pc = "answering"]
<1>1. SUFFICES ASSUME failed = 0 PROVE Mirror'
  BY DEF Save, Mirror, faults
<1>2. thread[w].pc = "saving" /\ up
  BY IdleIs DEF Exclusive, Save
<1>3. Agrees(Rebuilt(Self, Append(disk, m))) /\ Listable(memory.db)
  BY <1>1, <1>2 DEF Mirror
<1>4. disk' = Append(disk, m) /\ UNCHANGED << up, memory, failed >>
  BY DEF Save, faults
<1>5. next.pc = "answering"
  BY DEF Typed
<1>6. thread' = [thread EXCEPT ![w] = next]
  BY DEF Save
<1> HIDE DEF next
<1>7. /\ thread'[w] = next
      /\ \A v \in Worker : v # w => thread'[v] = thread[v]
  BY <1>6, ThreadAfter
<1>8. \A v \in Worker : thread'[v].pc # "saving"
  BY <1>2, <1>5, <1>7 DEF Exclusive
<1>9. Agrees(Rebuilt(Self, disk))'
  BY <1>3, <1>4 DEF Agrees
<1>10. /\ ~ Rebuilt(Self, disk').thrown
       /\ Rebuilt(Self, disk').db = memory.db
  BY <1>3, <1>4 DEF Agrees
<1>11. \A v \in Worker : thread'[v].pc \in { "numbering", "dispatch" } =>
         Adds(memory'.db, thread'[v].message)
  BY <1>1, <1>4, <1>5, <1>7 DEF Mirror
<1> QED
  BY <1>3, <1>4, <1>8, <1>9, <1>10, <1>11 DEF Mirror

LEMMA IdleMirror ==
  ASSUME Typed, Exclusive, Mirror, NEW w \in Worker, SaveFails(w) \/ Answer(w)
  PROVE  Mirror'
<1>1. CASE SaveFails(w)
  <2>1. failed' # 0
    BY <1>1, ServerAssumption DEF SaveFails, Typed, ServerAssumption
  <2> QED
    BY <2>1 DEF Mirror
<1>2. CASE Answer(w)
  <2>1. thread' = [thread EXCEPT ![w] = Idle]
    BY <1>2 DEF Answer
  <2>2. /\ thread'[w] = Idle
        /\ \A v \in Worker : v # w => thread'[v] = thread[v]
    BY <2>1, ThreadAfter
  <2>3. UNCHANGED << up, memory, disk, failed >> /\ thread[w].pc = "answering"
    BY <1>2 DEF Answer, faults
  <2>4. LogReplayFree' <=> LogReplayFree
    BY <2>2, <2>3, IdleIs DEF LogReplayFree
  <2> QED
    BY <2>2, <2>3, <2>4, IdleIs DEF Mirror, Agrees
<1> QED
  BY <1>1, <1>2

LEMMA ProcessMirror ==
  ASSUME Typed, Exclusive, Mirror, Login \/ Crash \/ Start \/ UNCHANGED vars
  PROVE  Mirror'
<1>1. CASE Login
  BY <1>1 DEF Login, Mirror, Agrees, LogReplayFree, faults
<1>2. CASE Crash
  <2>1. \A w \in Worker : thread'[w].pc = "idle"
    BY <1>2, IdleIs DEF Crash
  <2>2. ~ up' /\ UNCHANGED << disk, failed >>
    BY <1>2 DEF Crash
  <2> QED
    BY <2>1, <2>2 DEF Mirror
<1>3. CASE Start
  <2>1. \A w \in Worker : thread'[w].pc = "idle"
    BY <1>3, IdleIs DEF Start, Exclusive
  <2>2. /\ memory' = Rebuilt(Self, disk) /\ ~ Rebuilt(Self, disk).thrown
        /\ UNCHANGED << disk, failed >>
    BY <1>3 DEF Start, faults
  <2> QED
    BY <2>1, <2>2 DEF Mirror, Agrees
<1>4. CASE UNCHANGED vars
  BY <1>4 DEF vars, Mirror, Agrees, LogReplayFree
<1> QED
  BY <1>1, <1>2, <1>3, <1>4

\* As long as no write fails, a restart is invisible, for any number of threads, of
\* users, of calls and of crashes, when nothing is deleted: whatever the threads do
\* between getMessageId, the replay and the save, a file that is replayed outside of
\* dispatchMessage gives the tables and the log of the running server.
THEOREM RestartInvisibleHolds ==
  ASSUME Additive
  PROVE  Spec => []RestartInvisible
<1>1. Init => Mirror
  <2> SUFFICES ASSUME Init PROVE Mirror
    OBVIOUS
  <2>1. FirstTurn(0, Len(Members), Rebuilt(Self, disk))
    BY FirstFile
  <2>2. ~ Rebuilt(Self, disk).thrown /\ Listable(Rebuilt(Self, disk).db)
    BY <2>1 DEF FirstTurn, Listable
  <2>3. ~ up /\ \A w \in Worker : thread[w].pc = "idle"
    BY IdleIs DEF Init
  <2> QED
    BY <2>2, <2>3 DEF Mirror
<1>2. TypeInv /\ Mirror /\ [Next]_vars => Mirror'
  <2> SUFFICES ASSUME TypeInv, Mirror, [Next]_vars PROVE Mirror'
    OBVIOUS
  <2>1. Typed /\ Exclusive
    BY DEF TypeInv
  <2>2. CASE Login \/ Crash \/ Start \/ UNCHANGED vars
    BY <2>1, <2>2, ProcessMirror
  <2>3. ASSUME NEW w \in Worker, Handle(w) PROVE Mirror'
    <3>1. CASE \/ CreateAccountCall(w)
               \/ SendMessageCall(w)
               \/ RequestMessagesCall(w)
               \/ DeleteMessagesCall(w)
               \/ DeleteAccountCall(w)
      BY <2>1, <3>1, CallMirror
    <3>2. CASE TakeId(w)
      BY <2>1, <3>2, TakeIdMirror
    <3>3. CASE Dispatch(w)
      BY <2>1, <3>3, DispatchMirror
    <3>4. CASE Save(w)
      BY <2>1, <3>4, SaveMirror
    <3>5. CASE SaveFails(w) \/ Answer(w)
      BY <2>1, <3>5, IdleMirror
    <3> QED
      BY <2>3, <3>1, <3>2, <3>3, <3>4, <3>5 DEF Handle
  <2> QED
    BY <2>2, <2>3 DEF Next
<1>3. Mirror => RestartInvisible
  BY DEF Mirror, RestartInvisible, Agrees, db
<1> QED
  BY <1>1, <1>2, <1>3, TypeInvInvariant, PTL DEF Spec

=============================================================================
