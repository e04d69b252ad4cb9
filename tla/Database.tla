------------------------------ MODULE Database ------------------------------
(***************************************************************************)
(* The in-memory tables of a chat server (Database.java) and the replay of *)
(* a log message on them (LogReplay.replayMessage).                        *)
(*                                                                         *)
(* Every method of Database is synchronized, so it is an operator from a   *)
(* database to a database.  A method that may throw returns an outcome:    *)
(* the database it leaves behind, and whether it returned normally.        *)
(***************************************************************************)
EXTENDS Naturals, Sequences, FiniteSets, Functions, SequencesExt

\* Map.put and Map.remove.
Put(map, key, value) ==
  [ k \in DOMAIN map \cup {key} |-> IF k = key THEN value ELSE map[k] ]

Without(map, key) == Restrict(map, DOMAIN map \ {key})

Outcome(db, ok) == [db |-> db, ok |-> ok]

\* accounts:  accountMap, an account by its id
\* usernames: accountUsernameMap, the account id by username
\* chats:     messageMap, a chat message by its id
\* unread:    unreadMessagesPerAccount, the ids of unread messages by recipient
EmptyDatabase ==
  [accounts |-> <<>>, usernames |-> <<>>, chats |-> <<>>, unread |-> <<>>]

-----------------------------------------------------------------------------
\* Accounts

CreateAccount(db, id, username) ==
  [db EXCEPT !.accounts = Put(@, id, username),
             !.usernames = Put(@, username, id)]

AccountExists(db, username) == username \in DOMAIN db.usernames

\* lookupAccountByUsername finds an account.
HasAccount(db, username) ==
  AccountExists(db, username) /\ db.usernames[username] \in DOMAIN db.accounts

\* Mutant of DeleteAccount: the username is given free.
DeleteAccountAndUsername(db, id) ==
  [db EXCEPT !.unread = Without(@, id),
             !.accounts = Without(@, id),
             !.usernames = Restrict(@, { u \in DOMAIN @ : @[u] # id })]

\* The username remains claimed, and the messages remain.
DeleteAccount(db, id) ==
  [db EXCEPT !.unread = Without(@, id),
             !.accounts = Without(@, id)]

-----------------------------------------------------------------------------
\* Chat messages

\* The list of unread messages of a user; a user may have none.
Unread(db, user) ==
  IF user \in DOMAIN db.unread THEN db.unread[user] ELSE <<>>

\* chat is a record with at least sender, recipient and read.
CreateMessage(db, id, chat) ==
  LET stored == [db EXCEPT !.chats = Put(@, id, chat)]
  IN  IF chat.read THEN stored
      ELSE [stored EXCEPT !.unread =
              Put(@, chat.recipient, Append(Unread(db, chat.recipient), id))]

\* The first "number" unread messages of a user.
FirstUnread(db, user, number) ==
  LET ids == Unread(db, user)
  IN  SubSeq(ids, 1, IF number < Len(ids) THEN number ELSE Len(ids))

\* Take an id from the list of its recipient, which must exist.
Unindex(db, id) ==
  LET user == db.chats[id].recipient
  IN  IF user \in DOMAIN db.unread
        THEN Outcome([db EXCEPT !.unread[user] = RemoveFirst(@, id)], TRUE)
        ELSE Outcome(db, FALSE)

\* The loop of a method over ids, up to the first that throws.
ForEach(Method(_, _), db, ids) ==
  FoldLeft(LAMBDA out, id : IF out.ok THEN Method(out.db, id) ELSE out,
           Outcome(db, TRUE), ids)

\* Mutant of MarkRead: the id stays in the list.
MarkReadOnly(db, id) ==
  IF id \in DOMAIN db.chats
    THEN Outcome([db EXCEPT !.chats[id].read = TRUE], TRUE)
    ELSE Outcome(db, FALSE)

\* One turn of the loop of markMessagesRead; the message must exist.
MarkRead(db, id) ==
  IF id \in DOMAIN db.chats
    THEN Unindex([db EXCEPT !.chats[id].read = TRUE], id)
    ELSE Outcome(db, FALSE)

MarkMessagesRead(db, ids) == ForEach(MarkRead, db, ids)

\* deleteMessage: nothing happens when the message does not exist.
DeleteMessage(db, id) ==
  IF id \notin DOMAIN db.chats THEN Outcome(db, TRUE)
  ELSE LET out == IF db.chats[id].read THEN Outcome(db, TRUE)
                                       ELSE Unindex(db, id)
       IN  IF out.ok
             THEN Outcome([out.db EXCEPT !.chats = Without(@, id)], TRUE)
             ELSE out

=============================================================================
