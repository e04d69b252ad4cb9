----------------------------- MODULE LogReplay -----------------------------
(***************************************************************************)
(* The state of LogReplay.java on one server and what replaying a log      *)
(* message does to it: the database, the counters the next ids are taken   *)
(* from, and the messages in memory.                                       *)
(*                                                                         *)
(* An id is a pair of the replica that gave it and a number.  A log message *)
(* has orig, kind and the fields of its payload: id and username; id and   *)
(* chat; ids; ids; id.                                                     *)
(***************************************************************************)
EXTENDS Database

Fresh ==
  [ db |-> EmptyDatabase, nextAccount |-> 1, nextMessage |-> 1,
    messages |-> <<>>, thrown |-> FALSE ]

\* Mutant of NextAfter: the counter is not raised (the bug of
\* docs/notebooks/junemoretz.md, March 23).
NextUnchanged(self, next, m) == next

\* The counter after the replay of a message that created an id.
NextAfter(self, next, m) ==
  IF m.orig = self /\ m.id[2] <= next THEN m.id[2] + 1 ELSE next

\* What the payload does to the database.
Effect(db, m) ==
  CASE m.kind = "NEW_ACCOUNT" -> Outcome(CreateAccount(db, m.id, m.username), TRUE)
    [] m.kind = "NEW_CHAT_MESSAGE" -> Outcome(CreateMessage(db, m.id, m.chat), TRUE)
    [] m.kind = "MARK_AS_READ" -> MarkMessagesRead(db, m.ids)
    [] m.kind = "DELETE_MESSAGES" -> ForEach(DeleteMessage, db, m.ids)
    [] m.kind = "DELETE_ACCOUNT" -> Outcome(DeleteAccount(db, m.id), TRUE)

\* Mutant of Replay: the message is not added to the log.
ReplayUncached(self, s, m) ==
  LET out == Effect(s.db, m)
  IN  [ db |-> out.db,
        nextAccount |-> IF m.kind = "NEW_ACCOUNT"
                          THEN NextAfter(self, s.nextAccount, m)
                          ELSE s.nextAccount,
        nextMessage |-> IF m.kind = "NEW_CHAT_MESSAGE"
                          THEN NextAfter(self, s.nextMessage, m)
                          ELSE s.nextMessage,
        messages |-> s.messages,
        thrown |-> ~ out.ok ]

\* replayMessage: a message whose effect throws is not added to the log, but the
\* part of the effect before the exception stays.
Replay(self, s, m) ==
  LET out == Effect(s.db, m)
  IN  [ db |-> out.db,
        nextAccount |-> IF m.kind = "NEW_ACCOUNT"
                          THEN NextAfter(self, s.nextAccount, m)
                          ELSE s.nextAccount,
        nextMessage |-> IF m.kind = "NEW_CHAT_MESSAGE"
                          THEN NextAfter(self, s.nextMessage, m)
                          ELSE s.nextMessage,
        messages |-> IF out.ok THEN Append(s.messages, m) ELSE s.messages,
        thrown |-> ~ out.ok ]

\* replayMessagesFromDisk: the first message that throws ends the startup.
Rebuilt(self, file) ==
  FoldLeft(LAMBDA s, m : IF s.thrown THEN s ELSE Replay(self, s, m),
           Fresh, file)

=============================================================================
