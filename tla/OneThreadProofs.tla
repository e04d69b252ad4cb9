-------------------------- MODULE OneThreadProofs --------------------------
(***************************************************************************)
(* A chat server with one thread, which handles one call after the other,  *)
(* for any number of users, calls and crashes: what the server promises of *)
(* ids, usernames, unread lists, deliveries and its file, which two        *)
(* threads can break.                                                      *)
(*                                                                         *)
(* First what an operation makes of each table; then where memory is       *)
(* relative to the file (Track), and what has been handed out (Told).      *)
(***************************************************************************)
EXTENDS ChatServerProofs

-----------------------------------------------------------------------------
\* The tables after an operation

\* What an operation leaves in each table, by its kind.
Does(d, m, out) ==
  /\ m.kind = "NEW_ACCOUNT" =>
       /\ out.ok
       /\ out.db.accounts = Put(d.accounts, m.id, m.username)
       /\ out.db.usernames = Put(d.usernames, m.username, m.id)
       /\ out.db.chats = d.chats
       /\ out.db.unread = d.unread
  /\ m.kind = "NEW_CHAT_MESSAGE" =>
       /\ out.ok
       /\ out.db.accounts = d.accounts
       /\ out.db.usernames = d.usernames
       /\ out.db.chats = Put(d.chats, m.id, m.chat)
       /\ out.db.unread =
            IF m.chat.read THEN d.unread
            ELSE Put(d.unread, m.chat.recipient,
                     Append(Unread(d, m.chat.recipient), m.id))
  /\ m.kind = "MARK_AS_READ" =>
       /\ out.db.accounts = d.accounts
       /\ out.db.usernames = d.usernames
       /\ DOMAIN out.db.chats = DOMAIN d.chats
       /\ DOMAIN out.db.unread = DOMAIN d.unread
       /\ (\A id \in Range(m.ids) :
             id \in DOMAIN d.chats /\ d.chats[id].recipient \in DOMAIN d.unread)
            => out.ok
       /\ out.ok =>
            /\ \A id \in DOMAIN d.chats :
                 out.db.chats[id] = IF id \in Range(m.ids)
                                      THEN [d.chats[id] EXCEPT !.read = TRUE]
                                      ELSE d.chats[id]
            /\ Indexed(d) => Indexed(out.db)
  /\ m.kind = "DELETE_MESSAGES" =>
       /\ out.db.accounts = d.accounts
       /\ out.db.usernames = d.usernames
       /\ DOMAIN out.db.chats \subseteq DOMAIN d.chats
       /\ \A id \in DOMAIN out.db.chats : out.db.chats[id] = d.chats[id]
       /\ DOMAIN out.db.unread = DOMAIN d.unread
       /\ out.ok <=> \A id \in Range(m.ids) : Deletable(d, id)
       /\ out.ok => DOMAIN out.db.chats = DOMAIN d.chats \ Range(m.ids)
       /\ Indexed(d) => Indexed(out.db)
  /\ m.kind = "DELETE_ACCOUNT" =>
       /\ out.ok
       /\ out.db.accounts = Without(d.accounts, m.id)
       /\ out.db.usernames = d.usernames
       /\ out.db.chats = d.chats
       /\ out.db.unread = Without(d.unread, m.id)

LEMMA EffectDoes ==
  ASSUME NEW d, TypedDb(d), NEW m \in LogMessage, NEW out, out = Effect(d, m)
  PROVE  Does(d, m, out)
<1> DEFINE c == [db |-> d, ids |-> m.ids]
<1>1. Tables(d) /\ c.db = d /\ c.ids = m.ids
  BY DEF TypedDb
<1>2. CASE m.kind = "NEW_ACCOUNT"
  BY <1>1, <1>2, EffectIs, CreateAccountIs DEF Does
<1>3. CASE m.kind = "NEW_CHAT_MESSAGE"
  BY <1>1, <1>3, EffectIs, MessageFields, CreateMessageIs DEF Does
<1>4. CASE m.kind = "DELETE_ACCOUNT"
  BY <1>1, <1>4, EffectIs, DeleteAccountIs DEF Does
<1>5. m.kind \in { "MARK_AS_READ", "DELETE_MESSAGES" } =>
        /\ m.ids \in Seq(Id)
        /\ Done(c, Len(m.ids)) = Range(m.ids)
        /\ DOMAIN m.ids = 1 .. Len(m.ids)
  <2> SUFFICES ASSUME m.kind \in { "MARK_AS_READ", "DELETE_MESSAGES" }
               PROVE  /\ m.ids \in Seq(Id)
                      /\ Done(c, Len(m.ids)) = Range(m.ids)
                      /\ DOMAIN m.ids = 1 .. Len(m.ids)
    OBVIOUS
  <2>1. m.ids \in Seq(Id)
    BY MessageFields
  <2>2. DOMAIN m.ids = 1 .. Len(m.ids)
    BY <2>1, LenProperties
  <2> QED
    BY <1>1, <2>1, <2>2 DEF Done, Range
<1> HIDE DEF c
<1>6. CASE m.kind = "MARK_AS_READ"
  <2>1. Marked(c, Len(m.ids), out)
    BY <1>5, <1>6, EffectIs, MarkLoop DEF c
  <2>2. (\A id \in Range(m.ids) :
           id \in DOMAIN d.chats /\ d.chats[id].recipient \in DOMAIN d.unread)
          => \A j \in 1 .. Len(m.ids) :
               /\ c.ids[j] \in DOMAIN c.db.chats
               /\ c.db.chats[c.ids[j]].recipient \in DOMAIN c.db.unread
    BY <1>1, <1>5, <1>6 DEF Range
  <2> QED
    BY <1>1, <1>5, <1>6, <2>1, <2>2 DEF Marked, Does
<1>7. CASE m.kind = "DELETE_MESSAGES"
  <2>1. Deleted(c, Len(m.ids), out)
    BY <1>5, <1>7, EffectIs, DeleteLoop DEF c
  <2>2. (\A id \in Range(m.ids) : Deletable(d, id))
          <=> \A j \in 1 .. Len(m.ids) : Deletable(c.db, c.ids[j])
    BY <1>1, <1>5, <1>7 DEF Range
  <2> QED
    BY <1>1, <1>5, <1>7, <2>1, <2>2 DEF Deleted, Does
<1> QED
  BY <1>2, <1>3, <1>4, <1>6, <1>7, MessageFields

\* A message that can be replayed, and keeps the unread lists in step.
Ready(d, m) ==
  /\ m.kind = "NEW_ACCOUNT" =>
       /\ m.id \notin DOMAIN d.accounts
       /\ \A id \in DOMAIN d.chats : d.chats[id].recipient # m.id
  /\ m.kind = "NEW_CHAT_MESSAGE" =>
       /\ m.id \notin DOMAIN d.chats
       /\ ~ m.chat.read
       /\ m.chat.recipient \in DOMAIN d.accounts
  /\ m.kind = "MARK_AS_READ" =>
       \A id \in Range(m.ids) :
         id \in DOMAIN d.chats /\ d.chats[id].recipient \in DOMAIN d.unread
  /\ m.kind = "DELETE_MESSAGES" =>
       \A id \in Range(m.ids) : Deletable(d, id)

LEMMA EffectReady ==
  ASSUME NEW d, TypedDb(d), Indexed(d), NEW m \in LogMessage, Ready(d, m),
         NEW out, out = Effect(d, m)
  PROVE  out.ok /\ Indexed(out.db)
<1> DEFINE e == out.db
           listed(x, u) == { i \in DOMAIN x.chats :
                               x.chats[i].recipient = u /\ ~ x.chats[i].read }
<1>0. Does(d, m, out)
  BY EffectDoes
<1>1. CASE m.kind = "NEW_ACCOUNT"
  <2>1. /\ out.ok
        /\ e.accounts = Put(d.accounts, m.id, m.username)
        /\ e.chats = d.chats /\ e.unread = d.unread
    BY <1>0, <1>1 DEF Does
  <2> HIDE DEF e
  <2>2. \A u : Unread(e, u) = Unread(d, u) /\ listed(e, u) = listed(d, u)
    BY <2>1 DEF Unread
  <2>3. DOMAIN e.accounts = DOMAIN d.accounts \cup {m.id}
    BY <2>1 DEF Put
  <2>4. IsInjective(Unread(e, m.id)) /\ Range(Unread(e, m.id)) = listed(e, m.id)
    <3>1. m.id \notin DOMAIN d.unread
      BY <1>1 DEF Ready, Indexed
    <3>2. Unread(e, m.id) = << >>
      BY <2>2, <3>1 DEF Unread
    <3>3. listed(e, m.id) = {}
      BY <1>1, <2>1 DEF Ready
    <3>4. DOMAIN << >> = {}
      OBVIOUS
    <3> QED
      BY <3>2, <3>3, <3>4 DEF IsInjective, Range
  <2>5. \A u \in DOMAIN d.accounts : IsInjective(Unread(e, u))
                                     /\ Range(Unread(e, u)) = listed(e, u)
    BY <2>2 DEF Indexed
  <2>6. Indexed(e)
    BY <2>1, <2>3, <2>4, <2>5 DEF Indexed
  <2> QED
    BY <2>1, <2>6 DEF e
<1>2. CASE m.kind = "NEW_CHAT_MESSAGE"
  <2> DEFINE user == m.chat.recipient
             ids == Unread(d, user)
  <2>1. ~ m.chat.read /\ user \in DOMAIN d.accounts /\ m.id \notin DOMAIN d.chats
    BY <1>2 DEF Ready
  <2>2. /\ out.ok
        /\ e.accounts = d.accounts
        /\ e.chats = Put(d.chats, m.id, m.chat)
        /\ e.unread = Put(d.unread, user, Append(ids, m.id))
    BY <1>0, <1>2, <2>1 DEF Does
  <2> HIDE DEF e
  <2>3. /\ DOMAIN e.chats = DOMAIN d.chats \cup {m.id}
        /\ e.chats[m.id] = m.chat
        /\ \A i \in DOMAIN d.chats : e.chats[i] = d.chats[i]
    BY <2>1, <2>2 DEF Put
  <2>4. /\ DOMAIN e.unread = DOMAIN d.unread \cup {user}
        /\ Unread(e, user) = Append(ids, m.id)
        /\ \A u : u # user => Unread(e, u) = Unread(d, u)
    BY <2>2 DEF Put, Unread
  <2>5. \A u : u # user => listed(e, u) = listed(d, u)
    BY <2>3
  <2>6. listed(e, user) = listed(d, user) \cup {m.id}
    BY <2>1, <2>3
  <2>7. IsInjective(Append(ids, m.id)) /\ Range(Append(ids, m.id)) = Range(ids) \cup {m.id}
    <3>1. ids \in Seq(Id)
      BY DEF TypedDb, Unread
    <3>2. IsInjective(ids) /\ m.id \notin Range(ids)
      BY <2>1 DEF Indexed
    <3> HIDE DEF ids
    <3>3. /\ Len(ids) \in Nat
          /\ DOMAIN ids = 1 .. Len(ids)
          /\ DOMAIN Append(ids, m.id) = 1 .. Len(ids) + 1
          /\ Append(ids, m.id)[Len(ids) + 1] = m.id
          /\ \A i \in 1 .. Len(ids) : Append(ids, m.id)[i] = ids[i]
      BY <3>1
    <3> QED
      BY <3>2, <3>3 DEF IsInjective, Range
  <2>8. ASSUME NEW u \in DOMAIN e.accounts
        PROVE  IsInjective(Unread(e, u)) /\ Range(Unread(e, u)) = listed(e, u)
    <3>1. IsInjective(Unread(d, u)) /\ Range(Unread(d, u)) = listed(d, u)
      BY <2>2, <2>8 DEF Indexed
    <3> QED
      BY <2>4, <2>5, <2>6, <2>7, <3>1
  <2>9. Indexed(e)
    BY <2>1, <2>2, <2>4, <2>8 DEF Indexed
  <2> QED
    BY <2>2, <2>9 DEF e
<1>3. CASE m.kind = "MARK_AS_READ"
  BY <1>0, <1>3 DEF Does, Ready
<1>4. CASE m.kind = "DELETE_MESSAGES"
  BY <1>0, <1>4 DEF Does, Ready
<1>5. CASE m.kind = "DELETE_ACCOUNT"
  <2>1. /\ out.ok
        /\ e.accounts = Without(d.accounts, m.id)
        /\ e.chats = d.chats
        /\ e.unread = Without(d.unread, m.id)
    BY <1>0, <1>5 DEF Does
  <2> HIDE DEF e
  <2>2. /\ DOMAIN e.accounts = DOMAIN d.accounts \ {m.id}
        /\ DOMAIN e.unread = DOMAIN d.unread \ {m.id}
        /\ \A u \in DOMAIN e.accounts : Unread(e, u) = Unread(d, u)
    BY <2>1 DEF Without, Restrict, Unread
  <2>3. Indexed(e)
    BY <2>1, <2>2 DEF Indexed
  <2> QED
    BY <2>1, <2>3 DEF e
<1> QED
  BY <1>1, <1>2, <1>3, <1>4, <1>5, MessageFields

\* d differs from e by messages it lacks: a deletion that throws half-way leaves its
\* first half in memory and nothing in the file.
Smaller(d, e) ==
  /\ d.accounts = e.accounts
  /\ d.usernames = e.usernames
  /\ DOMAIN d.unread = DOMAIN e.unread
  /\ DOMAIN d.chats \subseteq DOMAIN e.chats
  /\ \A id \in DOMAIN d.chats : d.chats[id] = e.chats[id]

LEMMA EffectSmaller ==
  ASSUME NEW d, TypedDb(d), NEW e, TypedDb(e), Smaller(d, e), NEW m \in LogMessage,
         NEW small, small = Effect(d, m), NEW large, large = Effect(e, m), large.ok
  PROVE  small.ok => Smaller(small.db, large.db)
<1> SUFFICES ASSUME small.ok PROVE Smaller(small.db, large.db)
  OBVIOUS
<1>0. Does(d, m, small) /\ Does(e, m, large)
  BY EffectDoes
<1>1. CASE m.kind = "NEW_ACCOUNT"
  <2>1. /\ small.db.accounts = Put(d.accounts, m.id, m.username)
        /\ small.db.usernames = Put(d.usernames, m.username, m.id)
        /\ small.db.chats = d.chats
        /\ small.db.unread = d.unread
    BY <1>0, <1>1 DEF Does
  <2>2. /\ large.db.accounts = Put(e.accounts, m.id, m.username)
        /\ large.db.usernames = Put(e.usernames, m.username, m.id)
        /\ large.db.chats = e.chats
        /\ large.db.unread = e.unread
    BY <1>0, <1>1 DEF Does
  <2> QED
    BY <2>1, <2>2 DEF Smaller
<1>2. CASE m.kind = "NEW_CHAT_MESSAGE"
  <2>1. m.chat.read \in BOOLEAN
    BY <1>2, MessageFields DEF Chat
  <2>2. /\ small.db.accounts = d.accounts
        /\ small.db.usernames = d.usernames
        /\ small.db.chats = Put(d.chats, m.id, m.chat)
        /\ DOMAIN small.db.unread = IF m.chat.read THEN DOMAIN d.unread
                                    ELSE DOMAIN d.unread \cup {m.chat.recipient}
    BY <1>0, <1>2, <2>1 DEF Does, Put
  <2>3. /\ large.db.accounts = e.accounts
        /\ large.db.usernames = e.usernames
        /\ large.db.chats = Put(e.chats, m.id, m.chat)
        /\ DOMAIN large.db.unread = IF m.chat.read THEN DOMAIN e.unread
                                    ELSE DOMAIN e.unread \cup {m.chat.recipient}
    BY <1>0, <1>2, <2>1 DEF Does, Put
  <2> QED
    BY <2>2, <2>3 DEF Smaller, Put
<1>3. CASE m.kind = "MARK_AS_READ"
  <2>1. /\ small.db.accounts = d.accounts
        /\ small.db.usernames = d.usernames
        /\ DOMAIN small.db.chats = DOMAIN d.chats
        /\ DOMAIN small.db.unread = DOMAIN d.unread
        /\ \A id \in DOMAIN d.chats :
             small.db.chats[id] = IF id \in Range(m.ids)
                                    THEN [d.chats[id] EXCEPT !.read = TRUE]
                                    ELSE d.chats[id]
    BY <1>0, <1>3 DEF Does
  <2>2. /\ large.db.accounts = e.accounts
        /\ large.db.usernames = e.usernames
        /\ DOMAIN large.db.chats = DOMAIN e.chats
        /\ DOMAIN large.db.unread = DOMAIN e.unread
        /\ \A id \in DOMAIN e.chats :
             large.db.chats[id] = IF id \in Range(m.ids)
                                    THEN [e.chats[id] EXCEPT !.read = TRUE]
                                    ELSE e.chats[id]
    BY <1>0, <1>3 DEF Does
  <2>3. \A id \in DOMAIN d.chats : id \in DOMAIN e.chats /\ d.chats[id] = e.chats[id]
    BY DEF Smaller
  <2>4. \A id \in DOMAIN d.chats : small.db.chats[id] = large.db.chats[id]
    <3> TAKE id \in DOMAIN d.chats
    <3> DEFINE mark(chat) == IF id \in Range(m.ids) THEN [chat EXCEPT !.read = TRUE]
                                                    ELSE chat
    <3>1. small.db.chats[id] = mark(d.chats[id]) /\ large.db.chats[id] = mark(e.chats[id])
      BY <2>1, <2>2, <2>3
    <3> HIDE DEF mark
    <3> QED
      BY <2>3, <3>1
  <2> QED
    BY <2>1, <2>2, <2>4 DEF Smaller
<1>4. CASE m.kind = "DELETE_MESSAGES"
  <2>1. /\ small.db.accounts = d.accounts
        /\ small.db.usernames = d.usernames
        /\ DOMAIN small.db.chats = DOMAIN d.chats \ Range(m.ids)
        /\ \A id \in DOMAIN small.db.chats : small.db.chats[id] = d.chats[id]
        /\ DOMAIN small.db.unread = DOMAIN d.unread
    BY <1>0, <1>4 DEF Does
  <2>2. /\ large.db.accounts = e.accounts
        /\ large.db.usernames = e.usernames
        /\ DOMAIN large.db.chats = DOMAIN e.chats \ Range(m.ids)
        /\ \A id \in DOMAIN large.db.chats : large.db.chats[id] = e.chats[id]
        /\ DOMAIN large.db.unread = DOMAIN e.unread
    BY <1>0, <1>4 DEF Does
  <2> QED
    BY <2>1, <2>2 DEF Smaller
<1>5. CASE m.kind = "DELETE_ACCOUNT"
  <2>1. /\ small.db.accounts = Without(d.accounts, m.id)
        /\ small.db.usernames = d.usernames
        /\ small.db.chats = d.chats
        /\ DOMAIN small.db.unread = DOMAIN d.unread \ {m.id}
    BY <1>0, <1>5 DEF Does, Without, Restrict
  <2>2. /\ large.db.accounts = Without(e.accounts, m.id)
        /\ large.db.usernames = e.usernames
        /\ large.db.chats = e.chats
        /\ DOMAIN large.db.unread = DOMAIN e.unread \ {m.id}
    BY <1>0, <1>5 DEF Does, Without, Restrict
  <2> QED
    BY <2>1, <2>2 DEF Smaller
<1> QED
  BY <1>1, <1>2, <1>3, <1>4, <1>5, MessageFields

-----------------------------------------------------------------------------
\* One thread

\* One thread handles the calls, one after the other.
Alone == \E w : Worker = {w}

\* What a restart would bring.
File == Rebuilt(Self, disk)

LEMMA SavedOne ==
  ASSUME Typed, NEW m \in LogMessage, disk' = Append(disk, m)
  PROVE  \E n \in Nat :
           /\ n \notin DOMAIN disk /\ DOMAIN disk' = DOMAIN disk \cup {n}
           /\ disk'[n] = m
           /\ \A i \in DOMAIN disk : disk'[i] = disk[i]
           /\ File' = ReplayTurn(File, m)
<1> DEFINE n == Len(disk) + 1
<1>1. disk \in Seq(LogMessage)
  BY DEF Typed
<1>2. /\ DOMAIN disk = 1 .. Len(disk) /\ Len(disk) \in Nat
      /\ DOMAIN disk' = 1 .. n
      /\ disk'[n] = m
      /\ \A i \in 1 .. Len(disk) : disk'[i] = disk[i]
  BY <1>1
<1>3. n \in Nat /\ n \notin DOMAIN disk /\ DOMAIN disk' = DOMAIN disk \cup {n}
  BY <1>2
<1>4. File' = ReplayTurn(File, m)
  BY <1>1, RebuiltAppend DEF File
<1> QED
  BY <1>2, <1>3, <1>4

\* A username that is claimed remains claimed.
LEMMA EffectClaims ==
  ASSUME NEW d, TypedDb(d), NEW m \in LogMessage, NEW out, out = Effect(d, m)
  PROVE  /\ DOMAIN d.usernames \subseteq DOMAIN out.db.usernames
         /\ m.kind = "NEW_ACCOUNT" => m.username \in DOMAIN out.db.usernames
<1>1. Does(d, m, out)
  BY EffectDoes
<1>2. CASE m.kind = "NEW_ACCOUNT"
  <2>1. out.db.usernames = Put(d.usernames, m.username, m.id)
    BY <1>1, <1>2 DEF Does
  <2> QED
    BY <2>1 DEF Put
<1>3. CASE m.kind # "NEW_ACCOUNT"
  BY <1>1, <1>3, MessageFields DEF Does
<1> QED
  BY <1>2, <1>3

-----------------------------------------------------------------------------
\* Usernames

\* s knows every username on disk.
Claimed(s) ==
  \A i \in DOMAIN disk :
    disk[i].kind = "NEW_ACCOUNT" => disk[i].username \in DOMAIN s.db.usernames

\* A username that a thread is about to register is on disk under no account, and in
\* memory once it has been replayed.
Registers(t) ==
  t.message.kind = "NEW_ACCOUNT" =>
    /\ t.pc \in { "numbering", "dispatch", "saving" } =>
         \A i \in DOMAIN disk :
           disk[i].kind = "NEW_ACCOUNT" => disk[i].username # t.message.username
    /\ t.pc = "saving" => t.message.username \in DOMAIN memory.db.usernames

Named ==
  /\ UsernamesUnique
  /\ ~ File.thrown => Claimed(File)
  /\ up => Claimed(memory)
  /\ \A w \in Worker : Registers(thread[w])

LEMMA NamedInit == Init => Named
<1> SUFFICES ASSUME Init PROVE Named
  OBVIOUS
<1>1. FirstTurn(0, Len(Members), File)
  BY FirstFile DEF File
<1>2. Members \in Seq(Username) /\ IsInjective(Members)
  BY ServerAssumption DEF ServerAssumption
<1>3. DOMAIN Members = 1 .. Len(Members)
  BY <1>2, LenProperties
<1>4. /\ DOMAIN disk = 1 .. Len(Members)
      /\ \A i \in 1 .. Len(Members) : disk[i].username = Members[i]
  BY <1>3 DEF Init, NewAccount
<1>5. UsernamesUnique
  BY <1>2, <1>3, <1>4 DEF UsernamesUnique, Creations, IsInjective
<1>6. Claimed(File)
  BY <1>1, <1>4 DEF Claimed, FirstTurn
<1>7. ~ up /\ \A w \in Worker : thread[w].pc = "idle"
  BY IdleIs DEF Init
<1> QED
  BY <1>5, <1>6, <1>7 DEF Named, Registers

\* A step that leaves the file alone.
LEMMA NamedKept ==
  ASSUME Named, UNCHANGED disk, up' => Claimed(memory)', NEW w \in Worker,
         NEW next, thread' = [thread EXCEPT ![w] = next], Registers(next)',
         Typed, Alone
  PROVE  Named'
<1>1. UsernamesUnique' /\ (~ File.thrown => Claimed(File))'
  BY DEF Named, UsernamesUnique, Creations, Claimed, File
<1>2. thread'[w] = next
  BY ThreadAfter
<1>3. \A v \in Worker : v = w
  BY DEF Alone
<1> QED
  BY <1>1, <1>2, <1>3 DEF Named

LEMMA NamedCall ==
  ASSUME Alone, Typed, Exclusive, Named, NEW w \in Worker,
         \/ CreateAccountCall(w)
         \/ SendMessageCall(w)
         \/ RequestMessagesCall(w)
         \/ DeleteMessagesCall(w)
         \/ DeleteAccountCall(w)
  PROVE  Named'
<1>1. ASSUME NEW op, NEW pc \in { "numbering", "dispatch" }, NEW m, NEW batch,
             TakesCall(w, op, At(pc, m, batch)),
             m.kind = "NEW_ACCOUNT" => ~ AccountExists(db, m.username)
      PROVE  Named'
  <2> DEFINE next == At(pc, m, batch)
  <2>1. next.pc = pc /\ next.message = m
    BY AtFields
  <2> HIDE DEF next
  <2>2. /\ thread' = [thread EXCEPT ![w] = next]
        /\ up /\ UNCHANGED << up, memory, disk >>
    BY <1>1 DEF TakesCall, next
  <2>3. Claimed(memory) /\ Claimed(memory)'
    BY <2>2 DEF Named, Claimed
  <2>4. Registers(next)'
    BY <1>1, <2>1, <2>2, <2>3 DEF Registers, Claimed, AccountExists, db
  <2> QED
    BY <2>2, <2>3, <2>4, NamedKept
<1>2. CASE CreateAccountCall(w)
  <2>1. PICK u \in Username :
          /\ ~ AccountExists(db, u)
          /\ TakesCall(w, "createAccount", At("numbering", NewAccount(None, u), {}))
    BY <1>2 DEF CreateAccountCall
  <2>2. NewAccount(None, u).username = u
    BY DEF NewAccount
  <2> QED
    BY <1>1, <2>1, <2>2
<1>3. CASE SendMessageCall(w)
  <2>1. PICK chat : TakesCall(w, "sendMessage",
                              At("numbering", NewChatMessage(None, chat), {}))
    BY <1>3 DEF SendMessageCall
  <2>2. NewChatMessage(None, chat).kind = "NEW_CHAT_MESSAGE"
    BY DEF NewChatMessage
  <2> QED
    BY <1>1, <2>1, <2>2
<1>4. CASE RequestMessagesCall(w)
  <2>1. PICK ids, batch : TakesCall(w, "requestMessages",
                                    At("dispatch", MarkAsRead(ids), batch))
    BY <1>4 DEF RequestMessagesCall
  <2>2. MarkAsRead(ids).kind = "MARK_AS_READ"
    BY DEF MarkAsRead
  <2> QED
    BY <1>1, <2>1, <2>2
<1>5. CASE DeleteMessagesCall(w)
  <2>1. PICK ids : TakesCall(w, "deleteMessages", At("dispatch", DeleteMessages(ids), {}))
    BY <1>5 DEF DeleteMessagesCall
  <2>2. DeleteMessages(ids).kind = "DELETE_MESSAGES"
    BY DEF DeleteMessages
  <2> QED
    BY <1>1, <2>1, <2>2
<1>6. CASE DeleteAccountCall(w)
  <2>1. PICK id : TakesCall(w, "deleteAccount", At("dispatch", DeletedAccount(id), {}))
    BY <1>6 DEF DeleteAccountCall
  <2>2. DeletedAccount(id).kind = "DELETE_ACCOUNT"
    BY DEF DeletedAccount
  <2> QED
    BY <1>1, <2>1, <2>2
<1> QED
  BY <1>2, <1>3, <1>4, <1>5, <1>6

LEMMA NamedTakeId ==
  ASSUME Alone, Typed, Exclusive, Named, NEW w \in Worker, TakeId(w)
  PROVE  Named'
<1> DEFINE m == thread[w].message
           n == IF m.kind = "NEW_ACCOUNT" THEN memory.nextAccount ELSE memory.nextMessage
           numbered == [m EXCEPT !.id = << Self, n >>]
<1>1. thread[w].pc = "numbering" /\ m \in Draft
  BY DEF TakeId, Typed, Handles
<1> HIDE DEF n
<1>2. /\ numbered.kind = m.kind
      /\ m.kind = "NEW_ACCOUNT" => numbered.username = m.username
  BY <1>1 DEF Draft
<1>3. PICK next : next = At("dispatch", numbered, {})
  OBVIOUS
<1>4. /\ next.pc = "dispatch" /\ next.message = numbered
      /\ thread' = [thread EXCEPT ![w] = next]
  BY <1>3, AtFields DEF TakeId, n
<1>5. memory'.db = memory.db
  <2>1. \/ memory' = [memory EXCEPT !.nextAccount = n + 1]
        \/ memory' = [memory EXCEPT !.nextMessage = n + 1]
    BY DEF TakeId, n
  <2> QED
    BY <2>1 DEF Typed, TypedState, State
<1>6. UNCHANGED << up, disk >>
  BY DEF TakeId
<1>7. up' => Claimed(memory)'
  BY <1>5, <1>6 DEF Named, Claimed
<1> HIDE DEF numbered
<1>8. Registers(thread[w])
  BY DEF Named
<1>9. Registers(next)'
  BY <1>1, <1>2, <1>4, <1>6, <1>8 DEF Registers
<1> QED
  BY <1>4, <1>6, <1>7, <1>9, NamedKept

LEMMA NamedDispatch ==
  ASSUME Alone, Typed, Exclusive, Named, NEW w \in Worker, Dispatch(w)
  PROVE  Named'
<1> DEFINE m == thread[w].message
           out == Effect(memory.db, m)
<1>1. thread[w].pc = "dispatch" /\ m \in LogMessage
  BY DEF Dispatch, Typed, Handles
<1>2. up /\ UNCHANGED << up, disk >>
  BY <1>1, IdleIs DEF Exclusive, Dispatch
<1>3. memory'.db = out.db
  <2>1. memory' = Replay(Self, memory, m)
    BY DEF Dispatch
  <2> QED
    BY <2>1, ReplayIs
<1>4. TypedDb(memory.db)
  BY DEF Typed, TypedState
<1>5. /\ DOMAIN memory.db.usernames \subseteq DOMAIN memory'.db.usernames
      /\ m.kind = "NEW_ACCOUNT" => m.username \in DOMAIN memory'.db.usernames
  BY <1>1, <1>3, <1>4, EffectClaims
<1>6. Claimed(memory)'
  BY <1>2, <1>5 DEF Named, Claimed
<1>7. PICK next : next = IF memory'.thrown THEN Idle ELSE [thread[w] EXCEPT !.pc = "saving"]
  OBVIOUS
<1>8. /\ thread' = [thread EXCEPT ![w] = next]
      /\ next = Idle \/ (next.pc = "saving" /\ next.message = m)
  BY <1>7 DEF Dispatch, Typed
<1>9. Registers(thread[w])
  BY DEF Named
<1>10. Registers(next)'
  BY <1>1, <1>2, <1>5, <1>8, <1>9, IdleIs DEF Registers
<1> QED
  BY <1>2, <1>6, <1>8, <1>10, NamedKept

LEMMA NamedSave ==
  ASSUME Alone, Typed, Exclusive, Named, NEW w \in Worker, Save(w)
  PROVE  Named'
<1> DEFINE m == thread[w].message
           next == [thread[w] EXCEPT !.pc = "answering"]
           out == Effect(File.db, m)
<1>1. thread[w].pc = "saving" /\ m \in LogMessage
  BY DEF Save, Typed, Handles
<1>2. disk' = Append(disk, m) /\ UNCHANGED << up, memory >>
  BY DEF Save
<1>3. PICK n \in Nat :
        /\ n \notin DOMAIN disk /\ DOMAIN disk' = DOMAIN disk \cup {n}
        /\ disk'[n] = m
        /\ \A i \in DOMAIN disk : disk'[i] = disk[i]
        /\ File' = ReplayTurn(File, m)
  BY <1>1, <1>2, SavedOne
<1>4. Registers(thread[w])
  BY DEF Named
<1> HIDE DEF m
<1>5. m.kind = "NEW_ACCOUNT" =>
        \A i \in Creations("NEW_ACCOUNT") : disk[i].username # m.username
  BY <1>1, <1>4 DEF Registers, Creations, m
<1>6. UsernamesUnique'
  <2>1. Creations("NEW_ACCOUNT")' \subseteq Creations("NEW_ACCOUNT") \cup {n}
    BY <1>3 DEF Creations
  <2>2. n \in Creations("NEW_ACCOUNT")' => m.kind = "NEW_ACCOUNT"
    BY <1>3 DEF Creations
  <2>3. Creations("NEW_ACCOUNT") \subseteq DOMAIN disk
    BY DEF Creations
  <2> QED
    BY <1>3, <1>5, <2>1, <2>2, <2>3 DEF Named, UsernamesUnique
<1>7. m.kind = "NEW_ACCOUNT" => m.username \in DOMAIN memory.db.usernames
  BY <1>1, <1>4 DEF Registers, m
<1>8. up' => Claimed(memory)'
  BY <1>2, <1>3, <1>7 DEF Named, Claimed
<1>9. ASSUME ~ File'.thrown PROVE Claimed(File)'
  <2>1. ~ File.thrown /\ File' = Replay(Self, File, m)
    <3>1. File.thrown => File' = File
      BY <1>3 DEF ReplayTurn
    <3> QED
      BY <1>3, <1>9, <3>1 DEF ReplayTurn
  <2>2. TypedDb(File.db)
    BY RebuiltTyped DEF Typed, File, TypedState
  <2>3. File'.db = out.db
    BY <2>1, ReplayIs
  <2>4. /\ DOMAIN File.db.usernames \subseteq DOMAIN File'.db.usernames
        /\ m.kind = "NEW_ACCOUNT" => m.username \in DOMAIN File'.db.usernames
    BY <1>1, <2>2, <2>3, EffectClaims DEF m
  <2>5. Claimed(File)
    BY <2>1 DEF Named
  <2> HIDE DEF out
  <2>6. \A i \in DOMAIN disk' : disk'[i].kind = "NEW_ACCOUNT" =>
          disk'[i].username \in DOMAIN File'.db.usernames
    BY <1>3, <2>4, <2>5 DEF Claimed
  <2> QED
    BY <2>6 DEF Claimed
<1>10. next.pc = "answering"
  BY DEF Typed
<1>11. thread' = [thread EXCEPT ![w] = next]
  BY DEF Save
<1> HIDE DEF next
<1>12. thread'[w] = next /\ \A v \in Worker : v = w
  BY <1>11, ThreadAfter DEF Alone
<1>13. \A v \in Worker : Registers(thread[v])'
  BY <1>10, <1>12 DEF Registers
<1> QED
  BY <1>6, <1>8, <1>9, <1>13 DEF Named

LEMMA NamedEnd ==
  ASSUME Alone, Typed, Exclusive, Named, NEW w \in Worker, SaveFails(w) \/ Answer(w)
  PROVE  Named'
<1>1. thread' = [thread EXCEPT ![w] = Idle] /\ UNCHANGED << up, memory, disk >>
  BY DEF SaveFails, Answer
<1>2. up' => Claimed(memory)'
  BY <1>1 DEF Named, Claimed
<1>3. Registers(Idle)'
  BY IdleIs DEF Registers
<1> QED
  BY <1>1, <1>2, <1>3, NamedKept

LEMMA NamedProcess ==
  ASSUME Alone, Typed, Exclusive, Named, Login \/ Crash \/ Start \/ UNCHANGED vars
  PROVE  Named'
<1>1. UNCHANGED disk
  BY DEF Login, Crash, Start, vars
<1>2. UsernamesUnique' /\ (~ File.thrown => Claimed(File))'
  BY <1>1 DEF Named, UsernamesUnique, Creations, Claimed, File
<1>3. CASE Login \/ UNCHANGED vars
  <2>1. UNCHANGED << up, memory, thread >>
    BY <1>3 DEF Login, vars
  <2> QED
    BY <1>1, <1>2, <2>1 DEF Named, Claimed, Registers
<1>4. CASE Crash \/ Start
  <2>1. \A w \in Worker : thread'[w].pc = "idle"
    BY <1>4, IdleIs DEF Crash, Start, Exclusive
  <2>2. \A w \in Worker : Registers(thread[w])'
    BY <2>1 DEF Registers
  <2>3. up' => Claimed(memory)'
    <3>1. up' => memory' = File /\ ~ File.thrown
      BY <1>4 DEF Crash, Start, File
    <3> QED
      BY <1>1, <3>1 DEF Named, Claimed
  <2> QED
    BY <1>2, <2>2, <2>3 DEF Named
<1> QED
  BY <1>3, <1>4

\* A server that handles its calls one after the other gives no username twice,
\* whatever is lost in crashes, whatever could not be written and whatever has been
\* deleted since (Database.deleteAccount, Database.java: "The username remains claimed").
THEOREM UsernamesUniqueHolds ==
  ASSUME Alone
  PROVE  Spec => []UsernamesUnique
<1>1. TypeInv /\ Named /\ [Next]_vars => Named'
  <2> SUFFICES ASSUME TypeInv, Named, [Next]_vars PROVE Named'
    OBVIOUS
  <2>1. Typed /\ Exclusive
    BY DEF TypeInv
  <2>2. CASE Login \/ Crash \/ Start \/ UNCHANGED vars
    BY <2>1, <2>2, NamedProcess
  <2>3. ASSUME NEW w \in Worker, Handle(w) PROVE Named'
    <3>1. CASE \/ CreateAccountCall(w)
               \/ SendMessageCall(w)
               \/ RequestMessagesCall(w)
               \/ DeleteMessagesCall(w)
               \/ DeleteAccountCall(w)
      BY <2>1, <3>1, NamedCall
    <3>2. CASE TakeId(w)
      BY <2>1, <3>2, NamedTakeId
    <3>3. CASE Dispatch(w)
      BY <2>1, <3>3, NamedDispatch
    <3>4. CASE Save(w)
      BY <2>1, <3>4, NamedSave
    <3>5. CASE SaveFails(w) \/ Answer(w)
      BY <2>1, <3>5, NamedEnd
    <3> QED
      BY <2>3, <3>1, <3>2, <3>3, <3>4, <3>5 DEF Handle
  <2> QED
    BY <2>2, <2>3 DEF Next
<1>2. Named => UsernamesUnique
  BY DEF Named
<1> QED
  BY <1>1, <1>2, NamedInit, TypeInvInvariant, PTL DEF Spec

-----------------------------------------------------------------------------
\* Memory and file

\* The counters are beyond every id that is in use.
Bounded(s) ==
  /\ \A id \in DOMAIN s.db.accounts : id \in Id /\ id[2] < s.nextAccount
  /\ \A id \in DOMAIN s.db.chats :
       id[2] < s.nextMessage /\ s.db.chats[id].recipient[2] < s.nextAccount

Sound(s) == ~ s.thrown /\ Indexed(s.db) /\ Bounded(s)

\* m has the next id.
Numbered(s, m) ==
  /\ m.kind = "NEW_ACCOUNT" => m.id = << Self, s.nextAccount >>
  /\ m.kind = "NEW_CHAT_MESSAGE" => m.id = << Self, s.nextMessage >>

\* What the checks of a call have found, which is still so when it is dispatched.
Offered(d, m) ==
  /\ m.kind = "NEW_CHAT_MESSAGE" =>
       ~ m.chat.read /\ m.chat.recipient \in DOMAIN d.accounts
  /\ m.kind = "MARK_AS_READ" =>
       \A id \in Range(m.ids) :
         id \in DOMAIN d.chats /\ d.chats[id].recipient \in DOMAIN d.unread
  /\ m.kind = "DELETE_MESSAGES" => Range(m.ids) \subseteq DOMAIN d.chats

One(condition) == IF condition THEN 1 ELSE 0

LEMMA NumberedReady ==
  ASSUME NEW s, TypedState(s), Sound(s), NEW m \in LogMessage, Numbered(s, m)
  PROVE  /\ m.kind = "NEW_ACCOUNT" => Ready(s.db, m)
         /\ m.kind = "NEW_CHAT_MESSAGE" /\ Offered(s.db, m) => Ready(s.db, m)
<1>1. /\ s.nextAccount \in Nat /\ s.nextMessage \in Nat
      /\ DOMAIN s.db.chats \subseteq Id
      /\ \A id \in DOMAIN s.db.chats : s.db.chats[id].recipient \in Id
  BY DEF TypedState, TypedDb, Chat
<1>2. \A id \in Id : id[2] \in Nat
  BY DEF Id
<1>3. /\ << Self, s.nextAccount >> \notin DOMAIN s.db.accounts
      /\ \A id \in DOMAIN s.db.chats : s.db.chats[id].recipient # << Self, s.nextAccount >>
      /\ << Self, s.nextMessage >> \notin DOMAIN s.db.chats
  BY <1>1, <1>2 DEF Sound, Bounded
<1> QED
  BY <1>3 DEF Numbered, Offered, Ready

\* Replaying the next message.
LEMMA ReplaySound ==
  ASSUME NEW s, TypedState(s), Sound(s), NEW m \in LogMessage, Numbered(s, m),
         Ready(s.db, m), NEW r, r = Replay(Self, s, m)
  PROVE  /\ Sound(r)
         /\ r.db = Effect(s.db, m).db
         /\ r.nextAccount = s.nextAccount + One(m.kind = "NEW_ACCOUNT")
         /\ r.nextMessage = s.nextMessage + One(m.kind = "NEW_CHAT_MESSAGE")
<1> DEFINE d == s.db
           out == Effect(d, m)
           e == out.db
<1>1. TypedDb(d) /\ Indexed(d)
  BY DEF TypedState, Sound
<1>2. /\ r.db = e
      /\ r.nextAccount = IF m.kind = "NEW_ACCOUNT"
                           THEN NextAfter(Self, s.nextAccount, m) ELSE s.nextAccount
      /\ r.nextMessage = IF m.kind = "NEW_CHAT_MESSAGE"
                           THEN NextAfter(Self, s.nextMessage, m) ELSE s.nextMessage
      /\ r.thrown <=> ~ out.ok
  BY ReplayIs
<1>3. out.ok /\ Indexed(e)
  BY <1>1, EffectReady
<1>4. Does(d, m, out) /\ TypedDb(e)
  BY <1>1, EffectDoes, EffectTyped
<1>5. /\ s.nextAccount \in Nat /\ s.nextMessage \in Nat
      /\ DOMAIN d.chats \subseteq Id
      /\ \A id \in DOMAIN d.chats : d.chats[id] \in Chat
  BY DEF TypedState, TypedDb
<1>6. \A id \in Id : id[2] \in Nat
  BY DEF Id
<1>7. /\ \A id \in DOMAIN d.accounts : id \in Id /\ id[2] < s.nextAccount
      /\ \A id \in DOMAIN d.chats :
           id[2] < s.nextMessage /\ d.chats[id].recipient[2] < s.nextAccount
  BY DEF Sound, Bounded
<1>8. /\ r.nextAccount = s.nextAccount + One(m.kind = "NEW_ACCOUNT")
      /\ r.nextMessage = s.nextMessage + One(m.kind = "NEW_CHAT_MESSAGE")
  <2>1. m.orig = Self
    BY MessageFields
  <2>2. /\ m.kind = "NEW_ACCOUNT" => m.id[2] = s.nextAccount
        /\ m.kind = "NEW_CHAT_MESSAGE" => m.id[2] = s.nextMessage
    BY DEF Numbered
  <2> QED
    BY <1>2, <1>5, <2>1, <2>2 DEF NextAfter, One
<1> HIDE DEF out
<1>9. \A id \in DOMAIN e.accounts : id \in Id /\ id[2] < r.nextAccount
  <2>1. CASE m.kind = "NEW_ACCOUNT"
    <3>1. DOMAIN e.accounts = DOMAIN d.accounts \cup {m.id} /\ m.id \in Id
      BY <1>4, <2>1, MessageFields DEF Does, Put
    <3>2. m.id[2] = s.nextAccount /\ r.nextAccount = s.nextAccount + 1
      BY <1>8, <2>1 DEF Numbered, One
    <3> QED
      BY <1>5, <1>6, <1>7, <3>1, <3>2
  <2>2. CASE m.kind # "NEW_ACCOUNT"
    <3>1. DOMAIN e.accounts \subseteq DOMAIN d.accounts
      BY <1>4, <2>2, MessageFields DEF Does, Without, Restrict
    <3>2. r.nextAccount = s.nextAccount
      BY <1>5, <1>8, <2>2 DEF One
    <3> QED
      BY <1>7, <3>1, <3>2
  <2> QED
    BY <2>1, <2>2
<1>10. \A id \in DOMAIN e.chats :
         id[2] < r.nextMessage /\ e.chats[id].recipient[2] < r.nextAccount
  <2>1. CASE m.kind = "NEW_CHAT_MESSAGE"
    <3>1. /\ DOMAIN e.chats = DOMAIN d.chats \cup {m.id}
          /\ e.chats[m.id] = m.chat
          /\ \A id \in DOMAIN d.chats : id # m.id => e.chats[id] = d.chats[id]
      BY <1>4, <2>1 DEF Does, Put
    <3>2. /\ m.id[2] = s.nextMessage /\ r.nextMessage = s.nextMessage + 1
          /\ r.nextAccount = s.nextAccount
      BY <1>5, <1>8, <2>1 DEF Numbered, One
    <3>3. m.chat.recipient \in DOMAIN d.accounts
      BY <2>1 DEF Ready
    <3>4. \A id \in DOMAIN d.chats : id \in Id
      BY <1>5
    <3> QED
      BY <1>5, <1>6, <1>7, <3>1, <3>2, <3>3, <3>4
  <2>2. CASE m.kind # "NEW_CHAT_MESSAGE"
    <3>1. \A id \in DOMAIN e.chats : id \in DOMAIN d.chats
      BY <1>4, <2>2, MessageFields DEF Does
    <3>2. \A id \in DOMAIN e.chats : e.chats[id].recipient = d.chats[id].recipient
      <4>1. CASE m.kind = "MARK_AS_READ"
        <5>1. \A id \in DOMAIN d.chats :
                \/ e.chats[id] = d.chats[id]
                \/ e.chats[id] = [d.chats[id] EXCEPT !.read = TRUE]
          BY <1>3, <1>4, <4>1 DEF Does
        <5> QED
          BY <1>5, <3>1, <5>1, ReadIsChat
      <4>2. CASE m.kind # "MARK_AS_READ"
        BY <1>4, <2>2, <4>2, MessageFields DEF Does
      <4> QED
        BY <4>1, <4>2
    <3>3. /\ r.nextMessage = s.nextMessage
          /\ s.nextAccount <= r.nextAccount /\ r.nextAccount \in Nat
      BY <1>5, <1>8, <2>2 DEF One
    <3>4. \A id \in DOMAIN d.chats : d.chats[id].recipient[2] \in Nat
      BY <1>5, <1>6 DEF Chat
    <3> QED
      BY <1>5, <1>7, <3>1, <3>2, <3>3, <3>4
  <2> QED
    BY <2>1, <2>2
<1> QED
  BY <1>2, <1>3, <1>8, <1>9, <1>10 DEF Sound, Bounded, out

\* Where memory is, relative to the file, while t handles its call.
Follows(t) ==
  /\ t.pc # "saving" => Smaller(memory.db, File.db)
  /\ t.pc = "saving" =>
       /\ Ready(File.db, t.message)
       /\ Smaller(memory.db, Effect(File.db, t.message).db)
  /\ memory.nextAccount =
       File.nextAccount + One(/\ t.pc \in { "dispatch", "saving" }
                              /\ t.message.kind = "NEW_ACCOUNT")
  /\ memory.nextMessage =
       File.nextMessage + One(/\ t.pc \in { "dispatch", "saving" }
                              /\ t.message.kind = "NEW_CHAT_MESSAGE")
  /\ t.pc \in { "dispatch", "saving" } => Numbered(File, t.message)
  /\ t.pc \in { "numbering", "dispatch" } => Offered(memory.db, t.message)

\* The counters of the file are beyond every id on disk.
Below ==
  \A i \in DOMAIN disk :
    /\ disk[i].kind = "NEW_ACCOUNT" => disk[i].id[2] < File.nextAccount
    /\ disk[i].kind = "NEW_CHAT_MESSAGE" => disk[i].id[2] < File.nextMessage

\* The inductive invariant for one thread, as long as no write fails.
Track ==
  failed = 0 =>
    /\ Sound(File)
    /\ Below
    /\ IdsUnique
    /\ Indexed(memory.db)
    /\ up => \A w \in Worker : Follows(thread[w])

LEMMA SmallerSelf == \A d : Smaller(d, d)
BY DEF Smaller

LEMMA FreshIndexed == Indexed(Fresh.db)
<1>1. DOMAIN << >> = {}
  OBVIOUS
<1> QED
  BY <1>1 DEF Fresh, EmptyDatabase, Indexed

LEMMA TrackInit == Init => Track
<1> SUFFICES ASSUME Init PROVE Track
  OBVIOUS
<1>1. FirstTurn(0, Len(Members), File)
  BY FirstFile DEF File
<1>2. Members \in Seq(Username) /\ Len(Members) \in Nat
  BY ServerAssumption, LenProperties DEF ServerAssumption
<1>3. DOMAIN Members = 1 .. Len(Members)
  BY <1>2, LenProperties
<1>4. /\ DOMAIN disk = 1 .. Len(Members)
      /\ \A i \in 1 .. Len(Members) :
           disk[i].id = << Self, i >> /\ disk[i].kind = "NEW_ACCOUNT"
  BY <1>3 DEF Init, NewAccount
<1>5. Below
  BY <1>1, <1>2, <1>4 DEF Below, FirstTurn
<1>6. IdsUnique
  BY <1>4 DEF IdsUnique, Creations
<1>7. Sound(File)
  <2>1. /\ ~ File.thrown
        /\ DOMAIN File.db.chats = {} /\ DOMAIN File.db.unread = {}
        /\ \A id \in DOMAIN File.db.accounts : id \in Id /\ id[2] < File.nextAccount
    BY <1>1 DEF FirstTurn
  <2>2. \A u : Unread(File.db, u) = << >>
    BY <2>1 DEF Unread
  <2>3. DOMAIN << >> = {}
    OBVIOUS
  <2>4. Indexed(File.db)
    BY <2>1, <2>2, <2>3 DEF Indexed, IsInjective, Range
  <2> QED
    BY <2>1, <2>4 DEF Sound, Bounded
<1>8. ~ up /\ Indexed(memory.db)
  BY FreshIndexed DEF Init
<1> QED
  BY <1>5, <1>6, <1>7, <1>8 DEF Track

\* A step that leaves the file alone.
LEMMA TrackKept ==
  ASSUME Alone, Typed, Track, UNCHANGED << disk, failed >>, NEW w \in Worker,
         NEW next, thread' = [thread EXCEPT ![w] = next],
         failed = 0 => Indexed(memory.db)', failed = 0 => Follows(next)'
  PROVE  Track'
<1>1. failed = 0 => Sound(File)' /\ Below' /\ IdsUnique'
  BY DEF Track, File, Below, IdsUnique, Creations, Sound, Bounded
<1>2. thread'[w] = next
  BY ThreadAfter
<1>3. \A v \in Worker : v = w
  BY DEF Alone
<1> QED
  BY <1>1, <1>2, <1>3 DEF Track

\* What RequestMessages reads for a page.
LEMMA PageOffered ==
  ASSUME NEW d, TypedDb(d), Indexed(d), NEW user
  PROVE  \A id \in Range(FirstUnread(d, user, PageSize)) :
           /\ id \in DOMAIN d.chats
           /\ ~ d.chats[id].read
           /\ d.chats[id].recipient = user
           /\ user \in DOMAIN d.unread
<1> DEFINE page == FirstUnread(d, user, PageSize)
           ids == Unread(d, user)
<1>1. /\ page \in Seq(Id) /\ ids \in Seq(Id)
      /\ Len(page) <= Len(ids)
      /\ \A j \in 1 .. Len(page) : page[j] = ids[j]
  BY FirstUnreadIs
<1> HIDE DEF page, ids
<1>2. /\ Len(page) \in Nat /\ DOMAIN page = 1 .. Len(page)
      /\ Len(ids) \in Nat /\ DOMAIN ids = 1 .. Len(ids)
  BY <1>1, LenProperties
<1>3. Range(page) \subseteq Range(ids)
  <2>1. \A j \in 1 .. Len(page) : j \in 1 .. Len(ids)
    BY <1>1, <1>2
  <2> QED
    BY <1>1, <1>2, <2>1 DEF Range
<1>4. Range(ids) # {} => user \in DOMAIN d.unread
  <2>1. DOMAIN << >> = {}
    OBVIOUS
  <2> QED
    BY <2>1 DEF Unread, Range, ids
<1>5. Range(ids) # {} => user \in DOMAIN d.accounts
  BY <1>4 DEF Indexed
<1>6. \A id \in Range(ids) :
        id \in DOMAIN d.chats /\ ~ d.chats[id].read /\ d.chats[id].recipient = user
  BY <1>5 DEF Indexed, ids
<1> QED
  BY <1>3, <1>4, <1>6 DEF page

LEMMA TrackCall ==
  ASSUME Alone, Typed, Exclusive, Track, NEW w \in Worker,
         \/ CreateAccountCall(w)
         \/ SendMessageCall(w)
         \/ RequestMessagesCall(w)
         \/ DeleteMessagesCall(w)
         \/ DeleteAccountCall(w)
  PROVE  Track'
<1>1. ASSUME NEW op, NEW pc \in { "numbering", "dispatch" }, NEW m, NEW batch,
             TakesCall(w, op, At(pc, m, batch)),
             pc = "dispatch" => m.kind \notin { "NEW_ACCOUNT", "NEW_CHAT_MESSAGE" },
             failed = 0 => Offered(db, m)
      PROVE  Track'
  <2>1. PICK next : next = At(pc, m, batch)
    OBVIOUS
  <2>2. next.pc = pc /\ next.message = m
    BY <2>1, AtFields
  <2>3. /\ thread' = [thread EXCEPT ![w] = next] /\ thread[w] = Idle
        /\ up /\ UNCHANGED << up, memory, disk, failed >>
    BY <1>1, <2>1 DEF TakesCall, faults
  <2>4. File' = File
    BY <2>3 DEF File
  <2>5. failed = 0 => Follows(thread[w]) /\ Indexed(memory.db)
    BY <2>3 DEF Track
  <2>6. thread[w].pc = "idle"
    BY <2>3, IdleIs
  <2>7. failed = 0 => Follows(next)'
    BY <1>1, <2>2, <2>3, <2>4, <2>5, <2>6 DEF Follows, One, Numbered, db
  <2>8. failed = 0 => Indexed(memory.db)'
    BY <2>3, <2>5
  <2> QED
    BY <2>3, <2>7, <2>8, TrackKept
<1>2. CASE CreateAccountCall(w)
  <2>1. PICK u \in Username :
          TakesCall(w, "createAccount", At("numbering", NewAccount(None, u), {}))
    BY <1>2 DEF CreateAccountCall
  <2>2. Offered(db, NewAccount(None, u))
    BY DEF NewAccount, Offered
  <2> QED
    BY <1>1, <2>1, <2>2
<1>3. CASE SendMessageCall(w)
  <2>1. PICK sender \in sessions, u \in Username :
          /\ HasAccount(db, u)
          /\ TakesCall(w, "sendMessage",
               At("numbering",
                  NewChatMessage(None, [ sender |-> sender,
                                         recipient |-> db.usernames[u],
                                         read |-> FALSE, number |-> calls + 1 ]), {}))
    BY <1>3 DEF SendMessageCall
  <2>2. PICK chat : chat = [ sender |-> sender, recipient |-> db.usernames[u],
                             read |-> FALSE, number |-> calls + 1 ]
    OBVIOUS
  <2>3. ~ chat.read /\ chat.recipient \in DOMAIN db.accounts
    BY <2>1, <2>2 DEF HasAccount
  <2>4. Offered(db, NewChatMessage(None, chat))
    BY <2>3 DEF NewChatMessage, Offered
  <2> QED
    BY <1>1, <2>1, <2>2, <2>4
<1>4. CASE RequestMessagesCall(w)
  <2>1. PICK user \in sessions :
          LET ids == FirstUnread(db, user, PageSize) IN
            TakesCall(w, "requestMessages",
               At("dispatch", MarkAsRead(ids),
                  { db.chats[id].number : id \in Range(ids) }))
    BY <1>4 DEF RequestMessagesCall
  <2>2. PICK ids : ids = FirstUnread(db, user, PageSize)
    OBVIOUS
  <2>3. up /\ TypedDb(db)
    BY <2>1 DEF TakesCall, Typed, TypedState, db
  <2>4. failed = 0 => Indexed(db)
    BY <2>3 DEF Track, db
  <2>5. failed = 0 => Offered(db, MarkAsRead(ids))
    BY <2>2, <2>3, <2>4, PageOffered DEF MarkAsRead, Offered
  <2>6. MarkAsRead(ids).kind \notin { "NEW_ACCOUNT", "NEW_CHAT_MESSAGE" }
    BY DEF MarkAsRead
  <2>7. PICK batch : batch = { db.chats[id].number : id \in Range(ids) }
    OBVIOUS
  <2>8. TakesCall(w, "requestMessages", At("dispatch", MarkAsRead(ids), batch))
    BY <2>1, <2>2, <2>7
  <2> QED
    BY <1>1, <2>5, <2>6, <2>8
<1>5. CASE DeleteMessagesCall(w)
  <2>1. PICK ids \in SeqOf(DOMAIN db.chats, 2) :
          TakesCall(w, "deleteMessages", At("dispatch", DeleteMessages(ids), {}))
    BY <1>5 DEF DeleteMessagesCall
  <2>2. ids \in Seq(DOMAIN db.chats)
    BY ShortSeq
  <2>3. Range(ids) \subseteq DOMAIN db.chats
    BY <2>2 DEF Range
  <2>4. /\ Offered(db, DeleteMessages(ids))
        /\ DeleteMessages(ids).kind \notin { "NEW_ACCOUNT", "NEW_CHAT_MESSAGE" }
    BY <2>3 DEF DeleteMessages, Offered
  <2> QED
    BY <1>1, <2>1, <2>4
<1>6. CASE DeleteAccountCall(w)
  <2>1. PICK id : TakesCall(w, "deleteAccount", At("dispatch", DeletedAccount(id), {}))
    BY <1>6 DEF DeleteAccountCall
  <2>2. /\ Offered(db, DeletedAccount(id))
        /\ DeletedAccount(id).kind \notin { "NEW_ACCOUNT", "NEW_CHAT_MESSAGE" }
    BY DEF DeletedAccount, Offered
  <2> QED
    BY <1>1, <2>1, <2>2
<1> QED
  BY <1>2, <1>3, <1>4, <1>5, <1>6

LEMMA TrackTakeId ==
  ASSUME Alone, Typed, Exclusive, Track, NEW w \in Worker, TakeId(w)
  PROVE  Track'
<1> DEFINE m == thread[w].message
           n == IF m.kind = "NEW_ACCOUNT" THEN memory.nextAccount ELSE memory.nextMessage
           numbered == [m EXCEPT !.id = << Self, n >>]
<1>1. thread[w].pc = "numbering" /\ m \in Draft
  BY DEF TakeId, Typed, Handles
<1> HIDE DEF n
<1>2. /\ numbered.kind = m.kind /\ numbered.id = << Self, n >>
      /\ m.kind \in { "NEW_ACCOUNT", "NEW_CHAT_MESSAGE" }
      /\ m.kind = "NEW_CHAT_MESSAGE" => numbered.chat = m.chat
  BY <1>1 DEF Draft
<1>3. PICK next : next = At("dispatch", numbered, {})
  OBVIOUS
<1>4. /\ next.pc = "dispatch" /\ next.message = numbered
      /\ thread' = [thread EXCEPT ![w] = next]
  BY <1>3, AtFields DEF TakeId, n
<1>5. /\ memory'.db = memory.db
      /\ memory'.nextAccount = memory.nextAccount + One(m.kind = "NEW_ACCOUNT")
      /\ memory'.nextMessage = memory.nextMessage + One(m.kind = "NEW_CHAT_MESSAGE")
  <2>1. memory' = IF m.kind = "NEW_ACCOUNT"
                    THEN [memory EXCEPT !.nextAccount = memory.nextAccount + 1]
                    ELSE [memory EXCEPT !.nextMessage = memory.nextMessage + 1]
    BY DEF TakeId, n
  <2>2. State(memory) /\ memory.nextAccount \in Nat /\ memory.nextMessage \in Nat
    BY DEF Typed, TypedState
  <2> QED
    BY <1>2, <2>1, <2>2 DEF State, One
<1>6. UNCHANGED << up, disk, failed >> /\ File' = File
  BY DEF TakeId, faults, File
<1> HIDE DEF m, numbered
<1>7. up
  BY <1>1, IdleIs DEF Exclusive
<1>8. ASSUME failed = 0 PROVE Indexed(memory.db)' /\ Follows(next)'
  <2>1. Follows(thread[w]) /\ Indexed(memory.db)
    BY <1>7, <1>8 DEF Track
  <2>2. /\ Smaller(memory.db, File.db)
        /\ memory.nextAccount = File.nextAccount + 0
        /\ memory.nextMessage = File.nextMessage + 0
        /\ Offered(memory.db, m)
    BY <1>1, <2>1 DEF Follows, One, m
  <2>3. TypedState(File)
    BY RebuiltTyped DEF Typed, File
  <2>4. memory.nextAccount = File.nextAccount /\ memory.nextMessage = File.nextMessage
    BY <2>2, <2>3 DEF TypedState
  <2>5. Numbered(File, numbered)
    BY <1>2, <2>4 DEF Numbered, n
  <2>6. Offered(memory.db, numbered)
    BY <1>2, <2>2 DEF Offered
  <2>7. Follows(next)'
    BY <1>2, <1>4, <1>5, <1>6, <2>2, <2>4, <2>5, <2>6 DEF Follows
  <2> QED
    BY <1>5, <2>1, <2>7
<1> QED
  BY <1>4, <1>6, <1>8, TrackKept

\* A replay in memory that ends with an exception, a deletion that threw half-way.
LEMMA DispatchThrown ==
  ASSUME NEW d, TypedDb(d), Indexed(d), NEW e, Smaller(d, e),
         NEW m \in LogMessage, Offered(d, m),
         m.kind = "NEW_ACCOUNT" => Ready(d, m),
         m.kind = "NEW_CHAT_MESSAGE" => Ready(d, m),
         NEW out, out = Effect(d, m), ~ out.ok
  PROVE  /\ Indexed(out.db)
         /\ Smaller(out.db, e)
         /\ m.kind = "DELETE_MESSAGES"
<1>1. Does(d, m, out)
  BY EffectDoes
<1>2. ~ Ready(d, m)
  BY EffectReady
<1>3. m.kind = "DELETE_MESSAGES"
  BY <1>2, MessageFields DEF Ready, Offered
<1>4. /\ out.db.accounts = d.accounts
      /\ out.db.usernames = d.usernames
      /\ DOMAIN out.db.chats \subseteq DOMAIN d.chats
      /\ \A id \in DOMAIN out.db.chats : out.db.chats[id] = d.chats[id]
      /\ DOMAIN out.db.unread = DOMAIN d.unread
      /\ Indexed(d) => Indexed(out.db)
  BY <1>1, <1>3 DEF Does
<1> QED
  BY <1>3, <1>4 DEF Smaller

\* A replay in memory that succeeds will succeed on the file.
LEMMA DispatchReady ==
  ASSUME NEW d, TypedDb(d), Indexed(d), NEW s, TypedState(s), Sound(s),
         Smaller(d, s.db), NEW m \in LogMessage, Offered(d, m), Numbered(s, m),
         Effect(d, m).ok
  PROVE  /\ Ready(s.db, m)
         /\ Smaller(Effect(d, m).db, Effect(s.db, m).db)
         /\ Indexed(Effect(d, m).db)
<1>1. PICK e : e = s.db
  OBVIOUS
<1>2. TypedDb(e) /\ Indexed(e) /\ Smaller(d, e)
  BY <1>1 DEF TypedState, Sound
<1>3. Offered(e, m)
  BY <1>2 DEF Smaller, Offered
<1>4. /\ m.kind = "NEW_ACCOUNT" => Ready(e, m)
      /\ m.kind = "NEW_CHAT_MESSAGE" => Ready(e, m)
  BY <1>1, <1>3, NumberedReady
<1>5. /\ m.kind = "NEW_ACCOUNT" => Ready(d, m)
      /\ m.kind = "NEW_CHAT_MESSAGE" => Ready(d, m)
  BY <1>2, <1>4 DEF Ready, Smaller
<1>6. PICK out : out = Effect(d, m)
  OBVIOUS
<1>7. Does(d, m, out) /\ out.ok
  BY <1>6, EffectDoes
<1>8. m.kind = "DELETE_MESSAGES" => Ready(d, m) /\ Ready(e, m)
  BY <1>2, <1>3, <1>7 DEF Does, Ready, Deletable, Offered, Smaller
<1>9. m.kind \in { "MARK_AS_READ", "DELETE_ACCOUNT" } => Ready(d, m) /\ Ready(e, m)
  BY <1>3 DEF Ready, Offered
<1>10. Ready(d, m) /\ Ready(e, m)
  BY <1>4, <1>5, <1>8, <1>9, MessageFields
<1>11. PICK large : large = Effect(e, m)
  OBVIOUS
<1>12. large.ok
  BY <1>2, <1>10, <1>11, EffectReady
<1>13. Smaller(out.db, large.db)
  BY <1>2, <1>6, <1>7, <1>11, <1>12, EffectSmaller
<1>14. Indexed(out.db)
  BY <1>6, <1>10, EffectReady
<1> QED
  BY <1>1, <1>6, <1>10, <1>11, <1>13, <1>14

LEMMA TrackDispatch ==
  ASSUME Alone, Typed, Exclusive, Track, NEW w \in Worker, Dispatch(w)
  PROVE  Track'
<1>1. PICK m : m = thread[w].message
  OBVIOUS
<1>2. thread[w].pc = "dispatch" /\ m \in LogMessage
  BY <1>1 DEF Dispatch, Typed, Handles
<1>3. up /\ UNCHANGED << up, disk, failed >> /\ File' = File
  BY <1>2, IdleIs DEF Exclusive, Dispatch, faults, File
<1>4. PICK out : out = Effect(memory.db, m)
  OBVIOUS
<1>5. /\ memory'.db = out.db
      /\ memory'.nextAccount = IF m.kind = "NEW_ACCOUNT"
                                 THEN NextAfter(Self, memory.nextAccount, m)
                                 ELSE memory.nextAccount
      /\ memory'.nextMessage = IF m.kind = "NEW_CHAT_MESSAGE"
                                 THEN NextAfter(Self, memory.nextMessage, m)
                                 ELSE memory.nextMessage
      /\ memory'.thrown <=> ~ out.ok
  <2>1. memory' = Replay(Self, memory, m)
    BY <1>1 DEF Dispatch
  <2> QED
    BY <1>4, <2>1, ReplayIs
<1>6. PICK next : next = IF memory'.thrown THEN Idle ELSE [thread[w] EXCEPT !.pc = "saving"]
  OBVIOUS
<1>7. /\ thread' = [thread EXCEPT ![w] = next]
      /\ memory'.thrown => next = Idle
      /\ ~ memory'.thrown => next.pc = "saving" /\ next.message = m
  BY <1>1, <1>6 DEF Dispatch, Typed
<1>8. TypedDb(memory.db) /\ TypedState(File)
  BY RebuiltTyped DEF Typed, TypedState, File
<1>9. ASSUME failed = 0 PROVE Indexed(memory.db)' /\ Follows(next)'
  <2>1. Follows(thread[w]) /\ Indexed(memory.db) /\ Sound(File)
    BY <1>3, <1>9 DEF Track
  <2>2. /\ Smaller(memory.db, File.db)
        /\ memory.nextAccount = File.nextAccount + One(m.kind = "NEW_ACCOUNT")
        /\ memory.nextMessage = File.nextMessage + One(m.kind = "NEW_CHAT_MESSAGE")
        /\ Numbered(File, m)
        /\ Offered(memory.db, m)
    BY <1>1, <1>2, <2>1 DEF Follows, One
  <2>3. Indexed(File.db)
    BY <2>1 DEF Sound
  <2>4. File.nextAccount \in Nat /\ File.nextMessage \in Nat
    BY <1>8 DEF TypedState
  <2>5. memory'.nextAccount = memory.nextAccount /\ memory'.nextMessage = memory.nextMessage
    <3>1. m.kind = "NEW_ACCOUNT" =>
            /\ NextAfter(Self, memory.nextAccount, m) = memory.nextAccount
      BY <2>2, <2>4, MessageFields, <1>2 DEF NextAfter, Numbered, One
    <3>2. m.kind = "NEW_CHAT_MESSAGE" =>
            /\ NextAfter(Self, memory.nextMessage, m) = memory.nextMessage
      BY <2>2, <2>4, MessageFields, <1>2 DEF NextAfter, Numbered, One
    <3> QED
      BY <1>5, <3>1, <3>2
  <2>6. CASE out.ok
    <3>1. /\ Ready(File.db, m)
          /\ Smaller(out.db, Effect(File.db, m).db)
          /\ Indexed(out.db)
      BY <1>2, <1>4, <1>8, <2>1, <2>2, <2>6, DispatchReady
    <3>2. next.pc = "saving" /\ next.message = m
      BY <1>5, <1>7, <2>6
    <3>3. Follows(next)'
      BY <1>3, <1>5, <2>2, <2>5, <3>1, <3>2 DEF Follows, One
    <3> QED
      BY <1>5, <3>1, <3>3
  <2>7. CASE ~ out.ok
    <3>1. /\ m.kind = "NEW_ACCOUNT" => Ready(memory.db, m)
          /\ m.kind = "NEW_CHAT_MESSAGE" => Ready(memory.db, m)
      <4>1. Offered(File.db, m)
        BY <2>2 DEF Smaller, Offered
      <4>2. /\ m.kind = "NEW_ACCOUNT" => Ready(File.db, m)
            /\ m.kind = "NEW_CHAT_MESSAGE" => Ready(File.db, m)
        BY <1>2, <1>8, <2>1, <2>2, <4>1, NumberedReady
      <4> QED
        BY <2>2, <4>2 DEF Ready, Smaller
    <3>2. Indexed(out.db) /\ Smaller(out.db, File.db) /\ m.kind = "DELETE_MESSAGES"
      BY <1>2, <1>4, <1>8, <2>1, <2>2, <2>7, <3>1, DispatchThrown
    <3>3. next.pc = "idle"
      BY <1>5, <1>7, <2>7, IdleIs
    <3>4. Follows(next)'
      BY <1>3, <1>5, <2>2, <2>5, <3>2, <3>3 DEF Follows, One
    <3> QED
      BY <1>5, <3>2, <3>4
  <2> QED
    BY <2>6, <2>7
<1> QED
  BY <1>3, <1>7, <1>9, TrackKept

LEMMA TrackSave ==
  ASSUME Alone, Typed, Exclusive, Track, NEW w \in Worker, Save(w)
  PROVE  Track'
<1>1. PICK m : m = thread[w].message
  OBVIOUS
<1>2. thread[w].pc = "saving" /\ m \in LogMessage
  BY <1>1 DEF Save, Typed, Handles
<1>3. up /\ disk' = Append(disk, m) /\ UNCHANGED << up, memory, failed >>
  BY <1>1, <1>2, IdleIs DEF Save, Exclusive, faults
<1>4. PICK n \in Nat :
        /\ n \notin DOMAIN disk /\ DOMAIN disk' = DOMAIN disk \cup {n}
        /\ disk'[n] = m
        /\ \A i \in DOMAIN disk : disk'[i] = disk[i]
        /\ File' = ReplayTurn(File, m)
  BY <1>2, <1>3, SavedOne
<1>5. PICK next : next = [thread[w] EXCEPT !.pc = "answering"]
  OBVIOUS
<1>6. next.pc = "answering"
  BY <1>5 DEF Typed
<1>7. thread' = [thread EXCEPT ![w] = next]
  BY <1>5 DEF Save
<1>8. thread'[w] = next /\ \A v \in Worker : v = w
  BY <1>7, ThreadAfter DEF Alone
<1>9. TypedState(File)
  BY RebuiltTyped DEF Typed, File
<1>10. ASSUME failed = 0
       PROVE  /\ Sound(File)' /\ Below' /\ IdsUnique'
              /\ Indexed(memory.db)' /\ Follows(next)'
  <2>1. Sound(File) /\ Below /\ IdsUnique /\ Follows(thread[w]) /\ Indexed(memory.db)
    BY <1>3, <1>10 DEF Track
  <2>2. /\ Ready(File.db, m)
        /\ Smaller(memory.db, Effect(File.db, m).db)
        /\ memory.nextAccount = File.nextAccount + One(m.kind = "NEW_ACCOUNT")
        /\ memory.nextMessage = File.nextMessage + One(m.kind = "NEW_CHAT_MESSAGE")
        /\ Numbered(File, m)
    BY <1>1, <1>2, <2>1 DEF Follows, One
  <2>3. PICK r : r = Replay(Self, File, m)
    OBVIOUS
  <2>4. File' = r
    BY <1>4, <2>1, <2>3 DEF ReplayTurn, Sound
  <2>5. /\ Sound(r)
        /\ r.db = Effect(File.db, m).db
        /\ r.nextAccount = File.nextAccount + One(m.kind = "NEW_ACCOUNT")
        /\ r.nextMessage = File.nextMessage + One(m.kind = "NEW_CHAT_MESSAGE")
    BY <1>2, <1>9, <2>1, <2>2, <2>3, ReplaySound
  <2>6. Sound(File)'
    BY <2>4, <2>5 DEF Sound, Bounded
  <2>7. /\ memory.nextAccount = r.nextAccount
        /\ memory.nextMessage = r.nextMessage
    BY <2>2, <2>5
  <2>8. TypedState(r)
    BY <1>2, <1>9, <2>3, ReplayTyped
  <2>9. Follows(next)'
    BY <1>3, <1>6, <2>2, <2>4, <2>5, <2>7, <2>8 DEF Follows, One, TypedState
  <2>10. Indexed(memory.db)'
    BY <1>3, <2>1
  <2>11. /\ File.nextAccount \in Nat /\ File.nextMessage \in Nat
         /\ m.kind = "NEW_ACCOUNT" => m.id[2] = File.nextAccount
         /\ m.kind = "NEW_CHAT_MESSAGE" => m.id[2] = File.nextMessage
    BY <1>9, <2>2 DEF TypedState, Numbered
  <2>12. \A i \in DOMAIN disk :
           /\ disk[i].kind = "NEW_ACCOUNT" => disk[i].id[2] \in Nat
           /\ disk[i].kind = "NEW_CHAT_MESSAGE" => disk[i].id[2] \in Nat
    <3> TAKE i \in DOMAIN disk
    <3>1. disk[i] \in LogMessage
      BY DEF Typed
    <3>2. \A id \in Id : id[2] \in Nat
      BY DEF Id
    <3> QED
      BY <3>1, <3>2, MessageFields
  <2>13. Below'
    <3>1. \A i \in DOMAIN disk :
            /\ disk[i].kind = "NEW_ACCOUNT" => disk[i].id[2] < r.nextAccount
            /\ disk[i].kind = "NEW_CHAT_MESSAGE" => disk[i].id[2] < r.nextMessage
      BY <2>1, <2>5, <2>11, <2>12 DEF Below, One
    <3>2. /\ m.kind = "NEW_ACCOUNT" => m.id[2] < r.nextAccount
          /\ m.kind = "NEW_CHAT_MESSAGE" => m.id[2] < r.nextMessage
      BY <2>5, <2>11 DEF One
    <3> QED
      BY <1>4, <2>4, <3>1, <3>2 DEF Below
  <2>14. IdsUnique'
    <3>1. \A i \in DOMAIN disk :
            /\ m.kind = "NEW_ACCOUNT" /\ disk[i].kind = "NEW_ACCOUNT" => disk[i].id # m.id
            /\ m.kind = "NEW_CHAT_MESSAGE" /\ disk[i].kind = "NEW_CHAT_MESSAGE"
                 => disk[i].id # m.id
      BY <2>1, <2>11, <2>12 DEF Below
    <3>2. \A kind \in { "NEW_ACCOUNT", "NEW_CHAT_MESSAGE" } :
            \A i, j \in DOMAIN disk :
              disk[i].kind = kind /\ disk[j].kind = kind /\ disk[i].id = disk[j].id => i = j
      BY <1>10, <2>1 DEF IdsUnique, Creations
    <3>3. \A kind \in { "NEW_ACCOUNT", "NEW_CHAT_MESSAGE" } :
            \A i, j \in DOMAIN disk' :
              disk'[i].kind = kind /\ disk'[j].kind = kind /\ disk'[i].id = disk'[j].id
                => i = j
      BY <1>4, <3>1, <3>2
    <3> QED
      BY <3>3 DEF IdsUnique, Creations
  <2> QED
    BY <2>6, <2>9, <2>10, <2>13, <2>14
<1> QED
  BY <1>3, <1>8, <1>10 DEF Track

LEMMA TrackEnd ==
  ASSUME Alone, Typed, Exclusive, Track, NEW w \in Worker, SaveFails(w) \/ Answer(w)
  PROVE  Track'
<1>1. CASE SaveFails(w)
  <2>1. failed' # 0
    BY <1>1 DEF SaveFails, Typed
  <2> QED
    BY <2>1 DEF Track
<1>2. CASE Answer(w)
  <2>1. /\ thread' = [thread EXCEPT ![w] = Idle]
        /\ thread[w].pc = "answering"
        /\ UNCHANGED << up, memory, disk, failed >> /\ File' = File
    BY <1>2 DEF Answer, faults, File
  <2>2. up
    BY <2>1, IdleIs DEF Exclusive
  <2>3. failed = 0 => Follows(thread[w]) /\ Indexed(memory.db)
    BY <2>2 DEF Track
  <2>4. PICK next : next = Idle
    OBVIOUS
  <2>5. failed = 0 => Follows(next)'
    BY <2>1, <2>3, <2>4, IdleIs DEF Follows, One
  <2> QED
    BY <2>1, <2>3, <2>4, <2>5, TrackKept
<1> QED
  BY <1>1, <1>2

LEMMA TrackProcess ==
  ASSUME Alone, Typed, Exclusive, Track, Login \/ Crash \/ Start \/ UNCHANGED vars
  PROVE  Track'
<1>1. UNCHANGED << disk, failed >> /\ File' = File
  BY DEF Login, Crash, Start, vars, faults, File
<1>2. failed = 0 => Sound(File)' /\ Below' /\ IdsUnique'
  BY <1>1 DEF Track, Below, IdsUnique, Creations, Sound, Bounded
<1>3. CASE Login \/ UNCHANGED vars
  <2>1. UNCHANGED << up, memory, thread >>
    BY <1>3 DEF Login, vars
  <2> QED
    BY <1>1, <1>2, <2>1 DEF Track, Follows
<1>4. CASE Crash
  BY <1>2, <1>4, FreshIndexed DEF Track, Crash
<1>5. CASE Start
  <2>1. memory' = File /\ \A w \in Worker : thread'[w].pc = "idle"
    BY <1>5, IdleIs DEF Start, File, Exclusive
  <2>2. failed = 0 => Indexed(File.db)
    BY DEF Track, Sound
  <2>3. TypedState(File)
    BY RebuiltTyped DEF Typed, File
  <2>4. \A w \in Worker : Follows(thread[w])'
    BY <1>1, <2>1, <2>3, SmallerSelf DEF Follows, One, TypedState
  <2> QED
    BY <1>1, <1>2, <2>1, <2>2, <2>4 DEF Track
<1> QED
  BY <1>3, <1>4, <1>5

LEMMA TrackInvariant ==
  ASSUME Alone
  PROVE  Spec => []Track
<1>1. TypeInv /\ Track /\ [Next]_vars => Track'
  <2> SUFFICES ASSUME TypeInv, Track, [Next]_vars PROVE Track'
    OBVIOUS
  <2>1. Typed /\ Exclusive
    BY DEF TypeInv
  <2>2. CASE Login \/ Crash \/ Start \/ UNCHANGED vars
    BY <2>1, <2>2, TrackProcess
  <2>3. ASSUME NEW w \in Worker, Handle(w) PROVE Track'
    <3>1. CASE \/ CreateAccountCall(w)
               \/ SendMessageCall(w)
               \/ RequestMessagesCall(w)
               \/ DeleteMessagesCall(w)
               \/ DeleteAccountCall(w)
      BY <2>1, <3>1, TrackCall
    <3>2. CASE TakeId(w)
      BY <2>1, <3>2, TrackTakeId
    <3>3. CASE Dispatch(w)
      BY <2>1, <3>3, TrackDispatch
    <3>4. CASE Save(w)
      BY <2>1, <3>4, TrackSave
    <3>5. CASE SaveFails(w) \/ Answer(w)
      BY <2>1, <3>5, TrackEnd
    <3> QED
      BY <2>3, <3>1, <3>2, <3>3, <3>4, <3>5 DEF Handle
  <2> QED
    BY <2>2, <2>3 DEF Next
<1> QED
  BY <1>1, TrackInit, TypeInvInvariant, PTL DEF Spec

\* No two accounts and no two messages get the same id, whatever is lost in crashes,
\* from a server that handles its calls one after the other, until a write fails:
\* LogReplay sets its counters beyond every id in the file.
THEOREM IdsUniqueHolds ==
  ASSUME Alone
  PROVE  Spec => []IdsUnique
<1>1. Track => IdsUnique
  BY DEF Track, IdsUnique
<1> QED
  BY <1>1, TrackInvariant, PTL

\* The unread lists of Database agree with its messages, also after a deletion that
\* threw half-way.
THEOREM UnreadIndexAgreesHolds ==
  ASSUME Alone
  PROVE  Spec => []UnreadIndexAgrees
<1>1. TypeInv /\ Track => UnreadIndexAgrees
  <2> SUFFICES ASSUME TypeInv, Track, failed = 0
               PROVE  \A user \in DOMAIN db.accounts :
                        /\ IsInjective(Unread(db, user))
                        /\ Range(Unread(db, user)) =
                             { id \in DOMAIN db.chats :
                                 db.chats[id].recipient = user /\ ~ db.chats[id].read }
    BY DEF UnreadIndexAgrees
  <2> QED
    BY DEF Track, Indexed, db
<1> QED
  BY <1>1, TrackInvariant, TypeInvInvariant, PTL

\* The file of such a server can always be replayed: LogReplay.replayMessagesFromDisk
\* finds no message that throws.
THEOREM RestartableHolds ==
  ASSUME Alone
  PROVE  Spec => []Restartable
<1>1. Track => Restartable
  BY DEF Track, Sound, File, Restartable
<1> QED
  BY <1>1, TrackInvariant, PTL

\* The chat messages after an operation: the new one, and those that were there,
\* which only MARK_AS_READ changes.
LEMMA EffectChats ==
  ASSUME NEW d, TypedDb(d), NEW m \in LogMessage, NEW out, out = Effect(d, m), out.ok
  PROVE  /\ \A id \in DOMAIN out.db.chats :
              \/ /\ m.kind = "NEW_CHAT_MESSAGE"
                 /\ id = m.id /\ out.db.chats[id] = m.chat
              \/ /\ id \in DOMAIN d.chats
                 /\ out.db.chats[id].number = d.chats[id].number
                 /\ out.db.chats[id].read <=>
                      \/ d.chats[id].read
                      \/ m.kind = "MARK_AS_READ" /\ id \in Range(m.ids)
<1> SUFFICES ASSUME NEW id \in DOMAIN out.db.chats
             PROVE  \/ /\ m.kind = "NEW_CHAT_MESSAGE"
                       /\ id = m.id /\ out.db.chats[id] = m.chat
                    \/ /\ id \in DOMAIN d.chats
                       /\ out.db.chats[id].number = d.chats[id].number
                       /\ out.db.chats[id].read <=>
                            \/ d.chats[id].read
                            \/ m.kind = "MARK_AS_READ" /\ id \in Range(m.ids)
  OBVIOUS
<1>0. Does(d, m, out)
  BY EffectDoes
<1>1. CASE m.kind = "NEW_CHAT_MESSAGE"
  <2>1. out.db.chats = Put(d.chats, m.id, m.chat)
    BY <1>0, <1>1 DEF Does
  <2> QED
    BY <1>1, <2>1 DEF Put
<1>2. CASE m.kind = "MARK_AS_READ"
  <2>1. /\ id \in DOMAIN d.chats
        /\ out.db.chats[id] = IF id \in Range(m.ids)
                                THEN [d.chats[id] EXCEPT !.read = TRUE]
                                ELSE d.chats[id]
    BY <1>0, <1>2 DEF Does
  <2>2. d.chats[id] \in Chat
    BY <2>1 DEF TypedDb
  <2>3. [d.chats[id] EXCEPT !.read = TRUE].number = d.chats[id].number
    BY <2>2 DEF Chat
  <2>4. [d.chats[id] EXCEPT !.read = TRUE].read
    BY <2>2 DEF Chat
  <2> QED
    BY <1>2, <2>1, <2>3, <2>4
<1>3. CASE m.kind \notin { "NEW_CHAT_MESSAGE", "MARK_AS_READ" }
  BY <1>0, <1>3, MessageFields DEF Does
<1> QED
  BY <1>1, <1>2, <1>3

-----------------------------------------------------------------------------
\* Deliveries

\* A chat message has the number of its call, and is not answered while it is unread.
Counted ==
  /\ \A id \in DOMAIN File.db.chats : File.db.chats[id].number \in 1 .. calls
  /\ \A i, j \in DOMAIN File.db.chats :
       File.db.chats[i].number = File.db.chats[j].number => i = j
  /\ \A id \in DOMAIN File.db.chats :
       ~ File.db.chats[id].read => deliveries[File.db.chats[id].number] = 0
  /\ \A n \in calls + 1 .. MaxCalls : deliveries[n] = 0
  /\ \A n \in 1 .. MaxCalls : deliveries[n] <= 1
  /\ ~ up => /\ DOMAIN memory.db.chats = {}
             /\ crashes = 0 => DOMAIN File.db.chats = {}

\* What t is about to add is new, and what it is about to answer is unanswered: it was
\* unread when t looked, and is read in the file when t answers.
Tells(t) ==
  /\ t.pc \in { "numbering", "dispatch", "saving" } /\ t.message.kind = "NEW_CHAT_MESSAGE"
       => /\ t.message.chat.number = calls
          /\ calls \in 1 .. MaxCalls
          /\ \A id \in DOMAIN File.db.chats : File.db.chats[id].number # calls
          /\ deliveries[calls] = 0
  /\ \A n \in t.batch : n \in 1 .. calls /\ deliveries[n] = 0
  /\ t.batch # {} => \/ t.pc = "answering"
                     \/ t.pc \in { "dispatch", "saving" } /\ t.message.kind = "MARK_AS_READ"
  /\ t.pc = "dispatch" /\ t.message.kind = "MARK_AS_READ" =>
       t.batch = { memory.db.chats[id].number : id \in Range(t.message.ids) }
  /\ t.pc = "saving" /\ t.message.kind = "MARK_AS_READ" =>
       t.batch = { File.db.chats[id].number : id \in Range(t.message.ids) }
  /\ t.pc = "answering" =>
       \A id \in DOMAIN File.db.chats :
         File.db.chats[id].number \in t.batch => File.db.chats[id].read
  /\ crashes = 0 /\ up =>
       \A id \in DOMAIN memory.db.chats :
         memory.db.chats[id].read =>
           \/ deliveries[memory.db.chats[id].number] > 0
           \/ memory.db.chats[id].number \in t.batch

Told == failed = 0 => Counted /\ \A w \in Worker : Tells(thread[w])

LEMMA FreshEmpty == DOMAIN Fresh.db.chats = {}
<1>1. DOMAIN << >> = {}
  OBVIOUS
<1> QED
  BY <1>1 DEF Fresh, EmptyDatabase

LEMMA ToldInit == Init => Told
<1> SUFFICES ASSUME Init PROVE Told
  OBVIOUS
<1>1. FirstTurn(0, Len(Members), File)
  BY FirstFile DEF File
<1>2. DOMAIN File.db.chats = {}
  BY <1>1 DEF FirstTurn
<1>3. /\ calls = 0 /\ ~ up /\ MaxCalls \in Nat
      /\ DOMAIN memory.db.chats = {}
      /\ \A n \in 1 .. MaxCalls : deliveries[n] = 0
  BY FreshEmpty, ServerAssumption DEF Init, ServerAssumption
<1>4. Counted
  BY <1>2, <1>3 DEF Counted
<1>5. \A w \in Worker : thread[w].pc = "idle" /\ thread[w].batch = {}
  BY DEF Init, Idle
<1>6. \A w \in Worker : Tells(thread[w])
  BY <1>3, <1>5 DEF Tells
<1> QED
  BY <1>4, <1>6 DEF Told

\* A step of the only thread.
LEMMA ToldStep ==
  ASSUME Alone, Typed, NEW w \in Worker, NEW next, thread' = [thread EXCEPT ![w] = next],
         failed' = 0 => Counted' /\ Tells(next)'
  PROVE  Told'
<1>1. thread'[w] = next /\ \A v \in Worker : v = w
  BY ThreadAfter DEF Alone
<1> QED
  BY <1>1 DEF Told

LEMMA ToldCall ==
  ASSUME Alone, Typed, Exclusive, Track, Told, NEW w \in Worker,
         \/ CreateAccountCall(w)
         \/ SendMessageCall(w)
         \/ RequestMessagesCall(w)
         \/ DeleteMessagesCall(w)
         \/ DeleteAccountCall(w)
  PROVE  Told'
<1>1. ASSUME NEW op, NEW pc \in { "numbering", "dispatch" }, NEW m, NEW batch,
             TakesCall(w, op, At(pc, m, batch)),
             m.kind = "NEW_CHAT_MESSAGE" => m.chat.number = calls + 1,
             \/ batch = {} /\ m.kind # "MARK_AS_READ"
             \/ /\ pc = "dispatch" /\ m.kind = "MARK_AS_READ"
                /\ batch = { memory.db.chats[id].number : id \in Range(m.ids) }
                /\ failed = 0 => \A id \in Range(m.ids) :
                                   id \in DOMAIN memory.db.chats /\ ~ memory.db.chats[id].read
      PROVE  Told'
  <2>1. PICK next : next = At(pc, m, batch)
    OBVIOUS
  <2>2. next.pc = pc /\ next.message = m /\ next.batch = batch
    BY <2>1 DEF At
  <2>3. /\ thread' = [thread EXCEPT ![w] = next] /\ thread[w] = Idle
        /\ up /\ UNCHANGED << up, memory, disk, deliveries, failed, crashes >>
        /\ calls' = calls + 1 /\ calls < MaxCalls
    BY <1>1, <2>1 DEF TakesCall, faults
  <2>4. File' = File
    BY <2>3 DEF File
  <2>5. calls \in Nat /\ MaxCalls \in Nat
    BY ServerAssumption DEF Typed, ServerAssumption
  <2>6. ASSUME failed = 0 PROVE Counted' /\ Tells(next)'
    <3>1. Counted /\ Tells(thread[w]) /\ Smaller(memory.db, File.db)
      <4>1. Follows(thread[w]) /\ thread[w].pc = "idle"
        BY <2>3, <2>6, IdleIs DEF Track
      <4> QED
        BY <2>6, <4>1 DEF Told, Follows
    <3>2. Counted'
      BY <2>3, <2>4, <2>5, <3>1 DEF Counted
    <3>3. thread[w].batch = {}
      BY <2>3 DEF Idle
    <3>4. \A n \in batch : n \in 1 .. calls /\ deliveries[n] = 0
      <4>1. CASE batch = {}
        BY <4>1
      <4>2. CASE /\ batch = { memory.db.chats[id].number : id \in Range(m.ids) }
                 /\ \A id \in Range(m.ids) :
                      id \in DOMAIN memory.db.chats /\ ~ memory.db.chats[id].read
        <5>1. \A id \in Range(m.ids) :
                /\ id \in DOMAIN File.db.chats /\ ~ File.db.chats[id].read
                /\ File.db.chats[id].number = memory.db.chats[id].number
          BY <3>1, <4>2 DEF Smaller
        <5> QED
          BY <3>1, <4>2, <5>1 DEF Counted
      <4> QED
        BY <1>1, <2>6, <4>1, <4>2
    <3>5. m.kind = "NEW_CHAT_MESSAGE" =>
            /\ m.chat.number = calls'
            /\ calls' \in 1 .. MaxCalls
            /\ \A id \in DOMAIN File.db.chats : File.db.chats[id].number # calls'
            /\ deliveries[calls'] = 0
      BY <1>1, <2>3, <2>5, <3>1 DEF Counted
    <3>6. \A id \in DOMAIN memory.db.chats : crashes = 0 /\ memory.db.chats[id].read =>
            deliveries[memory.db.chats[id].number] > 0
      BY <2>3, <3>1, <3>3 DEF Tells
    <3>7. \A n \in batch : n \in 1 .. calls'
      BY <2>3, <2>5, <3>4
    <3>8. batch # {} => pc = "dispatch" /\ m.kind = "MARK_AS_READ"
      BY <1>1
    <3>9. m.kind = "MARK_AS_READ" =>
            batch = { memory'.db.chats[id].number : id \in Range(m.ids) }
      BY <1>1, <2>3
    <3>10. Tells(next)'
      BY <2>2, <2>3, <2>4, <3>4, <3>5, <3>6, <3>7, <3>8, <3>9 DEF Tells
    <3> QED
      BY <3>2, <3>10
  <2> QED
    BY <2>3, <2>6, ToldStep
<1>2. CASE CreateAccountCall(w)
  <2>1. PICK u \in Username :
          TakesCall(w, "createAccount", At("numbering", NewAccount(None, u), {}))
    BY <1>2 DEF CreateAccountCall
  <2>2. NewAccount(None, u).kind = "NEW_ACCOUNT"
    BY DEF NewAccount
  <2> QED
    BY <1>1, <2>1, <2>2
<1>3. CASE SendMessageCall(w)
  <2>1. PICK sender \in sessions, u \in Username :
          TakesCall(w, "sendMessage",
               At("numbering",
                  NewChatMessage(None, [ sender |-> sender,
                                         recipient |-> db.usernames[u],
                                         read |-> FALSE, number |-> calls + 1 ]), {}))
    BY <1>3 DEF SendMessageCall
  <2>2. PICK chat : chat = [ sender |-> sender, recipient |-> db.usernames[u],
                             read |-> FALSE, number |-> calls + 1 ]
    OBVIOUS
  <2>3. chat.number = calls + 1
    BY <2>2
  <2>4. PICK m : m = NewChatMessage(None, chat)
    OBVIOUS
  <2>5. m.kind = "NEW_CHAT_MESSAGE" /\ m.chat = chat
    BY <2>4 DEF NewChatMessage
  <2>6. TakesCall(w, "sendMessage", At("numbering", m, {}))
    BY <2>1, <2>2, <2>4
  <2> QED
    BY <1>1, <2>3, <2>5, <2>6
<1>4. CASE RequestMessagesCall(w)
  <2>1. PICK user \in sessions :
          LET ids == FirstUnread(db, user, PageSize) IN
            TakesCall(w, "requestMessages",
               At("dispatch", MarkAsRead(ids),
                  { db.chats[id].number : id \in Range(ids) }))
    BY <1>4 DEF RequestMessagesCall
  <2>2. PICK ids : ids = FirstUnread(db, user, PageSize)
    OBVIOUS
  <2>3. PICK m : m = MarkAsRead(ids)
    OBVIOUS
  <2>4. m.kind = "MARK_AS_READ" /\ m.ids = ids
    BY <2>3 DEF MarkAsRead
  <2>5. PICK batch : batch = { memory.db.chats[id].number : id \in Range(ids) }
    OBVIOUS
  <2>6. TakesCall(w, "requestMessages", At("dispatch", m, batch))
    BY <2>1, <2>2, <2>3, <2>5 DEF db
  <2>7. TypedDb(memory.db) /\ (failed = 0 => Indexed(memory.db))
    BY DEF Typed, TypedState, Track
  <2>8. failed = 0 => \A id \in Range(ids) :
                        id \in DOMAIN memory.db.chats /\ ~ memory.db.chats[id].read
    BY <2>2, <2>7, PageOffered DEF db
  <2> QED
    BY <1>1, <2>4, <2>5, <2>6, <2>8
<1>5. CASE DeleteMessagesCall(w)
  <2>1. PICK ids : TakesCall(w, "deleteMessages", At("dispatch", DeleteMessages(ids), {}))
    BY <1>5 DEF DeleteMessagesCall
  <2>2. DeleteMessages(ids).kind = "DELETE_MESSAGES"
    BY DEF DeleteMessages
  <2> QED
    BY <1>1, <2>1, <2>2
<1>6. CASE DeleteAccountCall(w)
  <2>1. PICK id : TakesCall(w, "deleteAccount", At("dispatch", DeletedAccount(id), {}))
    BY <1>6 DEF DeleteAccountCall
  <2>2. DeletedAccount(id).kind = "DELETE_ACCOUNT"
    BY DEF DeletedAccount
  <2> QED
    BY <1>1, <2>1, <2>2
<1> QED
  BY <1>2, <1>3, <1>4, <1>5, <1>6

LEMMA ToldTakeId ==
  ASSUME Alone, Typed, Exclusive, Told, NEW w \in Worker, TakeId(w)
  PROVE  Told'
<1> DEFINE n == IF thread[w].message.kind = "NEW_ACCOUNT"
                  THEN memory.nextAccount ELSE memory.nextMessage
<1>1. PICK m : m = thread[w].message
  OBVIOUS
<1>2. PICK numbered : numbered = [m EXCEPT !.id = << Self, n >>]
  OBVIOUS
<1>3. thread[w].pc = "numbering" /\ m \in Draft
  BY <1>1 DEF TakeId, Typed, Handles
<1> HIDE DEF n
<1>4. /\ numbered.kind = m.kind
      /\ m.kind \in { "NEW_ACCOUNT", "NEW_CHAT_MESSAGE" }
      /\ m.kind = "NEW_CHAT_MESSAGE" => numbered.chat = m.chat
  BY <1>2, <1>3 DEF Draft
<1>5. PICK next : next = At("dispatch", numbered, {})
  OBVIOUS
<1>6. /\ next.pc = "dispatch" /\ next.message = numbered /\ next.batch = {}
      /\ thread' = [thread EXCEPT ![w] = next]
  <2>1. thread' = [thread EXCEPT ![w] = At("dispatch", numbered, {})]
    BY <1>1, <1>2 DEF TakeId, n
  <2> QED
    BY <1>5, <2>1 DEF At
<1>7. memory'.db = memory.db
  <2>1. \/ memory' = [memory EXCEPT !.nextAccount = n + 1]
        \/ memory' = [memory EXCEPT !.nextMessage = n + 1]
    BY DEF TakeId, n
  <2> QED
    BY <2>1 DEF Typed, TypedState, State
<1>8. UNCHANGED << up, disk, deliveries, calls, failed, crashes >> /\ File' = File
  BY DEF TakeId, faults, File
<1>9. ASSUME failed = 0 PROVE Counted' /\ Tells(next)'
  <2>1. Counted /\ Tells(thread[w])
    BY <1>9 DEF Told
  <2>2. thread[w].batch = {}
    BY <1>3, <2>1 DEF Tells
  <2>3. Counted'
    BY <1>7, <1>8, <2>1 DEF Counted
  <2>4. Tells(next)'
    BY <1>1, <1>3, <1>4, <1>6, <1>7, <1>8, <2>1, <2>2 DEF Tells
  <2> QED
    BY <2>3, <2>4
<1> QED
  BY <1>6, <1>8, <1>9, ToldStep

LEMMA ToldDispatch ==
  ASSUME Alone, Typed, Exclusive, Track, Track', Told, NEW w \in Worker, Dispatch(w)
  PROVE  Told'
<1>1. PICK m : m = thread[w].message
  OBVIOUS
<1>2. thread[w].pc = "dispatch" /\ m \in LogMessage
  BY <1>1 DEF Dispatch, Typed, Handles
<1>3. /\ up /\ UNCHANGED << up, disk, deliveries, calls, failed, crashes >>
      /\ File' = File
  BY <1>2, IdleIs DEF Exclusive, Dispatch, faults, File
<1>4. PICK out : out = Effect(memory.db, m)
  OBVIOUS
<1>5. memory'.db = out.db /\ (memory'.thrown <=> ~ out.ok)
  <2>1. memory' = Replay(Self, memory, m)
    BY <1>1 DEF Dispatch
  <2> QED
    BY <1>4, <2>1, ReplayIs
<1>6. PICK next : next = IF memory'.thrown THEN Idle ELSE [thread[w] EXCEPT !.pc = "saving"]
  OBVIOUS
<1>7. /\ thread' = [thread EXCEPT ![w] = next]
      /\ ~ out.ok => next = Idle
      /\ out.ok => /\ next.pc = "saving" /\ next.message = m
                   /\ next.batch = thread[w].batch
  BY <1>1, <1>5, <1>6 DEF Dispatch, Typed
<1>8. TypedDb(memory.db)
  BY DEF Typed, TypedState
<1>9. ASSUME failed = 0 PROVE Counted' /\ Tells(next)'
  <2>1. Counted /\ Tells(thread[w])
    BY <1>9 DEF Told
  <2>2. Counted'
    BY <1>3, <2>1 DEF Counted
  <2>3. Follows(thread[w])
    BY <1>3, <1>9 DEF Track
  <2>4. Smaller(memory.db, File.db) /\ Offered(memory.db, m)
    BY <1>1, <1>2, <2>3 DEF Follows
  <2>5. thread[w].batch # {} => m.kind = "MARK_AS_READ"
    BY <1>1, <1>2, <2>1 DEF Tells
  <2>6. m.kind = "MARK_AS_READ" =>
          thread[w].batch = { memory.db.chats[id].number : id \in Range(m.ids) }
    BY <1>1, <1>2, <2>1 DEF Tells
  <2>7. \A id \in DOMAIN memory.db.chats :
          crashes = 0 /\ memory.db.chats[id].read =>
            \/ deliveries[memory.db.chats[id].number] > 0
            \/ memory.db.chats[id].number \in thread[w].batch
    BY <1>3, <2>1 DEF Tells
  <2>8. CASE out.ok
    <3>1. m.kind = "MARK_AS_READ" =>
            thread[w].batch = { File.db.chats[id].number : id \in Range(m.ids) }
      <4>1. m.kind = "MARK_AS_READ" =>
              \A id \in Range(m.ids) :
                memory.db.chats[id].number = File.db.chats[id].number
        BY <2>4 DEF Offered, Smaller
      <4> QED
        BY <2>6, <4>1
    <3>2. \A id \in DOMAIN out.db.chats :
            \/ m.kind = "NEW_CHAT_MESSAGE" /\ out.db.chats[id] = m.chat
            \/ /\ id \in DOMAIN memory.db.chats
               /\ out.db.chats[id].number = memory.db.chats[id].number
               /\ out.db.chats[id].read <=>
                    \/ memory.db.chats[id].read
                    \/ m.kind = "MARK_AS_READ" /\ id \in Range(m.ids)
      BY <1>2, <1>4, <1>8, <2>8, EffectChats
    <3>3. \A id \in DOMAIN out.db.chats :
            crashes = 0 /\ out.db.chats[id].read =>
              \/ deliveries[out.db.chats[id].number] > 0
              \/ out.db.chats[id].number \in thread[w].batch
      <4>1. m.kind = "NEW_CHAT_MESSAGE" => ~ m.chat.read
        BY <2>4 DEF Offered
      <4>2. m.kind = "MARK_AS_READ" =>
              \A id \in Range(m.ids) : memory.db.chats[id].number \in thread[w].batch
        BY <2>6
      <4> QED
        BY <2>7, <3>2, <4>1, <4>2
    <3>4. next.pc = "saving" /\ next.message = m /\ next.batch = thread[w].batch
      BY <1>7, <2>8
    <3>5. m.kind = "NEW_CHAT_MESSAGE" =>
            /\ m.chat.number = calls /\ calls \in 1 .. MaxCalls
            /\ \A id \in DOMAIN File.db.chats : File.db.chats[id].number # calls
            /\ deliveries[calls] = 0
      BY <1>1, <1>2, <2>1 DEF Tells
    <3>6. \A n \in thread[w].batch : n \in 1 .. calls /\ deliveries[n] = 0
      BY <2>1 DEF Tells
    <3>7. Tells(next)'
      BY <1>3, <1>5, <2>5, <3>1, <3>3, <3>4, <3>5, <3>6 DEF Tells
    <3> QED
      BY <2>2, <3>7
  <2>9. CASE ~ out.ok
    <3>1. m.kind # "MARK_AS_READ"
      <4>1. m.kind = "MARK_AS_READ" => Ready(memory.db, m)
        BY <2>4 DEF Offered, Ready
      <4>2. Indexed(memory.db)
        BY <1>9 DEF Track
      <4> QED
        BY <1>2, <1>4, <1>8, <2>9, <4>1, <4>2, EffectReady
    <3>2. thread[w].batch = {} /\ next.batch = {} /\ next.pc = "idle"
      BY <1>7, <2>5, <2>9, <3>1 DEF Idle
    <3>3. Does(memory.db, m, out)
      BY <1>2, <1>4, <1>8, EffectDoes
    <3>4. \A id \in DOMAIN out.db.chats :
            id \in DOMAIN memory.db.chats /\ out.db.chats[id] = memory.db.chats[id]
      BY <1>2, <2>9, <3>1, <3>3, MessageFields DEF Does
    <3>5. Tells(next)'
      BY <1>3, <1>5, <2>7, <3>2, <3>4 DEF Tells
    <3> QED
      BY <2>2, <3>5
  <2> QED
    BY <2>8, <2>9
<1> QED
  BY <1>3, <1>7, <1>9, ToldStep

LEMMA ToldSave ==
  ASSUME Alone, Typed, Exclusive, Track, Told, NEW w \in Worker, Save(w)
  PROVE  Told'
<1>1. PICK m : m = thread[w].message
  OBVIOUS
<1>2. thread[w].pc = "saving" /\ m \in LogMessage
  BY <1>1 DEF Save, Typed, Handles
<1>3. /\ up /\ disk' = Append(disk, m)
      /\ UNCHANGED << up, memory, deliveries, calls, failed, crashes >>
  BY <1>1, <1>2, IdleIs DEF Save, Exclusive, faults
<1>4. File' = ReplayTurn(File, m)
  BY <1>2, <1>3, SavedOne
<1>5. PICK next : next = [thread[w] EXCEPT !.pc = "answering"]
  OBVIOUS
<1>6. next.pc = "answering" /\ next.batch = thread[w].batch
  BY <1>5 DEF Typed
<1>7. thread' = [thread EXCEPT ![w] = next]
  BY <1>5 DEF Save
<1>8. TypedState(File)
  BY RebuiltTyped DEF Typed, File
<1>9. ASSUME failed = 0 PROVE Counted' /\ Tells(next)'
  <2>1. Counted /\ Tells(thread[w])
    BY <1>9 DEF Told
  <2>2. Sound(File) /\ Ready(File.db, m)
    <3>1. Sound(File) /\ Follows(thread[w])
      BY <1>3, <1>9 DEF Track
    <3> QED
      BY <1>1, <1>2, <3>1 DEF Follows
  <2>3. PICK d : d = File.db
    OBVIOUS
  <2>4. PICK out : out = Effect(d, m)
    OBVIOUS
  <2>5. TypedDb(d) /\ Indexed(d)
    BY <1>8, <2>2, <2>3 DEF TypedState, Sound
  <2>6. out.ok
    BY <1>2, <2>2, <2>3, <2>4, <2>5, EffectReady
  <2>7. PICK e : e = out.db
    OBVIOUS
  <2>8. File'.db = e
    <3>1. File' = Replay(Self, File, m)
      BY <1>4, <2>2 DEF ReplayTurn, Sound
    <3> QED
      BY <2>3, <2>4, <2>7, <3>1, ReplayIs
  <2>9. \A id \in DOMAIN e.chats :
          \/ m.kind = "NEW_CHAT_MESSAGE" /\ id = m.id /\ e.chats[id] = m.chat
          \/ /\ id \in DOMAIN d.chats
             /\ e.chats[id].number = d.chats[id].number
             /\ e.chats[id].read <=>
                  \/ d.chats[id].read
                  \/ m.kind = "MARK_AS_READ" /\ id \in Range(m.ids)
    BY <1>2, <2>4, <2>5, <2>6, <2>7, EffectChats
  <2>10. m.kind = "NEW_CHAT_MESSAGE" =>
           /\ m.chat.number = calls /\ calls \in 1 .. MaxCalls
           /\ \A id \in DOMAIN d.chats : d.chats[id].number # calls
           /\ deliveries[calls] = 0
    BY <1>1, <1>2, <2>1, <2>3 DEF Tells
  <2>11. /\ \A id \in DOMAIN d.chats : d.chats[id].number \in 1 .. calls
         /\ \A i, j \in DOMAIN d.chats : d.chats[i].number = d.chats[j].number => i = j
         /\ \A id \in DOMAIN d.chats :
              ~ d.chats[id].read => deliveries[d.chats[id].number] = 0
    BY <2>1, <2>3 DEF Counted
  <2>12. \A id \in DOMAIN e.chats : e.chats[id].number \in 1 .. calls
    BY <2>9, <2>10, <2>11
  <2>13. \A i, j \in DOMAIN e.chats : e.chats[i].number = e.chats[j].number => i = j
    BY <2>9, <2>10, <2>11
  <2>14. \A id \in DOMAIN e.chats :
           ~ e.chats[id].read => deliveries[e.chats[id].number] = 0
    BY <2>9, <2>10, <2>11
  <2>15. Counted'
    BY <1>3, <2>1, <2>8, <2>12, <2>13, <2>14 DEF Counted
  <2>16. /\ thread[w].batch # {} => m.kind = "MARK_AS_READ"
         /\ m.kind = "MARK_AS_READ" =>
              thread[w].batch = { d.chats[id].number : id \in Range(m.ids) }
    BY <1>1, <1>2, <2>1, <2>3 DEF Tells
  <2>17. \A id \in DOMAIN e.chats : e.chats[id].number \in thread[w].batch => e.chats[id].read
    <3> TAKE id \in DOMAIN e.chats
    <3> HAVE e.chats[id].number \in thread[w].batch
    <3>1. m.kind = "MARK_AS_READ"
      BY <2>16
    <3>2. id \in DOMAIN d.chats /\ e.chats[id].number = d.chats[id].number
      BY <2>9, <3>1
    <3>3. PICK i \in Range(m.ids) : d.chats[i].number = d.chats[id].number
      BY <2>16, <3>1, <3>2
    <3>4. i \in DOMAIN d.chats
      BY <2>2, <2>3, <3>1 DEF Ready
    <3>5. i = id
      BY <2>11, <3>2, <3>3, <3>4
    <3> QED
      BY <2>9, <3>1, <3>5
  <2>18. /\ \A n \in thread[w].batch : n \in 1 .. calls /\ deliveries[n] = 0
         /\ \A id \in DOMAIN memory.db.chats :
              crashes = 0 /\ memory.db.chats[id].read =>
                \/ deliveries[memory.db.chats[id].number] > 0
                \/ memory.db.chats[id].number \in thread[w].batch
    BY <1>3, <2>1 DEF Tells
  <2>19. Tells(next)'
    BY <1>3, <1>6, <2>8, <2>17, <2>18 DEF Tells
  <2> QED
    BY <2>15, <2>19
<1> QED
  BY <1>3, <1>7, <1>9, ToldStep

LEMMA ToldEnd ==
  ASSUME Alone, Typed, Exclusive, Track, Told, NEW w \in Worker, SaveFails(w) \/ Answer(w)
  PROVE  Told'
<1>1. CASE SaveFails(w)
  <2>1. failed' # 0
    BY <1>1 DEF SaveFails, Typed
  <2> QED
    BY <2>1 DEF Told
<1>2. CASE Answer(w)
  <2>1. /\ thread' = [thread EXCEPT ![w] = Idle]
        /\ thread[w].pc = "answering"
        /\ UNCHANGED << up, memory, disk, calls, failed, crashes >> /\ File' = File
        /\ deliveries' = [ t \in DOMAIN deliveries |->
                             deliveries[t] + IF t \in thread[w].batch THEN 1 ELSE 0 ]
    BY <1>2 DEF Answer, faults, File
  <2>2. up
    BY <2>1, IdleIs DEF Exclusive
  <2>3. DOMAIN deliveries = 1 .. MaxCalls /\ \A n \in 1 .. MaxCalls : deliveries[n] \in Nat
    BY DEF Typed
  <2>4. PICK batch : batch = thread[w].batch
    OBVIOUS
  <2>5. \A n \in 1 .. MaxCalls :
          deliveries'[n] = IF n \in batch THEN deliveries[n] + 1 ELSE deliveries[n]
    BY <2>1, <2>3, <2>4
  <2>6. PICK next : next = Idle
    OBVIOUS
  <2>7. next.pc = "idle" /\ next.batch = {}
    BY <2>6 DEF Idle
  <2>8. calls \in Nat /\ MaxCalls \in Nat /\ calls <= MaxCalls
    BY ServerAssumption DEF Typed, ServerAssumption
  <2>9. ASSUME failed = 0 PROVE Counted' /\ Tells(next)'
    <3>1. Counted /\ Tells(thread[w]) /\ Smaller(memory.db, File.db)
      <4>1. Follows(thread[w])
        BY <2>2, <2>9 DEF Track
      <4> QED
        BY <2>1, <2>9, <4>1 DEF Told, Follows
    <3>2. \A n \in batch : n \in 1 .. calls /\ deliveries[n] = 0
      BY <2>4, <3>1 DEF Tells
    <3>3. \A id \in DOMAIN File.db.chats :
            File.db.chats[id].number \in batch => File.db.chats[id].read
      BY <2>1, <2>4, <3>1 DEF Tells
    <3>4. \A id \in DOMAIN File.db.chats :
            /\ File.db.chats[id].number \in 1 .. MaxCalls
            /\ ~ File.db.chats[id].read => deliveries'[File.db.chats[id].number] = 0
      <4> TAKE id \in DOMAIN File.db.chats
      <4>1. /\ File.db.chats[id].number \in 1 .. calls
            /\ ~ File.db.chats[id].read => deliveries[File.db.chats[id].number] = 0
        BY <3>1 DEF Counted
      <4>2. File.db.chats[id].number \in 1 .. MaxCalls
        BY <2>8, <4>1
      <4> QED
        BY <2>5, <3>3, <4>1, <4>2
    <3>5. \A n \in calls + 1 .. MaxCalls : deliveries'[n] = 0
      <4> TAKE n \in calls + 1 .. MaxCalls
      <4>1. n \in 1 .. MaxCalls /\ n \notin 1 .. calls
        BY <2>8
      <4> QED
        BY <2>5, <3>1, <3>2, <4>1 DEF Counted
    <3>6. \A n \in 1 .. MaxCalls : deliveries'[n] <= 1
      BY <2>3, <2>5, <3>1, <3>2 DEF Counted
    <3>7. Counted'
      BY <2>1, <3>1, <3>4, <3>5, <3>6 DEF Counted
    <3>8. \A id \in DOMAIN memory.db.chats :
            crashes = 0 /\ memory.db.chats[id].read =>
              deliveries'[memory.db.chats[id].number] > 0
      <4> TAKE id \in DOMAIN memory.db.chats
      <4> HAVE crashes = 0 /\ memory.db.chats[id].read
      <4> DEFINE n == memory.db.chats[id].number
      <4>1. deliveries[n] > 0 \/ n \in batch
        BY <2>2, <2>4, <3>1 DEF Tells
      <4>2. n \in 1 .. MaxCalls
        BY <3>1, <3>4 DEF Smaller
      <4> HIDE DEF n
      <4>3. deliveries'[n] > 0
        BY <2>3, <2>5, <4>1, <4>2
      <4> QED
        BY <4>3 DEF n
    <3>9. Tells(next)'
      BY <2>1, <2>7, <3>8 DEF Tells
    <3> QED
      BY <3>7, <3>9
  <2> QED
    BY <2>1, <2>6, <2>9, ToldStep
<1> QED
  BY <1>1, <1>2

LEMMA ToldProcess ==
  ASSUME Alone, Typed, Exclusive, Track, Told, Login \/ Crash \/ Start \/ UNCHANGED vars
  PROVE  Told'
<1>1. UNCHANGED << disk, failed, deliveries, calls >> /\ File' = File
  BY DEF Login, Crash, Start, vars, faults, File
<1>2. CASE Login \/ UNCHANGED vars
  <2>1. UNCHANGED << up, memory, thread, crashes >>
    BY <1>2 DEF Login, vars, faults
  <2> QED
    BY <1>1, <2>1 DEF Told, Counted, Tells
<1>3. CASE Crash
  <2>1. /\ crashes' # 0 /\ DOMAIN memory'.db.chats = {}
        /\ \A w \in Worker : thread'[w].pc = "idle" /\ thread'[w].batch = {}
    BY <1>3, FreshEmpty DEF Crash, Typed, Idle
  <2> QED
    BY <1>1, <2>1 DEF Told, Counted, Tells
<1>4. CASE Start
  <2>1. /\ ~ up /\ up' /\ memory' = File /\ UNCHANGED << thread, crashes >>
        /\ \A w \in Worker : thread'[w].pc = "idle" /\ thread'[w].batch = {}
    BY <1>4 DEF Start, File, Exclusive, Idle, faults
  <2>2. failed = 0 => Counted
    BY DEF Told
  <2>3. failed = 0 /\ crashes = 0 => DOMAIN File.db.chats = {}
    BY <2>1, <2>2 DEF Counted
  <2>4. failed = 0 => Counted'
    BY <1>1, <2>1, <2>2 DEF Counted
  <2>5. failed = 0 => \A w \in Worker : Tells(thread[w])'
    BY <1>1, <2>1, <2>3 DEF Tells
  <2> QED
    BY <1>1, <2>4, <2>5 DEF Told
<1> QED
  BY <1>2, <1>3, <1>4

LEMMA ToldInvariant ==
  ASSUME Alone
  PROVE  Spec => []Told
<1>1. TypeInv /\ Track /\ Track' /\ Told /\ [Next]_vars => Told'
  <2> SUFFICES ASSUME TypeInv, Track, Track', Told, [Next]_vars PROVE Told'
    OBVIOUS
  <2>1. Typed /\ Exclusive
    BY DEF TypeInv
  <2>2. CASE Login \/ Crash \/ Start \/ UNCHANGED vars
    BY <2>1, <2>2, ToldProcess
  <2>3. ASSUME NEW w \in Worker, Handle(w) PROVE Told'
    <3>1. CASE \/ CreateAccountCall(w)
               \/ SendMessageCall(w)
               \/ RequestMessagesCall(w)
               \/ DeleteMessagesCall(w)
               \/ DeleteAccountCall(w)
      BY <2>1, <3>1, ToldCall
    <3>2. CASE TakeId(w)
      BY <2>1, <3>2, ToldTakeId
    <3>3. CASE Dispatch(w)
      BY <2>1, <3>3, ToldDispatch
    <3>4. CASE Save(w)
      BY <2>1, <3>4, ToldSave
    <3>5. CASE SaveFails(w) \/ Answer(w)
      BY <2>1, <3>5, ToldEnd
    <3> QED
      BY <2>3, <3>1, <3>2, <3>3, <3>4, <3>5 DEF Handle
  <2> QED
    BY <2>2, <2>3 DEF Next
<1> QED
  BY <1>1, ToldInit, TrackInvariant, TypeInvInvariant, PTL DEF Spec

\* A chat message is handed out at most once by a server that handles its calls one
\* after the other, until a write fails: OperationHandler.requestMessages answers only
\* when LogReplay has saved that the page is read.
THEOREM DeliveredOnceHolds ==
  ASSUME Alone
  PROVE  Spec => []DeliveredOnce
<1>1. TypeInv /\ Told => DeliveredOnce
  BY DEF TypeInv, Typed, Told, Counted, DeliveredOnce
<1> QED
  BY <1>1, ToldInvariant, TypeInvInvariant, PTL

\* What such a server shows as read has been handed out or is about to be, until the
\* process dies or a write fails: OperationHandler.requestMessages marks the messages
\* it answers and no others.
THEOREM ReadIsDeliveredHolds ==
  ASSUME Alone
  PROVE  Spec => []ReadIsDelivered
<1>1. TypeInv /\ Track /\ Told => ReadIsDelivered
  <2> SUFFICES ASSUME TypeInv, Track, Told, faults = << 0, 0 >>,
                      NEW id \in DOMAIN db.chats, db.chats[id].read
               PROVE  \/ deliveries[db.chats[id].number] > 0
                      \/ \E w \in Worker : db.chats[id].number \in thread[w].batch
    BY DEF ReadIsDelivered
  <2>1. failed = 0 /\ crashes = 0
    BY DEF faults
  <2>2. up /\ Counted /\ \A w \in Worker : Tells(thread[w])
    BY <2>1 DEF Told, Counted, db
  <2>3. PICK w \in Worker : TRUE
    BY DEF Alone
  <2> QED
    BY <2>1, <2>2, <2>3 DEF Tells, db
<1> QED
  BY <1>1, ToldInvariant, TrackInvariant, TypeInvInvariant, PTL

=============================================================================
