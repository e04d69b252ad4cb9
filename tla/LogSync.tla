------------------------------ MODULE LogSync ------------------------------
(***************************************************************************)
(* The backlog a replica hands to another one that introduces itself: the  *)
(* cutoff it is asked for (LogReplay.getLatestTimestamps), the part of the *)
(* log that lies beyond that cutoff (LogReplay.getNewerMessages) and the   *)
(* order the receiver applies it in                                        *)
(* (ReplicationService.handleIntroductionResponse).                        *)
(*                                                                         *)
(* A log message is a record with at least the fields orig (the            *)
(* originating replica), ts (its timestamp in milliseconds) and kind (which *)
(* of the five payloads of logreplay.proto it carries).                    *)
(***************************************************************************)
EXTENDS Naturals, Sequences, FiniteSets, FiniteSetsExt, Functions

\* The pass in which each kind of log message of a backlog is applied.
ReplayRank == [ NEW_ACCOUNT      |-> 1,
                NEW_CHAT_MESSAGE |-> 2,
                MARK_AS_READ     |-> 3,
                DELETE_MESSAGES  |-> 4,
                DELETE_ACCOUNT   |-> 5 ]

LogMessageCase == DOMAIN ReplayRank

\* Per originator, the largest timestamp of a message in the log; originators
\* with no message in the log have no sync state.
LatestTimestamps(messages) ==
  [ id \in { m.orig : m \in Range(messages) } |->
      Max({ m.ts : m \in { n \in Range(messages) : n.orig = id } }) ]

\* Mutants of NewerPositions: the cutoff is inclusive; it is the newest timestamp
\* of any originator.
InclusivePositions(messages, syncStates) ==
  { i \in DOMAIN messages :
      messages[i].orig \in DOMAIN syncStates
        => syncStates[messages[i].orig] <= messages[i].ts }

GlobalCutoffPositions(messages, syncStates) ==
  { i \in DOMAIN messages :
      \A id \in DOMAIN syncStates : syncStates[id] < messages[i].ts }

\* The positions of the log whose message is strictly newer than the sync
\* state of its originator, or whose originator has none.
NewerPositions(messages, syncStates) ==
  { i \in DOMAIN messages :
      messages[i].orig \in DOMAIN syncStates
        => syncStates[messages[i].orig] < messages[i].ts }

\* Position i is applied before position j: the passes go by kind, and within a
\* pass the messages keep the order they have in the sender's log.
AppliedBefore(messages, i, j) ==
  LET rank(k) == ReplayRank[messages[k].kind]
  IN  \/ rank(i) < rank(j)
      \/ rank(i) = rank(j) /\ i < j

\* The place of position i when the positions S are applied.
Place(messages, S, i) ==
  Cardinality({ j \in S : j = i \/ AppliedBefore(messages, j, i) })

\* The messages at positions S in the order they are applied.
ReplayOrder(messages, S) ==
  [ k \in 1 .. Cardinality(S) |->
      messages[CHOOSE i \in S : Place(messages, S, i) = k] ]

\* What a replica with the log "mine" receives and applies, in order, when it
\* introduces itself to a replica with the log "theirs".
Backlog(theirs, mine) ==
  ReplayOrder(theirs, NewerPositions(theirs, LatestTimestamps(mine)))

=============================================================================
