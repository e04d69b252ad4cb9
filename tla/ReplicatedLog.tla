--------------------------- MODULE ReplicatedLog ---------------------------
(***************************************************************************)
(* What the files of the servers promise together, whatever happens to     *)
(* processes and connections: each is a growing set of log messages, a     *)
(* message enters the system once, through its originator, and another     *)
(* server only ever stores what the originator has stored, or has failed to *)
(* store and told its client so.                                           *)
(***************************************************************************)
EXTENDS Naturals

CONSTANTS
  Replica,   \* the servers
  Entry      \* the log messages, records with at least orig and seq

VARIABLES
  stored,    \* stored[r]: the messages on the file of r
  failed     \* the messages their originators could not store

vars == << stored, failed >>

\* m is newer than all messages of r so far.
Newest(r, m) ==
  /\ m \in Entry
  /\ m.orig = r
  /\ \A n \in failed \cup UNION { stored[p] : p \in Replica } :
       n.orig = r => n.seq < m.seq

\* The originator r stores a message newer than all it has issued before.
\* (Entry may be infinite: the message is picked among those of the step.)
Issue(r) ==
  /\ \E m \in stored'[r] :
       /\ Newest(r, m)
       /\ stored' = [stored EXCEPT ![r] = @ \cup {m}]
  /\ UNCHANGED failed

\* The originator r fails to store it.
FailToIssue(r) ==
  /\ \E m \in failed' :
       /\ Newest(r, m)
       /\ failed' = failed \cup {m}
  /\ UNCHANGED stored

\* Messages that their originators have stored.
Issued == { m \in UNION { stored[p] : p \in Replica } : m \in stored[m.orig] }

\* r stores messages it got from other servers.
Deliver(r) ==
  /\ \E S \in SUBSET (Issued \cup failed) :
       stored' = [stored EXCEPT ![r] = @ \cup S]
  /\ UNCHANGED failed

Init == stored = [r \in Replica |-> {}] /\ failed = {}

Next == \E r \in Replica : Issue(r) \/ FailToIssue(r) \/ Deliver(r)

Spec == Init /\ [][Next]_vars

=============================================================================
