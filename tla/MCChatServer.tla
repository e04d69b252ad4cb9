---------------------------- MODULE MCChatServer ----------------------------
(***************************************************************************)
(* ChatServer on small instances.                                          *)
(***************************************************************************)
EXTENDS ChatServer

CONSTANTS Ann, Bob

\* The two users that have registered before.
TwoMembers == << Ann, Bob >>

Symmetry == Permutations(Worker)

=============================================================================
