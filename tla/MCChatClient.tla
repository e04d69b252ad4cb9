---------------------------- MODULE MCChatClient ----------------------------
(***************************************************************************)
(* ChatClient on small instances.                                          *)
(***************************************************************************)
EXTENDS ChatClient

CONSTANTS S, A

\* The configuration of the client names two of the servers.
TwoServers == << S, A >>

=============================================================================
