----------------------------- MODULE MCClientUI -----------------------------
(***************************************************************************)
(* ClientUI on a small instance: four accounts, of which the first two     *)
(* exist at the start.  The third is older than the second when it becomes *)
(* known, and the fourth was created in the millisecond of the second.     *)
(***************************************************************************)
EXTENDS ClientUI

MCStamp == << 1, 3, 2, 3 >>

MCMatches == [text \in {"", "x"} |-> IF text = "" THEN 1 .. 4 ELSE {1, 3}]

=============================================================================
