--------------------------- MODULE MCReplication ---------------------------
(***************************************************************************)
(* Replication on small instances: which servers are interchangeable.      *)
(***************************************************************************)
EXTENDS Replication

\* Seed has a role of its own, and so has a writer unless every other server
\* writes as well.
Interchangeable ==
  IF Writer \cup {Seed} = Replica THEN Replica \ {Seed}
                                  ELSE Replica \ (Writer \cup {Seed})

Symmetry == Permutations(Interchangeable)

=============================================================================
