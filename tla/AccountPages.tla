---------------------------- MODULE AccountPages ----------------------------
(***************************************************************************)
(* The pages in which accounts are listed: listAccounts of                 *)
(* OperationHandler.java, which answers a filter text and the timestamp of *)
(* the last account the client has, and the slices of its lists that the   *)
(* client shows.                                                           *)
(*                                                                         *)
(* An account is a number, and Stamp gives its millisecond of creation.    *)
(* Accounts may share one, and they need not become known in its order: it *)
(* is read before the dispatch, and other servers have clocks of their own *)
(* and relay what they create later.                                       *)
(***************************************************************************)
EXTENDS Naturals, Sequences, FiniteSets, SequencesExt

CONSTANTS
  Stamp,       \* Stamp[a]: the timestamp of account a, a sequence
  Matches,     \* Matches[text]: the accounts whose username contains the text
  MaxUsers     \* MAX_USERS_TO_DISPLAY

Account == DOMAIN Stamp

SearchText == DOMAIN Matches

ASSUME PagesAssumption ==
  /\ Stamp \in Seq(Nat \ {0})
  /\ Matches \in [SearchText -> SUBSET Account]
  /\ MaxUsers \in Nat \ {0}

Least(a, b) == IF a < b THEN a ELSE b

\* The page with the given number of a list, the first being 0.
Slice(list, page, size) ==
  SubSeq(list, page * size + 1, Least((page + 1) * size, Len(list)))

\* math.ceil(n / size)
PageCount(n, size) == (n + size - 1) \div size

\* The elements of a list that are in a set, in the order of the list.
Within(list, set) ==
  FoldLeft(LAMBDA kept, x : IF x \in set THEN Append(kept, x) ELSE kept, <<>>, list)

\* getAllAccounts of a server with the given accounts: by age, and those of one
\* millisecond in whatever order its hash map has them.
Listings ==
  [exist \in SUBSET Account |->
    { order \in Bijection(1 .. Cardinality(exist), exist) :
        \A i, j \in DOMAIN order : i < j => Stamp[order[i]] <= Stamp[order[j]] }]

\* The accounts that are younger than the last one the client has.
Younger(offset) == { a \in Account : Stamp[a] > offset }

\* Mutant of ListAccounts: the account at the offset is listed again.
ListAccountsFrom(order, text, offset) ==
  Slice(Within(Within(order, Matches[text]), { a \in Account : Stamp[a] >= offset }),
        0, MaxUsers)

\* What a server that has its accounts in the given order answers.
ListAccounts(order, text, offset) ==
  Slice(Within(Within(order, Matches[text]), Younger(offset)), 0, MaxUsers)

\* The offset that asks for what follows the last account of a list.
OffsetAfter(list) == IF list = <<>> THEN 0 ELSE Stamp[Last(list)]

=============================================================================
