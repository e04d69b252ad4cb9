------------------------- MODULE ReplicationProofs -------------------------
(***************************************************************************)
(* Theorems about Replication for any number of servers, messages and      *)
(* faults, whatever set of faults may happen.  First what an introduction  *)
(* transfers (LogSync), for logs of every length: exactly the messages     *)
(* beyond the cutoffs, each once, in the order of the passes; then the     *)
(* type invariant.                                                         *)
(*                                                                         *)
(* Then what the files of the servers keep, whatever crashes, is lost,     *)
(* throws or comes late: an originator has every message it relayed on its *)
(* file, and every other message that exists failed to get there           *)
(* (WriteAheadHolds), and the files implement the abstract replicated log  *)
(* (ImplementsAbstractLog).  Both rest on one fact about single steps,     *)
(* FileStep.                                                               *)
(*                                                                         *)
(* And what they never hold twice: between two servers no log message is   *)
(* replayed again (NoDuplicatesHolds), since an introduction only brings   *)
(* what the caller lacks, and a relay is only under way while the callee   *)
(* cannot have the message.                                                *)
(***************************************************************************)
EXTENDS Replication, FiniteSetTheorems, SequenceTheorems, WellFoundedInduction,
        TLAPS

-----------------------------------------------------------------------------
\* Backlogs

LEMMA RankIsNat == \A kind \in LogMessageCase : ReplayRank[kind] \in Nat
BY DEF LogMessageCase, ReplayRank

\* Place numbers the positions S from 1 to their number, without gaps and
\* without ties.
LEMMA PlaceIsBijection ==
  ASSUME NEW messages, NEW S \in SUBSET Nat, IsFiniteSet(S),
         \A i \in S : messages[i].kind \in LogMessageCase
  PROVE  /\ Cardinality(S) \in Nat
         /\ \A i \in S : Place(messages, S, i) \in 1 .. Cardinality(S)
         /\ \A i, j \in S : Place(messages, S, i) = Place(messages, S, j) => i = j
         /\ \A k \in 1 .. Cardinality(S) : \E i \in S : Place(messages, S, i) = k
         /\ \A i, j \in S : AppliedBefore(messages, i, j)
                              => Place(messages, S, i) < Place(messages, S, j)
<1> DEFINE before(i) == { j \in S : j = i \/ AppliedBefore(messages, j, i) }
           place == [i \in S |-> Place(messages, S, i)]
           rank(i) == ReplayRank[messages[i].kind]
<1>0. \A i, j \in S : AppliedBefore(messages, i, j)
                         <=> rank(i) < rank(j) \/ (rank(i) = rank(j) /\ i < j)
  BY Zenon DEF AppliedBefore
<1>1. \A i \in S : rank(i) \in Nat
  BY RankIsNat
<1> HIDE DEF rank
<1>2. /\ Cardinality(S) \in Nat
      /\ \A i \in S : /\ IsFiniteSet(before(i))
                      /\ Cardinality(before(i)) \in Nat
                      /\ Cardinality(before(i)) <= Cardinality(S)
                      /\ Cardinality(before(i)) # 0
  <2>1. Cardinality(S) \in Nat
    BY FS_CardinalityType
  <2>2. ASSUME NEW i \in S
        PROVE  /\ IsFiniteSet(before(i))
               /\ Cardinality(before(i)) \in Nat
               /\ Cardinality(before(i)) <= Cardinality(S)
               /\ Cardinality(before(i)) # 0
    <3>1. before(i) \subseteq S /\ i \in before(i)
      OBVIOUS
    <3>2. IsFiniteSet(before(i)) /\ Cardinality(before(i)) <= Cardinality(S)
      BY <3>1, FS_Subset
    <3>3. before(i) # {}
      BY <3>1
    <3> QED
      BY <3>2, <3>3, FS_CardinalityType, FS_EmptySet
  <2> QED
    BY <2>1, <2>2
<1>3. \A i \in S : Place(messages, S, i) \in 1 .. Cardinality(S)
  BY <1>2 DEF Place
<1>4. ASSUME NEW i \in S, NEW j \in S, AppliedBefore(messages, i, j)
      PROVE  Place(messages, S, i) < Place(messages, S, j)
  <2>1. ASSUME NEW k \in before(i) PROVE k \in before(j)
    <3>1. k \in S /\ (k = i \/ AppliedBefore(messages, k, i))
      BY <2>1
    <3>2. CASE k = i
      BY <1>4, <3>1, <3>2
    <3>3. CASE AppliedBefore(messages, k, i)
      <4>1. rank(k) < rank(i) \/ (rank(k) = rank(i) /\ k < i)
        BY <1>0, <3>1, <3>3
      <4>2. rank(i) < rank(j) \/ (rank(i) = rank(j) /\ i < j)
        BY <1>0, <1>4
      <4>3. /\ rank(i) \in Nat /\ rank(j) \in Nat /\ rank(k) \in Nat
            /\ i \in Nat /\ j \in Nat /\ k \in Nat
        BY <1>1, <3>1
      <4>4. rank(k) < rank(j) \/ (rank(k) = rank(j) /\ k < j)
        BY <4>1, <4>2, <4>3
      <4> QED
        BY <1>0, <3>1, <4>4
    <3> QED
      BY <3>1, <3>2, <3>3
  <2>2. j \in before(j) /\ j \notin before(i)
    BY <1>0, <1>1, <1>4
  <2>3. before(i) # before(j)
    BY <2>2
  <2>4. /\ Cardinality(before(i)) <= Cardinality(before(j))
        /\ Cardinality(before(i)) # Cardinality(before(j))
    BY <1>2, <2>1, <2>3, FS_Subset
  <2> QED
    BY <1>2, <2>4 DEF Place
<1>5. ASSUME NEW i \in S, NEW j \in S, i # j
      PROVE  AppliedBefore(messages, i, j) \/ AppliedBefore(messages, j, i)
  BY <1>0, <1>1, <1>5
<1>6. \A i, j \in S : Place(messages, S, i) = Place(messages, S, j) => i = j
  BY <1>3, <1>4, <1>5
<1>7. \A k \in 1 .. Cardinality(S) : \E i \in S : Place(messages, S, i) = k
  <2>1. place \in Injection(S, 1 .. Cardinality(S))
    BY <1>3, <1>6 DEF Injection, IsInjective
  <2>2. /\ IsFiniteSet(1 .. Cardinality(S))
        /\ Cardinality(1 .. Cardinality(S)) = Cardinality(S)
    BY <1>2, FS_Interval
  <2>3. place \in Surjection(S, 1 .. Cardinality(S))
    BY <2>1, <2>2, FS_Injection
  <2> QED
    BY <2>3 DEF Surjection
<1> QED
  BY <1>2, <1>3, <1>4, <1>6, <1>7

\* The backlog of handleIntroductionResponse holds exactly the messages at the
\* positions getNewerMessages selects, and it is as long as there are such
\* positions: nothing is lost and nothing is applied twice by the sorting.
THEOREM BacklogIsSelection ==
  ASSUME NEW E, \A m \in E : m.kind \in LogMessageCase,
         NEW theirs \in Seq(E), NEW mine
  PROVE  LET S == NewerPositions(theirs, LatestTimestamps(mine))
         IN  /\ Backlog(theirs, mine) \in Seq(E)
             /\ Range(Backlog(theirs, mine)) = { theirs[i] : i \in S }
             /\ Len(Backlog(theirs, mine)) = Cardinality(S)
<1> DEFINE S == NewerPositions(theirs, LatestTimestamps(mine))
           at(k) == CHOOSE i \in S : Place(theirs, S, i) = k
           n == Cardinality(S)
<1>1. /\ Len(theirs) \in Nat
      /\ DOMAIN theirs = 1 .. Len(theirs)
      /\ \A i \in 1 .. Len(theirs) : theirs[i] \in E
  BY LenProperties, ElementOfSeq
<1>2. S \subseteq 1 .. Len(theirs)
  BY <1>1 DEF NewerPositions
<1>3. IsFiniteSet(S) /\ S \in SUBSET Nat
  <2>1. IsFiniteSet(1 .. Len(theirs)) /\ 1 .. Len(theirs) \subseteq Nat
    BY <1>1, FS_Interval
  <2> QED
    BY <1>2, <2>1, FS_Subset
<1>4. \A i \in S : theirs[i] \in E /\ theirs[i].kind \in LogMessageCase
  BY <1>1, <1>2
<1> HIDE DEF S
<1>5. /\ n \in Nat
      /\ \A i \in S : Place(theirs, S, i) \in 1 .. n
      /\ \A i, j \in S : Place(theirs, S, i) = Place(theirs, S, j) => i = j
      /\ \A k \in 1 .. n : \E i \in S : Place(theirs, S, i) = k
  BY <1>3, <1>4, PlaceIsBijection
<1>6. \A k \in 1 .. n : at(k) \in S /\ Place(theirs, S, at(k)) = k
  BY <1>5
<1>7. \A i \in S : at(Place(theirs, S, i)) = i
  BY <1>5, <1>6
<1>8. Backlog(theirs, mine) = [k \in 1 .. n |-> theirs[at(k)]]
  BY DEF Backlog, ReplayOrder, S
<1> HIDE DEF at, n
<1>9. [k \in 1 .. n |-> theirs[at(k)]] \in [1 .. n -> E]
  BY <1>4, <1>6
<1>10. Backlog(theirs, mine) \in Seq(E) /\ Len(Backlog(theirs, mine)) = n
  BY <1>5, <1>8, <1>9, SeqDef
<1>11. Range(Backlog(theirs, mine)) = { theirs[at(k)] : k \in 1 .. n }
  BY <1>8 DEF Range
<1>12. { theirs[at(k)] : k \in 1 .. n } = { theirs[i] : i \in S }
  BY <1>5, <1>6, <1>7
<1> QED
  BY <1>10, <1>11, <1>12 DEF S, n

-----------------------------------------------------------------------------
\* Largest elements

\* A set of numbers has a smallest one: induction, in the form in which it can be
\* used about data.
LEMMA SmallestNumber ==
  ASSUME NEW T \in SUBSET Nat, T # {}
  PROVE  \E x \in T : \A y \in T : x <= y
<1> DEFINE R == OpToRel(<, Nat)
<1>1. IsWellFoundedOn(R, Nat)
  BY NatLessThanWellFounded
<1>2. \A x, y \in Nat : x < y => << x, y >> \in R
  BY DEF OpToRel
<1> HIDE DEF R
<1>3. PICK x \in T : \A y \in T : ~ (<< y, x >> \in R)
  BY <1>1, WFMin
<1>4. \A y \in T : ~ (y < x)
  BY <1>2, <1>3
<1>5. \A y \in T : x <= y
  BY <1>4
<1> QED
  BY <1>5

\* A finite set of numbers is bounded: otherwise take an unbounded part of it with
\* as few elements as possible, and remove one.
LEMMA FiniteSetIsBounded ==
  ASSUME NEW S \in SUBSET Nat, IsFiniteSet(S)
  PROVE  \E bound \in Nat : \A x \in S : x <= bound
<1> DEFINE Bounded(U) == \E bound \in Nat : \A x \in U : x <= bound
           T == { Cardinality(U) : U \in { V \in SUBSET S : ~ Bounded(V) } }
<1>1. \A U \in SUBSET S : IsFiniteSet(U) /\ Cardinality(U) \in Nat
  BY FS_Subset, FS_CardinalityType
<1>2. SUFFICES ASSUME T # {} PROVE FALSE
  OBVIOUS
<1>3. T \in SUBSET Nat
  BY <1>1
<1>4. PICK U \in SUBSET S : /\ ~ Bounded(U)
                            /\ \A V \in SUBSET S :
                                 ~ Bounded(V) => Cardinality(U) <= Cardinality(V)
  <2>1. PICK t \in T : \A u \in T : t <= u
    BY <1>2, <1>3, SmallestNumber
  <2>2. PICK U \in SUBSET S : ~ Bounded(U) /\ t = Cardinality(U)
    BY <2>1
  <2>3. \A V \in SUBSET S : ~ Bounded(V) => Cardinality(V) \in T
    OBVIOUS
  <2> QED
    BY <2>1, <2>2, <2>3
<1>5. U # {}
  BY <1>4
<1>6. PICK x \in U : TRUE
  BY <1>5
<1>7. Cardinality(U \ {x}) = Cardinality(U) - 1
  BY <1>1, <1>6, FS_RemoveElement
<1>8. PICK b \in Nat : \A y \in U \ {x} : y <= b
  <2>1. U \ {x} \in SUBSET S
    BY <1>4
  <2> QED
    BY <1>1, <1>4, <1>7, <2>1
<1>9. x \in Nat
  BY <1>4, <1>6
<1>10. x + b \in Nat /\ \A y \in U : y <= x + b
  BY <1>8, <1>9
<1> QED
  BY <1>4, <1>10

\* So it has a largest element, which is what Max chooses.
LEMMA LargestNumber ==
  ASSUME NEW S \in SUBSET Nat, IsFiniteSet(S), S # {}
  PROVE  Max(S) \in S /\ \A x \in S : x <= Max(S)
<1> DEFINE T(bound) == { bound - x : x \in S }
<1>1. PICK bound \in Nat : \A x \in S : x <= bound
  BY FiniteSetIsBounded
<1>2. \A x \in S : bound - x \in Nat
  BY <1>1
<1>3. T(bound) \in SUBSET Nat /\ T(bound) # {}
  BY <1>2
<1>4. PICK t \in T(bound) : \A u \in T(bound) : t <= u
  BY <1>3, SmallestNumber
<1>5. PICK x \in S : t = bound - x
  BY <1>4
<1>6. ASSUME NEW y \in S PROVE x >= y
  <2>1. bound - x <= bound - y
    BY <1>4, <1>5, <1>6
  <2> QED
    BY <1>1, <1>5, <1>6, <2>1
<1> QED
  BY <1>6 DEF Max

\* The cutoff of an originator that has a message in the log is the timestamp of one
\* of its messages, and no message of it is later.
LEMMA CutoffIsLatest ==
  ASSUME NEW E, \A m \in E : m.ts \in Nat, NEW messages \in Seq(E),
         NEW m \in Range(messages)
  PROVE  LET cutoff == LatestTimestamps(messages) IN
         /\ m.orig \in DOMAIN cutoff
         /\ \E n \in Range(messages) : n.orig = m.orig /\ n.ts = cutoff[m.orig]
         /\ cutoff[m.orig] \in Nat
         /\ m.ts <= cutoff[m.orig]
<1> DEFINE P == { n \in Range(messages) : n.orig = m.orig }
           S == { n.ts : n \in P }
<1>1. /\ Len(messages) \in Nat /\ DOMAIN messages = 1 .. Len(messages)
      /\ \A i \in 1 .. Len(messages) : messages[i] \in E
  BY LenProperties, ElementOfSeq
<1>2. IsFiniteSet(S)
  <2>1. IsFiniteSet(1 .. Len(messages))
    <3>1. 1 \in Int /\ Len(messages) \in Int
      BY <1>1
    <3> QED
      BY <3>1, FS_Interval
  <2>2. [i \in 1 .. Len(messages) |-> messages[i]]
          \in Surjection(1 .. Len(messages), Range(messages))
    BY <1>1 DEF Surjection, Range
  <2>3. IsFiniteSet(Range(messages))
    BY <2>1, <2>2, FS_Surjection
  <2>4. IsFiniteSet(P)
    BY <2>3, FS_Subset
  <2>5. [n \in P |-> n.ts] \in Surjection(P, S)
    BY DEF Surjection
  <2> QED
    BY <2>4, <2>5, FS_Surjection
<1>3. S \in SUBSET Nat /\ S # {} /\ m.ts \in S
  BY <1>1 DEF Range
<1> HIDE DEF S
<1>4. Max(S) \in S /\ Max(S) \in Nat /\ m.ts <= Max(S)
  BY <1>2, <1>3, LargestNumber
<1>5. /\ m.orig \in DOMAIN LatestTimestamps(messages)
      /\ LatestTimestamps(messages)[m.orig] = Max(S)
  BY DEF LatestTimestamps, S
<1> QED
  BY <1>4, <1>5 DEF S

\* An introduction never brings what the caller already has, and brings nothing
\* twice: all messages of an originator that the caller has are at or below its
\* cutoff, and only what lies beyond is selected (LogReplay.java:79-113).
THEOREM BacklogIsNew ==
  ASSUME NEW E, \A m \in E : m.kind \in LogMessageCase /\ m.ts \in Nat,
         NEW theirs \in Seq(E), NEW mine \in Seq(E)
  PROVE  /\ Range(Backlog(theirs, mine)) \cap Range(mine) = {}
         /\ IsInjective(theirs) => IsInjective(Backlog(theirs, mine))
<1> DEFINE S == NewerPositions(theirs, LatestTimestamps(mine))
           at(k) == CHOOSE i \in S : Place(theirs, S, i) = k
           n == Cardinality(S)
<1>1. /\ Len(theirs) \in Nat
      /\ DOMAIN theirs = 1 .. Len(theirs)
      /\ \A i \in 1 .. Len(theirs) : theirs[i] \in E
  BY LenProperties, ElementOfSeq
<1>2. S \subseteq 1 .. Len(theirs)
  BY <1>1 DEF NewerPositions
<1>3. ASSUME NEW i \in S PROVE theirs[i] \notin Range(mine)
  <2>1. SUFFICES ASSUME theirs[i] \in Range(mine) PROVE FALSE
    OBVIOUS
  <2> DEFINE m == theirs[i]
             cutoff == LatestTimestamps(mine)
  <2>2. m \in E /\ m.ts \in Nat
    BY <1>1, <1>2
  <2>3. m.orig \in DOMAIN cutoff => cutoff[m.orig] < m.ts
    BY DEF NewerPositions
  <2>4. m.orig \in DOMAIN cutoff /\ cutoff[m.orig] \in Nat /\ m.ts <= cutoff[m.orig]
    BY <2>1, CutoffIsLatest
  <2> QED
    BY <2>2, <2>3, <2>4
<1>4. Range(Backlog(theirs, mine)) = { theirs[i] : i \in S }
  BY BacklogIsSelection
<1>5. IsFiniteSet(S) /\ S \in SUBSET Nat /\ \A i \in S : theirs[i].kind \in LogMessageCase
  <2>1. IsFiniteSet(1 .. Len(theirs)) /\ 1 .. Len(theirs) \subseteq Nat
    BY <1>1, FS_Interval
  <2> QED
    BY <1>1, <1>2, <2>1, FS_Subset
<1>6. Backlog(theirs, mine) = [k \in 1 .. n |-> theirs[at(k)]]
  BY DEF Backlog, ReplayOrder
<1> HIDE DEF S
<1>7. \A k \in 1 .. n : \E i \in S : Place(theirs, S, i) = k
  BY <1>5, PlaceIsBijection
<1>8. \A k \in 1 .. n : at(k) \in S /\ Place(theirs, S, at(k)) = k
  BY <1>7
<1> HIDE DEF at, n
<1>9. ASSUME IsInjective(theirs) PROVE IsInjective(Backlog(theirs, mine))
  <2> SUFFICES ASSUME NEW a \in 1 .. n, NEW b \in 1 .. n, theirs[at(a)] = theirs[at(b)]
               PROVE  a = b
    BY <1>6 DEF IsInjective
  <2>1. at(a) \in DOMAIN theirs /\ at(b) \in DOMAIN theirs
    BY <1>1, <1>2, <1>8
  <2>2. at(a) = at(b)
    BY <1>9, <2>1 DEF IsInjective
  <2> QED
    BY <1>8, <2>2
<1> QED
  BY <1>3, <1>4, <1>9

-----------------------------------------------------------------------------
\* Sequences of messages

LEMMA EntryKind == \A m \in Entry : m.kind \in LogMessageCase
BY ConstantsAssumption DEF Entry

LEMMA EntryIsNotNone == None \notin Entry /\ None \notin Replica
BY NoneIsNoEntry

\* The messages of a concatenation are those of its parts.
LEMMA RangeOfConcat ==
  ASSUME NEW S, NEW s \in Seq(S), NEW t \in Seq(S)
  PROVE  /\ s \o t \in Seq(S)
         /\ Range(s \o t) = Range(s) \cup Range(t)
<1>1. /\ s \o t \in Seq(S)
      /\ Len(s \o t) = Len(s) + Len(t)
      /\ \A i \in 1 .. Len(s) + Len(t) :
           (s \o t)[i] = IF i <= Len(s) THEN s[i] ELSE t[i - Len(s)]
  BY ConcatProperties
<1>2. /\ Len(s) \in Nat /\ DOMAIN s = 1 .. Len(s)
      /\ Len(t) \in Nat /\ DOMAIN t = 1 .. Len(t)
      /\ DOMAIN (s \o t) = 1 .. Len(s) + Len(t)
  BY <1>1, LenProperties
<1>3. ASSUME NEW m \in Range(s \o t) PROVE m \in Range(s) \cup Range(t)
  <2>1. PICK i \in 1 .. Len(s) + Len(t) : m = (s \o t)[i]
    BY <1>2, <1>3 DEF Range
  <2>2. CASE i <= Len(s)
    BY <1>1, <1>2, <2>1, <2>2 DEF Range
  <2>3. CASE ~ (i <= Len(s))
    <3>1. i - Len(s) \in 1 .. Len(t) /\ m = t[i - Len(s)]
      BY <1>1, <1>2, <2>1, <2>3
    <3> QED
      BY <1>2, <3>1 DEF Range
  <2> QED
    BY <2>2, <2>3
<1>4. ASSUME NEW m \in Range(s) PROVE m \in Range(s \o t)
  <2>1. PICK i \in 1 .. Len(s) : m = s[i]
    BY <1>2, <1>4 DEF Range
  <2>2. i \in 1 .. Len(s) + Len(t) /\ (s \o t)[i] = m
    BY <1>1, <1>2, <2>1
  <2> QED
    BY <1>2, <2>2 DEF Range
<1>5. ASSUME NEW m \in Range(t) PROVE m \in Range(s \o t)
  <2>1. PICK i \in 1 .. Len(t) : m = t[i]
    BY <1>2, <1>5 DEF Range
  <2>2. /\ i + Len(s) \in 1 .. Len(s) + Len(t)
        /\ ~ (i + Len(s) <= Len(s))
        /\ (i + Len(s)) - Len(s) = i
    BY <1>2, <2>1
  <2>3. (s \o t)[i + Len(s)] = m
    BY <1>1, <2>1, <2>2
  <2> QED
    BY <1>2, <2>2, <2>3 DEF Range
<1> QED
  BY <1>1, <1>3, <1>4, <1>5

\* A message alone.
LEMMA RangeOfOne ==
  ASSUME NEW S, NEW m \in S
  PROVE  << m >> \in Seq(S) /\ Range(<< m >>) = {m}
BY DEF Range

\* The first k messages of a sequence.
LEMMA RangeOfPrefix ==
  ASSUME NEW S, NEW s \in Seq(S), NEW k \in 0 .. Len(s)
  PROVE  SubSeq(s, 1, k) \in Seq(S) /\ Range(SubSeq(s, 1, k)) \subseteq Range(s)
<1>1. Len(s) \in Nat /\ DOMAIN s = 1 .. Len(s) /\ \A i \in 1 .. Len(s) : s[i] \in S
  BY LenProperties, ElementOfSeq
<1>2. k \in Int /\ k >= 0 /\ k <= Len(s) /\ \A i \in 1 .. k : s[i] \in S
  BY <1>1
<1>3. /\ SubSeq(s, 1, k) \in Seq(S)
      /\ Len(SubSeq(s, 1, k)) = IF 1 <= k THEN k - 1 + 1 ELSE 0
      /\ \A i \in 1 .. k - 1 + 1 : SubSeq(s, 1, k)[i] = s[1 + i - 1]
  BY <1>2, SubSeqProperties
<1>4. DOMAIN SubSeq(s, 1, k) = 1 .. k
  BY <1>2, <1>3, LenProperties
<1>5. \A i \in 1 .. k : SubSeq(s, 1, k)[i] = s[i] /\ i \in 1 .. Len(s)
  BY <1>1, <1>2, <1>3
<1> QED
  BY <1>1, <1>3, <1>4, <1>5 DEF Range

\* An answer consists of messages of the callee's log.
LEMMA AnswerType ==
  ASSUME TypeOK, NEW r \in Replica, NEW p \in Replica
  PROVE  /\ Answer(r, p) \in Seq(Entry)
         /\ Range(Answer(r, p)) \subseteq Range(log[p])
<1>1. log[p] \in Seq(Entry)
  BY DEF TypeOK
<1>2. LET S == NewerPositions(log[p], LatestTimestamps(log[r]))
      IN  /\ Answer(r, p) \in Seq(Entry)
          /\ Range(Answer(r, p)) = { log[p][i] : i \in S }
  BY <1>1, EntryKind, BacklogIsSelection DEF Answer
<1>3. \A i \in NewerPositions(log[p], LatestTimestamps(log[r])) :
        log[p][i] \in Range(log[p])
  BY DEF NewerPositions, Range
<1> QED
  BY <1>2, <1>3

\* What a server adds to its introduction points are servers.
LEMMA NewPointsType ==
  ASSUME TypeOK, NEW r \in Replica, NEW p \in Replica, NEW more \in NewPoints(r, p)
  PROVE  more \in Seq(Replica)
<1> DEFINE S == live[p] \ (live[r] \cup { p, r })
<1>1. S \subseteq Replica
  BY DEF TypeOK
<1>2. more \in SetToSeqs(S)
  BY DEF NewPoints
<1> HIDE DEF S
<1>3. IsFiniteSet(S)
  <2>1. IsFiniteSet(Replica)
    BY ConstantsAssumption
  <2> QED
    BY <1>1, <2>1, FS_Subset
<1>4. Cardinality(S) \in Nat
  BY <1>3, FS_CardinalityType
<1>5. more \in [1 .. Cardinality(S) -> S]
  BY <1>2, Zenon DEF SetToSeqs
<1>6. more \in [1 .. Cardinality(S) -> Replica]
  BY <1>1, <1>5
<1> QED
  BY <1>4, <1>6, SeqDef

-----------------------------------------------------------------------------
\* Types

\* The sets of phases are expanded throughout.
USE DEF DispatchPhases, CallPhases

\* Call stacks with the types of TypeOK.
StackType ==
  /\ phase \in [Replica -> Phase]
  /\ todo \in [Replica -> SUBSET Replica]
  /\ target \in [Replica -> Replica \cup {None}]
  /\ queue \in [Replica -> Seq(Replica)]
  /\ waits \in [Replica -> Replica \cup {None}]

LateType == [from : Replica, to : Replica, message : Entry \cup {None}]

LEMMA EmptySeqType == <<>> \in Seq(Replica) /\ <<>> \in Seq(Entry)
OBVIOUS

\* Entering a phase that fits the call stack keeps call stacks well-formed;
\* the message being relayed is left alone or dropped by the caller.
LEMMA EnterType ==
  ASSUME TypeOK, NEW r \in Replica, NEW ph \in Phase, NEW left \in SUBSET Replica,
         NEW tgt \in Replica \cup {None}, NEW points \in Seq(Replica),
         Enter(r, ph, left, tgt, points),
         current' \in [Replica -> Entry \cup {None}],
         \A q \in Replica \ {r} : current'[q] = current[q],
         ph \in { "introducing", "resync" } <=> points # <<>>,
         ph \in { "resync", "again" } <=> tgt # None,
         ph \in DispatchPhases <=> current'[r] # None
  PROVE  StackType' /\ CallStack'
<1>1. StackType'
  BY DEF TypeOK, Enter, StackType
<1>2. /\ phase'[r] = ph /\ target'[r] = tgt /\ queue'[r] = points
      /\ waits'[r] = None
      /\ \A q \in Replica \ {r} : /\ phase'[q] = phase[q]
                                  /\ target'[q] = target[q]
                                  /\ queue'[q] = queue[q]
                                  /\ waits'[q] = waits[q]
  BY DEF TypeOK, Enter
<1>3. CallStack'
  <2> SUFFICES ASSUME NEW q \in Replica
               PROVE  /\ phase'[q] \in { "introducing", "resync" } <=> queue'[q] # <<>>
                      /\ phase'[q] \in { "resync", "again" } <=> target'[q] # None
                      /\ phase'[q] \in DispatchPhases <=> current'[q] # None
                      /\ phase'[q] \notin CallPhases => waits'[q] = None
    BY DEF CallStack, Introducing
  <2>1. CASE q = r
    BY <1>2, <2>1
  <2>2. CASE q # r
    <3>1. /\ phase[q] \in { "introducing", "resync" } <=> queue[q] # <<>>
          /\ phase[q] \in { "resync", "again" } <=> target[q] # None
          /\ phase[q] \in DispatchPhases <=> current[q] # None
          /\ phase[q] \notin CallPhases => waits[q] = None
      BY DEF TypeOK, CallStack, Introducing
    <3> QED
      BY <1>2, <2>2, <3>1
  <2> QED
    BY <2>1, <2>2
<1> QED
  BY <1>1, <1>3

LEMMA KeepType ==
  ASSUME TypeOK, NEW r \in Replica, NEW es \in Seq(Entry), NEW saved \in Seq(Entry),
         Keep(r, es, saved)
  PROVE  log' \in [Replica -> Seq(Entry)] /\ disk' \in [Replica -> Seq(Entry)]
<1>1. /\ log \in [Replica -> Seq(Entry)] /\ log[r] \o es \in Seq(Entry)
      /\ disk \in [Replica -> Seq(Entry)] /\ disk[r] \o saved \in Seq(Entry)
  BY RangeOfConcat DEF TypeOK
<1> QED
  BY <1>1 DEF Keep

LEMMA ReceiveType ==
  ASSUME TypeOK, NEW r \in Replica, NEW es \in Seq(Entry), ReceiveMessages(r, es)
  PROVE  log' \in [Replica -> Seq(Entry)] /\ disk' \in [Replica -> Seq(Entry)]
BY KeepType DEF ReceiveMessages

\* A new message is one, and is stamped.
LEMMA NewMessageType ==
  ASSUME TypeOK, NEW r \in Replica, NEW m \in NewMessages(r)
  PROVE  /\ m \in Entry /\ m.orig = r /\ m.seq = issued[r] + 1
         /\ m.ts \in Nat /\ m.ts \in { clock[r], clock[r] + 1 }
         /\ "sameMs" \notin Faults => m.ts = clock[r] + 1
<1>1. Chats(log[r]) \subseteq Replica \X Nat
  <2>1. Range(log[r]) \subseteq Entry
    <3>1. log[r] \in Seq(Entry)
      BY DEF TypeOK
    <3> QED
      BY <3>1, ElementOfSeq, LenProperties DEF Range
  <2> QED
    BY <2>1 DEF Chats, Entry
<1>2. issued[r] \in Nat /\ clock[r] \in Nat
  BY DEF TypeOK
<1>3. /\ m.orig = r /\ m.seq = issued[r] + 1 /\ m.kind \in Kinds
      /\ m.ts \in { clock[r], clock[r] + 1 }
      /\ "sameMs" \notin Faults => m.ts = clock[r] + 1
      /\ m.marks \in SUBSET Chats(log[r])
      /\ m = [orig |-> m.orig, seq |-> m.seq, ts |-> m.ts, kind |-> m.kind,
              marks |-> m.marks]
  BY DEF NewMessages
<1>4. m \in Entry
  BY <1>1, <1>2, <1>3 DEF Entry
<1> QED
  BY <1>2, <1>3, <1>4

LEMMA StampsType ==
  ASSUME TypeOK, NEW r \in Replica, NEW m \in NewMessages(r), Stamps(r, m)
  PROVE  clock' \in [Replica -> Nat] /\ issued' \in [Replica -> Nat]
<1>1. m.ts \in Nat
  BY NewMessageType
<1>2. clock \in [Replica -> Nat] /\ issued \in [Replica -> Nat]
  BY DEF TypeOK
<1> QED
  BY <1>1, <1>2 DEF Stamps

LEMMA DropTargetType ==
  ASSUME TypeOK, NEW r \in Replica, NEW p, NEW known \in [Replica -> SUBSET Replica],
         phase[r] \in { "relaying", "resync", "again" }, DropTarget(r, p, known)
  PROVE  /\ StackType' /\ CallStack'
         /\ live' \in [Replica -> SUBSET Replica]
         /\ current' \in [Replica -> Entry \cup {None}]
<1>1. live' \in [Replica -> SUBSET Replica]
  BY DEF DropTarget
<1>2. current' \in [Replica -> Entry \cup {None}] /\ current' = current
  BY DEF DropTarget, TypeOK
<1>3. current[r] # None
  BY DEF TypeOK, CallStack
<1>4. /\ Enter(r, "relaying", todo[r] \ {p}, None, <<>>)
      /\ todo[r] \ {p} \in SUBSET Replica /\ "relaying" \in Phase
  BY DEF DropTarget, TypeOK, Phase
<1>5. StackType' /\ CallStack'
  BY <1>2, <1>3, <1>4, EmptySeqType, EnterType
<1> QED
  BY <1>1, <1>2, <1>5

LEMMA ExitType ==
  ASSUME TypeOK, NEW r \in Replica, NEW known \in [Replica -> SUBSET Replica],
         NEW waiting \in SUBSET LateType, Exit(r, known, waiting)
  PROVE  /\ StackType' /\ CallStack'
         /\ log' \in [Replica -> Seq(Entry)]
         /\ live' \in [Replica -> SUBSET Replica]
         /\ current' \in [Replica -> Entry \cup {None}]
         /\ late' \in SUBSET LateType
<1>1. /\ log' \in [Replica -> Seq(Entry)]
      /\ live' \in [Replica -> SUBSET Replica]
      /\ late' \in SUBSET LateType
  BY EmptySeqType DEF Exit, TypeOK
<1>2. /\ current' \in [Replica -> Entry \cup {None}]
      /\ current'[r] = None
      /\ \A q \in Replica \ {r} : current'[q] = current[q]
  BY DEF Exit, TypeOK
<1>3. /\ Enter(r, "down", {}, None, <<>>)
      /\ {} \in SUBSET Replica /\ "down" \in Phase
  BY DEF Exit, Phase
<1>4. StackType' /\ CallStack'
  BY <1>2, <1>3, EmptySeqType, EnterType
<1> QED
  BY <1>1, <1>2, <1>4

LEMMA ThrowsType ==
  ASSUME TypeOK, NEW r \in Replica, NEW known \in [Replica -> SUBSET Replica],
         NEW waiting \in SUBSET LateType, Introducing(r),
         IntroductionThrows(r, known, waiting)
  PROVE  /\ StackType' /\ CallStack'
         /\ log' \in [Replica -> Seq(Entry)]
         /\ live' \in [Replica -> SUBSET Replica]
         /\ current' \in [Replica -> Entry \cup {None}]
         /\ late' \in SUBSET LateType
<1>1. CASE phase[r] = "introducing"
  BY <1>1, ExitType DEF IntroductionThrows
<1>2. CASE phase[r] = "resync"
  <2>1. /\ DropTarget(r, target[r], known) /\ late' = waiting /\ UNCHANGED log
    BY <1>2 DEF IntroductionThrows
  <2> QED
    BY <1>2, <2>1, DropTargetType DEF TypeOK
<1> QED
  BY <1>1, <1>2 DEF Introducing

\* The next introduction point of a server that introduces itself is a server.
LEMMA HeadType ==
  ASSUME TypeOK, NEW r \in Replica, Introducing(r)
  PROVE  /\ Head(queue[r]) \in Replica
         /\ Tail(queue[r]) \in Seq(Replica)
         /\ phase[r] \in { "introducing", "resync" }
<1>1. queue[r] \in Seq(Replica) /\ queue[r] # <<>>
  BY DEF TypeOK, CallStack
<1>2. Head(queue[r]) \in Replica /\ Tail(queue[r]) \in Seq(Replica)
  BY <1>1, HeadTailProperties
<1> QED
  BY <1>2 DEF Introducing

\* The callees of a relay are servers, and there is a message to relay.
LEMMA CalleesType ==
  ASSUME TypeOK, NEW r \in Replica, NEW p \in Callees(r)
  PROVE  /\ p \in Replica
         /\ phase[r] \in { "relaying", "again" }
         /\ current[r] \in Entry
<1>1. phase[r] \in { "relaying", "again" }
  BY DEF Callees
<1>2. current[r] \in Entry
  BY <1>1 DEF TypeOK, CallStack
<1>3. CASE phase[r] = "relaying"
  BY <1>1, <1>2, <1>3 DEF TypeOK, Callees
<1>4. CASE phase[r] = "again"
  <2>1. target[r] \in Replica
    BY <1>4 DEF TypeOK, CallStack
  <2> QED
    BY <1>1, <1>2, <1>4, <2>1 DEF Callees
<1> QED
  BY <1>1, <1>3, <1>4

LEMMA InitType == Init => TypeOK
<1> SUFFICES ASSUME Init PROVE TypeOK
  OBVIOUS
<1>1. CallStack
  BY DEF Init, CallStack, Introducing
<1> QED
  BY <1>1, EmptySeqType DEF Init, TypeOK, Phase

\* TypeOK is inductive.
LEMMA NextType ==
  ASSUME TypeOK, [Next]_vars
  PROVE  TypeOK'
<1> USE DEF LateType
<1>0. TypeOK <=> /\ StackType /\ CallStack
                 /\ log \in [Replica -> Seq(Entry)]
                 /\ disk \in [Replica -> Seq(Entry)]
                 /\ live \in [Replica -> SUBSET Replica]
                 /\ current \in [Replica -> Entry \cup {None}]
                 /\ late \in SUBSET LateType
                 /\ issued \in [Replica -> Nat]
                 /\ clock \in [Replica -> Nat]
                 /\ acked \in SUBSET Entry
                 /\ unsaved \in SUBSET Entry
                 /\ refused \in SUBSET Entry
                 /\ faults \in Nat
  BY DEF TypeOK, StackType
<1>00. TypeOK' <=> /\ StackType' /\ CallStack'
                   /\ log' \in [Replica -> Seq(Entry)]
                   /\ disk' \in [Replica -> Seq(Entry)]
                   /\ live' \in [Replica -> SUBSET Replica]
                   /\ current' \in [Replica -> Entry \cup {None}]
                   /\ late' \in SUBSET LateType
                   /\ issued' \in [Replica -> Nat]
                   /\ clock' \in [Replica -> Nat]
                   /\ acked' \in SUBSET Entry
                   /\ unsaved' \in SUBSET Entry
                   /\ refused' \in SUBSET Entry
                   /\ faults' \in Nat
  BY DEF TypeOK, StackType
<1> HIDE DEF LateType
<1>a. ASSUME NEW kind, Fault(kind) PROVE faults' \in Nat
  BY <1>0, <1>a DEF Fault
<1>1. ASSUME NEW r \in Replica, Boot(r) PROVE TypeOK'
  <2>1. StackType'
    BY <1>0, <1>1 DEF Boot, local, StackType, Phase
  <2>2. CallStack'
    BY <1>0, <1>1 DEF Boot, local, StackType, CallStack, Introducing
  <2>3. log' \in [Replica -> Seq(Entry)]
    BY <1>0, <1>1 DEF Boot
  <2> QED
    BY <1>0, <1>00, <1>1, <2>1, <2>2, <2>3 DEF Boot, local
<1>2. ASSUME NEW r \in Replica, StartIntroductions(r) PROVE TypeOK'
  <2>1. current[r] = None
    BY <1>0, <1>2 DEF StartIntroductions, CallStack
  <2>2. /\ << Seed >> \in Seq(Replica) /\ << Seed >> # <<>>
        /\ "idle" \in Phase /\ "introducing" \in Phase /\ {} \in SUBSET Replica
    BY ConstantsAssumption DEF Phase
  <2>3. CASE r = Seed
    <3>1. Enter(r, "idle", {}, None, <<>>) /\ current' = current
      BY <1>2, <2>3 DEF StartIntroductions
    <3>2. StackType' /\ CallStack'
      BY <1>0, <2>1, <2>2, <3>1, EmptySeqType, EnterType
    <3> QED
      BY <1>0, <1>00, <1>2, <3>2 DEF StartIntroductions
  <2>4. CASE r # Seed
    <3>1. Enter(r, "introducing", {}, None, << Seed >>) /\ current' = current
      BY <1>2, <2>4 DEF StartIntroductions
    <3>2. StackType' /\ CallStack'
      BY <1>0, <2>1, <2>2, <3>1, EnterType
    <3> QED
      BY <1>0, <1>00, <1>2, <3>2 DEF StartIntroductions
  <2> QED
    BY <2>3, <2>4
<1>3. ASSUME NEW r \in Replica, Introduced(r) PROVE TypeOK'
  <2> DEFINE p == Head(queue[r])
  <2>1. Introducing(r) /\ p \in Replica /\ Tail(queue[r]) \in Seq(Replica)
    BY <1>3, HeadType DEF Introduced
  <2>2. PICK more \in NewPoints(r, p) : NextPoint(r, Tail(queue[r]) \o more)
    BY <1>3 DEF Introduced
  <2>3. Tail(queue[r]) \o more \in Seq(Replica)
    BY <2>1, <2>2, NewPointsType, RangeOfConcat
  <2>4. log' \in [Replica -> Seq(Entry)] /\ disk' \in [Replica -> Seq(Entry)]
    <3>1. ReceiveMessages(r, Answer(r, p))
      BY <1>3 DEF Introduced
    <3> QED
      BY <2>1, <3>1, AnswerType, ReceiveType
  <2>5. live' \in [Replica -> SUBSET Replica]
    BY <1>0, <1>3, <2>1 DEF Introduced
  <2>6. StackType' /\ CallStack'
    <3> DEFINE q == Tail(queue[r]) \o more
    <3>1. q \in Seq(Replica) /\ NextPoint(r, q) /\ current' = current
      BY <1>3, <2>2, <2>3 DEF Introduced
    <3> HIDE DEF q
    <3>2. /\ phase[r] \in { "introducing", "resync" }
          /\ phase[r] \in { "resync", "again" } <=> target[r] # None
          /\ phase[r] \in DispatchPhases <=> current[r] # None
          /\ todo[r] \in SUBSET Replica /\ target[r] \in Replica \cup {None}
      BY <1>0, <2>1 DEF CallStack, StackType, Introducing
    <3>3. /\ "introducing" \in Phase /\ "resync" \in Phase
          /\ "idle" \in Phase /\ "again" \in Phase /\ {} \in SUBSET Replica
      BY DEF Phase
    <3>4. CASE q # <<>>
      <4>1. Enter(r, phase[r], todo[r], target[r], q)
        BY <3>1, <3>4 DEF NextPoint
      <4> QED
        BY <1>0, <3>1, <3>2, <3>3, <3>4, <4>1, EnterType
    <3>5. CASE q = <<>> /\ phase[r] = "introducing"
      <4>1. Enter(r, "idle", {}, None, <<>>)
        BY <3>1, <3>5 DEF NextPoint
      <4> QED
        BY <1>0, <3>1, <3>2, <3>3, <3>5, <4>1, EmptySeqType, EnterType
    <3>6. CASE q = <<>> /\ phase[r] = "resync"
      <4>1. Enter(r, "again", todo[r], target[r], <<>>)
        BY <3>1, <3>6 DEF NextPoint
      <4> QED
        BY <1>0, <3>1, <3>2, <3>3, <3>6, <4>1, EmptySeqType, EnterType
    <3> QED
      BY <3>2, <3>4, <3>5, <3>6
  <2> QED
    BY <1>0, <1>00, <1>3, <2>4, <2>5, <2>6 DEF Introduced
<1>4. ASSUME NEW r \in Replica, NEW p \in Replica, NEW m \in Entry \cup {None}
      PROVE  late \cup { Call(r, p, m) } \in SUBSET LateType
  BY <1>0 DEF Call, LateType
<1>5. ASSUME NEW r \in Replica, IntroductionFails(r) PROVE TypeOK'
  <2> DEFINE p == Head(queue[r])
  <2>1. Introducing(r) /\ p \in Replica
    BY <1>5, HeadType DEF IntroductionFails
  <2>2. faults' \in Nat
    BY <1>0, <1>5, <1>a DEF IntroductionFails
  <2>3. \E waiting \in SUBSET LateType : IntroductionThrows(r, live, waiting)
    BY <1>0, <1>4, <1>5, <2>1 DEF IntroductionFails
  <2>4. /\ StackType' /\ CallStack'
        /\ log' \in [Replica -> Seq(Entry)]
        /\ live' \in [Replica -> SUBSET Replica]
        /\ current' \in [Replica -> Entry \cup {None}]
        /\ late' \in SUBSET LateType
    BY <1>0, <2>1, <2>3, ThrowsType
  <2> QED
    BY <1>0, <1>00, <1>5, <2>2, <2>4 DEF IntroductionFails
<1>6. ASSUME NEW r \in Replica, IntroductionUnanswered(r) PROVE TypeOK'
  <2> DEFINE known == [live EXCEPT ![Head(queue[r])] = @ \cup {r}]
  <2>1. Introducing(r) /\ known \in [Replica -> SUBSET Replica]
    BY <1>0, <1>6, HeadType DEF IntroductionUnanswered
  <2>2. faults' \in Nat /\ IntroductionThrows(r, known, late)
    BY <1>6, <1>a DEF IntroductionUnanswered
  <2>3. /\ StackType' /\ CallStack'
        /\ log' \in [Replica -> Seq(Entry)]
        /\ live' \in [Replica -> SUBSET Replica]
        /\ current' \in [Replica -> Entry \cup {None}]
        /\ late' \in SUBSET LateType
    BY <1>0, <2>1, <2>2, ThrowsType
  <2> QED
    BY <1>0, <1>00, <1>6, <2>2, <2>3 DEF IntroductionUnanswered
<1>7. ASSUME NEW r \in Replica, AnswerHalfApplied(r) \/ IntroductionRefused(r)
      PROVE  TypeOK'
  <2> DEFINE p == Head(queue[r])
             es == Answer(r, p)
             known == [live EXCEPT ![p] = @ \cup {r}]
             Part(k) == SubSeq(es, 1, k)
  <2>1. /\ Introducing(r) /\ p \in Replica
        /\ known \in [Replica -> SUBSET Replica]
        /\ es \in Seq(Entry)
        /\ phase[r] \in { "introducing", "resync" }
    BY <1>0, <1>7, AnswerType, HeadType DEF AnswerHalfApplied, IntroductionRefused
  <2>2. PICK k \in 0 .. Len(es) - 1 :
          \/ /\ disk' = IF r \in Durable THEN [disk EXCEPT ![r] = @ \o Part(k)]
                                         ELSE disk
             /\ Exit(r, known, late)
          \/ AppliedInPart(r, p, Part(k), Part(k))
          \/ AppliedInPart(r, p, Part(k + 1), Part(k))
    BY <1>7 DEF AnswerHalfApplied, IntroductionRefused
  <2>3. Part(k) \in Seq(Entry) /\ Part(k + 1) \in Seq(Entry)
    <3>1. k \in 0 .. Len(es) /\ k + 1 \in 0 .. Len(es)
      BY <2>1, LenProperties
    <3> QED
      BY <2>1, <3>1, RangeOfPrefix
  <2>0. refused' \in SUBSET Entry /\ faults' \in Nat
    <3>1. CASE AnswerHalfApplied(r)
      BY <1>0, <1>a, <3>1 DEF AnswerHalfApplied, SaveFails
    <3>2. CASE IntroductionRefused(r)
      <4>1. PICK i \in 0 .. Len(es) - 1 : refused' = refused \cup { es[i + 1] }
        BY <3>2 DEF IntroductionRefused
      <4>2. es[i + 1] \in Entry
        BY <2>1, <4>1, ElementOfSeq, LenProperties
      <4>3. faults' = faults
        BY <3>2 DEF IntroductionRefused
      <4> QED
        BY <1>0, <4>1, <4>2, <4>3
    <3> QED
      BY <1>7, <3>1, <3>2
  <2> HIDE DEF Part, known, es, p
  <2>4. /\ disk[r] \o Part(k) \in Seq(Entry)
        /\ log[r] \o Part(k) \in Seq(Entry)
        /\ log[r] \o Part(k + 1) \in Seq(Entry)
    BY <1>0, <2>3, RangeOfConcat
  <2>5. /\ disk' = IF r \in Durable THEN [disk EXCEPT ![r] = @ \o Part(k)] ELSE disk
        /\ \/ Exit(r, known, late)
           \/ /\ phase[r] # "introducing"
              /\ DropTarget(r, target[r], known)
              /\ \/ log' = [log EXCEPT ![r] = @ \o Part(k)]
                 \/ log' = [log EXCEPT ![r] = @ \o Part(k + 1)]
              /\ UNCHANGED late
    BY <2>2 DEF AppliedInPart, known
  <2>6. disk' \in [Replica -> Seq(Entry)]
    BY <1>0, <2>4, <2>5
  <2>7. /\ StackType' /\ CallStack'
        /\ log' \in [Replica -> Seq(Entry)]
        /\ live' \in [Replica -> SUBSET Replica]
        /\ current' \in [Replica -> Entry \cup {None}]
        /\ late' \in SUBSET LateType
    <3>1. CASE Exit(r, known, late)
      BY <1>0, <2>1, <3>1, ExitType
    <3>2. CASE /\ phase[r] # "introducing" /\ DropTarget(r, target[r], known)
               /\ \/ log' = [log EXCEPT ![r] = @ \o Part(k)]
                  \/ log' = [log EXCEPT ![r] = @ \o Part(k + 1)]
               /\ UNCHANGED late
      BY <1>0, <2>1, <2>4, <3>2, DropTargetType
    <3> QED
      BY <2>5, <3>1, <3>2
  <2>8. UNCHANGED << issued, clock, acked, unsaved >>
    BY <1>7 DEF AnswerHalfApplied, IntroductionRefused
  <2> QED
    BY <1>0, <1>00, <2>0, <2>6, <2>7, <2>8
<1>8. ASSUME NEW r \in Replica, Dispatch(r) PROVE TypeOK'
  <2>1. PICK m \in NewMessages(r) :
          /\ Stamps(r, m)
          /\ ReceiveMessages(r, << m >>)
          /\ current' = [current EXCEPT ![r] = m]
    BY <1>8 DEF Dispatch
  <2>2. m \in Entry
    BY <1>0, NewMessageType
  <2>4. log' \in [Replica -> Seq(Entry)] /\ disk' \in [Replica -> Seq(Entry)]
    BY <1>0, <2>1, <2>2, RangeOfOne, ReceiveType
  <2>5. /\ current' \in [Replica -> Entry \cup {None}]
        /\ current'[r] # None
        /\ \A q \in Replica \ {r} : current'[q] = current[q]
    BY <1>0, <2>1, <2>2, EntryIsNotNone
  <2>6. Enter(r, "dispatching", {}, None, <<>>)
    BY <1>8 DEF Dispatch
  <2>7. StackType' /\ CallStack'
    BY <1>0, <2>5, <2>6, EmptySeqType, EnterType DEF Phase, DispatchPhases
  <2>8. clock' \in [Replica -> Nat] /\ issued' \in [Replica -> Nat]
    BY <1>0, <2>1, StampsType
  <2> QED
    BY <1>0, <1>00, <1>8, <2>4, <2>5, <2>7, <2>8 DEF Dispatch
<1>22. ASSUME NEW r \in Replica, DispatchFails(r) PROVE TypeOK'
  <2>1. PICK m \in NewMessages(r) :
          /\ Stamps(r, m)
          /\ SaveFails(r)
          /\ Keep(r, << m >>, <<>>)
          /\ unsaved' = unsaved \cup {m}
    BY <1>22 DEF DispatchFails
  <2>2. m \in Entry
    BY <1>0, NewMessageType
  <2>3. log' \in [Replica -> Seq(Entry)] /\ disk' \in [Replica -> Seq(Entry)]
    BY <1>0, <2>1, <2>2, EmptySeqType, RangeOfOne, KeepType
  <2>4. clock' \in [Replica -> Nat] /\ issued' \in [Replica -> Nat]
    BY <1>0, <2>1, StampsType
  <2>5. faults' \in Nat
    BY <1>a, <2>1 DEF SaveFails
  <2>6. StackType' /\ CallStack'
    BY <1>0, <1>22 DEF DispatchFails, local, StackType, CallStack, Introducing
  <2> QED
    BY <1>0, <1>00, <1>22, <2>1, <2>2, <2>3, <2>4, <2>5, <2>6
    DEF DispatchFails, local
<1>9. ASSUME NEW p \in Replica, NEW m \in Entry, HandleRelay(p, m)
      PROVE  log' \in [Replica -> Seq(Entry)] /\ disk' \in [Replica -> Seq(Entry)]
  BY <1>0, <1>9, RangeOfOne, ReceiveType DEF HandleRelay
<1>23. ASSUME NEW p \in Replica, NEW m \in Entry, RelayThrows(p, m)
       PROVE  /\ log' \in [Replica -> Seq(Entry)] /\ disk' \in [Replica -> Seq(Entry)]
              /\ refused' \in SUBSET Entry /\ faults' \in Nat
  <2>1. CASE Keep(p, << m >>, <<>>) /\ SaveFails(p) /\ UNCHANGED refused
    BY <1>0, <1>a, <2>1, EmptySeqType, RangeOfOne, KeepType DEF SaveFails
  <2>2. CASE refused' = refused \cup {m} /\ UNCHANGED << log, disk, faults >>
    BY <1>0, <2>2
  <2> QED
    BY <1>23, <2>1, <2>2 DEF RelayThrows
<1>10. ASSUME NEW r \in Replica, Relayed(r) PROVE TypeOK'
  <2>1. PICK p \in Callees(r) : /\ HandleRelay(p, current[r])
                                /\ Enter(r, "relaying", todo[r] \ {p}, None, <<>>)
    BY <1>10 DEF Relayed
  <2>2. /\ p \in Replica /\ phase[r] \in { "relaying", "again" }
        /\ current[r] \in Entry
    BY <1>0, CalleesType
  <2>3. log' \in [Replica -> Seq(Entry)] /\ disk' \in [Replica -> Seq(Entry)]
    BY <1>9, <2>1, <2>2
  <2>4. current' = current
    BY <1>10 DEF Relayed
  <2>5. StackType' /\ CallStack'
    <3>1. todo[r] \ {p} \in SUBSET Replica /\ "relaying" \in Phase
      BY <1>0 DEF StackType, Phase
    <3>2. current[r] # None
      BY <2>2, EntryIsNotNone
    <3> QED
      BY <1>0, <2>1, <2>4, <3>1, <3>2, EmptySeqType, EnterType
  <2> QED
    BY <1>0, <1>00, <1>10, <2>3, <2>4, <2>5 DEF Relayed
<1>11. ASSUME NEW r \in Replica, NeedsResync(r) PROVE TypeOK'
  <2>1. PICK p \in todo[r] : Enter(r, "resync", todo[r], p, << p >>)
    BY <1>11 DEF NeedsResync
  <2>2. /\ p \in Replica /\ todo[r] \in SUBSET Replica /\ current' = current
        /\ phase[r] = "relaying"
    BY <1>0, <1>11 DEF NeedsResync, StackType
  <2>3. /\ << p >> \in Seq(Replica) /\ << p >> # <<>> /\ "resync" \in Phase
        /\ p # None /\ current[r] # None
    BY <1>0, <2>2, EntryIsNotNone DEF Phase, CallStack
  <2>4. StackType' /\ CallStack'
    BY <1>0, <2>1, <2>2, <2>3, EnterType
  <2> QED
    BY <1>0, <1>00, <1>11, <2>4 DEF NeedsResync
<1>12. ASSUME NEW r \in Replica, RelayFails(r) PROVE TypeOK'
  <2>1. PICK p \in Callees(r) :
          /\ \/ UNCHANGED << faults, late >>
             \/ Fault("drop") /\ UNCHANGED late
             \/ /\ Fault("late")
                /\ late' = late \cup { Call(r, p, current[r]) }
          /\ DropTarget(r, p, live)
    BY <1>12 DEF RelayFails
  <2>2. /\ p \in Replica /\ phase[r] \in { "relaying", "again" }
        /\ current[r] \in Entry
    BY <1>0, CalleesType
  <2>3. faults' \in Nat /\ late' \in SUBSET LateType
    BY <1>0, <1>4, <1>a, <2>1, <2>2
  <2>4. /\ StackType' /\ CallStack'
        /\ live' \in [Replica -> SUBSET Replica]
        /\ current' \in [Replica -> Entry \cup {None}]
    BY <1>0, <2>1, <2>2, DropTargetType
  <2> QED
    BY <1>0, <1>00, <1>12, <2>3, <2>4 DEF RelayFails
<1>13. ASSUME NEW r \in Replica, RelayUnanswered(r) PROVE TypeOK'
  <2>1. PICK p \in Callees(r) : /\ HandleRelay(p, current[r])
                                /\ DropTarget(r, p, live)
    BY <1>13 DEF RelayUnanswered
  <2>2. /\ p \in Replica /\ phase[r] \in { "relaying", "again" }
        /\ current[r] \in Entry
    BY <1>0, CalleesType
  <2>3. log' \in [Replica -> Seq(Entry)] /\ disk' \in [Replica -> Seq(Entry)]
    BY <1>9, <2>1, <2>2
  <2>4. /\ StackType' /\ CallStack'
        /\ live' \in [Replica -> SUBSET Replica]
        /\ current' \in [Replica -> Entry \cup {None}]
    BY <1>0, <2>1, <2>2, DropTargetType
  <2>5. faults' \in Nat
    BY <1>13, <1>a DEF RelayUnanswered
  <2> QED
    BY <1>0, <1>00, <1>13, <2>3, <2>4, <2>5 DEF RelayUnanswered
<1>24. ASSUME NEW r \in Replica, RelayRefused(r) PROVE TypeOK'
  <2>1. PICK p \in Callees(r) : /\ RelayThrows(p, current[r])
                                /\ DropTarget(r, p, live)
    BY <1>24 DEF RelayRefused
  <2>2. /\ p \in Replica /\ phase[r] \in { "relaying", "again" }
        /\ current[r] \in Entry
    BY <1>0, CalleesType
  <2>3. /\ log' \in [Replica -> Seq(Entry)] /\ disk' \in [Replica -> Seq(Entry)]
        /\ refused' \in SUBSET Entry /\ faults' \in Nat
    BY <1>23, <2>1, <2>2
  <2>4. /\ StackType' /\ CallStack'
        /\ live' \in [Replica -> SUBSET Replica]
        /\ current' \in [Replica -> Entry \cup {None}]
    BY <1>0, <2>1, <2>2, DropTargetType
  <2> QED
    BY <1>0, <1>00, <1>24, <2>3, <2>4 DEF RelayRefused
<1>14. ASSUME NEW r \in Replica, Finish(r) PROVE TypeOK'
  <2>1. current[r] \in Entry /\ acked' \in SUBSET Entry
    BY <1>0, <1>14 DEF Finish, CallStack
  <2>2. StackType' /\ current' \in [Replica -> Entry \cup {None}]
    BY <1>0, <1>14 DEF Finish, StackType, Phase
  <2>3. waits[r] = None
    BY <1>14 DEF Finish, Callees
  <2>4. CallStack'
    BY <1>0, <1>14, <2>3 DEF Finish, StackType, CallStack, Introducing
  <2> QED
    BY <1>0, <1>00, <1>14, <2>1, <2>2, <2>4 DEF Finish
<1>15. ASSUME NEW p \in Replica, LateCall(p) PROVE TypeOK'
  <2>1. PICK c \in late :
          /\ late' = late \ {c}
          /\ \/ /\ live' = [live EXCEPT ![p] = @ \cup { c.from }]
                /\ UNCHANGED << log, disk, refused, faults >>
             \/ /\ c.message # None /\ HandleRelay(p, c.message)
                /\ UNCHANGED << live, refused, faults >>
             \/ /\ c.message # None /\ RelayThrows(p, c.message)
                /\ UNCHANGED live
    BY <1>15 DEF LateCall
  <2>2. c.from \in Replica /\ c.message \in Entry \cup {None}
    BY <1>0 DEF LateType
  <2>3. /\ log' \in [Replica -> Seq(Entry)] /\ disk' \in [Replica -> Seq(Entry)]
        /\ live' \in [Replica -> SUBSET Replica]
        /\ refused' \in SUBSET Entry /\ faults' \in Nat
    <3>1. CASE /\ live' = [live EXCEPT ![p] = @ \cup { c.from }]
               /\ UNCHANGED << log, disk, refused, faults >>
      BY <1>0, <2>2, <3>1
    <3>2. CASE /\ c.message # None /\ HandleRelay(p, c.message)
               /\ UNCHANGED << live, refused, faults >>
      BY <1>0, <1>9, <2>2, <3>2
    <3>3. CASE /\ c.message # None /\ RelayThrows(p, c.message)
               /\ UNCHANGED live
      BY <1>0, <1>23, <2>2, <3>3
    <3> QED
      BY <2>1, <3>1, <3>2, <3>3
  <2>4. StackType' /\ CallStack'
    BY <1>0, <1>15 DEF LateCall, local, StackType, CallStack, Introducing
  <2> QED
    BY <1>0, <1>00, <1>15, <2>1, <2>3, <2>4 DEF LateCall, local
<1>16. ASSUME NEW r \in Replica, Crash(r) PROVE TypeOK'
  <2>1. faults' \in Nat
    BY <1>16, <1>a DEF Crash
  <2>2. \E waiting \in SUBSET LateType : Exit(r, live, waiting)
    <3>1. CASE Exit(r, live, late)
      BY <1>0, <3>1
    <3>2. CASE \E call \in InFlight(r) : Exit(r, live, late \cup { call })
      <4>1. PICK call \in InFlight(r) : Exit(r, live, late \cup { call })
        BY <3>2
      <4>2. call \in LateType
        <5>1. CASE \E p \in Callees(r) : call = Call(r, p, current[r])
          BY <1>0, <5>1, CalleesType DEF Call, LateType
        <5>2. CASE Introducing(r) /\ call = Call(r, Head(queue[r]), None)
          BY <1>0, <5>2, HeadType DEF Call, LateType
        <5> QED
          BY <4>1, <5>1, <5>2 DEF InFlight
      <4> QED
        BY <1>0, <4>1, <4>2
    <3> QED
      BY <1>16, <3>1, <3>2 DEF Crash
  <2>3. /\ StackType' /\ CallStack'
        /\ log' \in [Replica -> Seq(Entry)]
        /\ live' \in [Replica -> SUBSET Replica]
        /\ current' \in [Replica -> Entry \cup {None}]
        /\ late' \in SUBSET LateType
    BY <1>0, <2>2, ExitType
  <2> QED
    BY <1>0, <1>00, <1>16, <2>1, <2>3 DEF Crash
<1>17. ASSUME NEW r \in Replica, EnterRelay(r) PROVE TypeOK'
  <2>1. /\ Enter(r, "relaying", live[r], None, <<>>) /\ current' = current
        /\ phase[r] = "dispatching"
    BY <1>17 DEF EnterRelay
  <2>2. live[r] \in SUBSET Replica /\ current[r] # None /\ "relaying" \in Phase
    BY <1>0, <2>1 DEF CallStack, Phase
  <2>3. StackType' /\ CallStack'
    BY <1>0, <2>1, <2>2, EmptySeqType, EnterType
  <2> QED
    BY <1>0, <1>00, <1>17, <2>3 DEF EnterRelay
<1>18. ASSUME NEW p \in Replica, phase[p] = "dispatching",
              phase' = [phase EXCEPT ![p] = "stuck"]
       PROVE  /\ phase' \in [Replica -> Phase]
              /\ \A q \in Replica : phase[q] # "dispatching" => phase'[q] = phase[q]
              /\ \A q \in Replica : phase[q] = "dispatching" =>
                                     phase'[q] \in { "dispatching", "stuck" }
  BY <1>0, <1>18 DEF StackType, Phase
<1>19. ASSUME NEW r \in Replica, CallSticks(r) PROVE TypeOK'
  <2>1. PICK call \in InFlight(r) :
          /\ Sticks(call.to, call.message)
          /\ phase' = [phase EXCEPT ![call.to] = "stuck"]
          /\ waits' = [waits EXCEPT ![r] = call.to]
    BY <1>19 DEF CallSticks
  <2>2. call.to \in Replica /\ phase[r] \in CallPhases
    <3>1. CASE \E p \in Callees(r) : call = Call(r, p, current[r])
      BY <1>0, <3>1, CalleesType DEF Call
    <3>2. CASE Introducing(r) /\ call = Call(r, Head(queue[r]), None)
      BY <1>0, <3>2, HeadType DEF Call
    <3> QED
      BY <2>1, <3>1, <3>2 DEF InFlight
  <2>3. phase[call.to] = "dispatching"
    BY <2>1 DEF Sticks
  <2>4. StackType'
    BY <1>0, <1>18, <1>19, <2>1, <2>2, <2>3 DEF CallSticks, StackType
  <2>5. CallStack'
    BY <1>0, <1>18, <1>19, <2>1, <2>2, <2>3
    DEF CallSticks, StackType, CallStack, Introducing
  <2> QED
    BY <1>0, <1>00, <1>19, <2>4, <2>5 DEF CallSticks
<1>20. ASSUME NEW p \in Replica, LateCallSticks(p) PROVE TypeOK'
  <2>1. /\ phase[p] = "dispatching"
        /\ phase' = [phase EXCEPT ![p] = "stuck"]
        /\ late' \in SUBSET LateType
    BY <1>0, <1>20 DEF LateCallSticks, Sticks
  <2>2. StackType' /\ CallStack'
    BY <1>0, <1>18, <1>20, <2>1
    DEF LateCallSticks, local, StackType, CallStack, Introducing
  <2> QED
    BY <1>0, <1>00, <1>20, <2>1, <2>2 DEF LateCallSticks, local
<1>21. CASE UNCHANGED vars
  BY <1>0, <1>00, <1>21 DEF vars, local, StackType, CallStack, Introducing
<1> QED
  BY <1>1, <1>2, <1>3, <1>5, <1>6, <1>7, <1>8, <1>10, <1>11, <1>12, <1>13, <1>14,
     <1>15, <1>16, <1>17, <1>19, <1>20, <1>21, <1>22, <1>24 DEF Next, Progress

\* Every variable keeps its type and every server has one of the call stacks of
\* introduce and relayMessage.
THEOREM TypeCorrect == Spec => []TypeOK
<1>1. Init => TypeOK
  BY InitType
<1>2. TypeOK /\ [Next]_vars => TypeOK'
  BY NextType
<1> QED
  BY <1>1, <1>2, PTL DEF Spec

-----------------------------------------------------------------------------
\* What a step does to the files, and to the messages that exist anywhere.

\* m is in the memory or the file of a server, or in a call that is under way
\* or forgotten.
Held(m) ==
  \/ \E r \in Replica : m \in Range(log[r])
  \/ \E r \in Replica : m \in Range(disk[r])
  \/ m # None /\ \E r \in Replica : m = current[r]
  \/ m # None /\ \E c \in late : m = c.message

\* The step copies messages that exist, at most to the file of r.
Copies(r, es) ==
  /\ es \in Seq(Entry)
  /\ \A m \in Range(es) : Held(m)
  /\ \/ disk' = disk
     \/ r \in Durable /\ disk' = [disk EXCEPT ![r] = @ \o es]
  /\ \A m : Held(m)' => Held(m)
  /\ UNCHANGED << issued, unsaved >>

\* The step makes a message of r, which its file has from then on.
Issues(r, m) ==
  /\ m \in Entry
  /\ m.orig = r
  /\ m.seq = issued[r] + 1
  /\ disk' = IF r \in Durable THEN [disk EXCEPT ![r] = @ \o << m >>] ELSE disk
  /\ \A n : Held(n)' => Held(n) \/ n = m
  /\ issued' = [issued EXCEPT ![r] = @ + 1]
  /\ UNCHANGED unsaved

\* The step makes a message of r, which no file has.
Fails(r, m) ==
  /\ m \in Entry
  /\ m.orig = r
  /\ m.seq = issued[r] + 1
  /\ disk' = disk
  /\ \A n : Held(n)' => Held(n) \/ n = m
  /\ issued' = [issued EXCEPT ![r] = @ + 1]
  /\ unsaved' = unsaved \cup {m}

\* Nothing comes into being in a step whose new memory, files and calls hold
\* only what was held before.
LEMMA NothingNew ==
  ASSUME \A r \in Replica : \A m \in Range(log'[r]) : Held(m),
         \A r \in Replica : \A m \in Range(disk'[r]) : Held(m),
         \A r \in Replica : current'[r] = None \/ Held(current'[r]),
         \A c \in late' : c.message = None \/ Held(c.message)
  PROVE  \A m : Held(m)' => Held(m)
BY DEF Held

LEMMA HeldNow ==
  /\ \A r \in Replica : \A m \in Range(log[r]) : Held(m)
  /\ \A r \in Replica : \A m \in Range(disk[r]) : Held(m)
  /\ \A r \in Replica : current[r] = None \/ Held(current[r])
  /\ \A c \in late : c.message = None \/ Held(c.message)
BY DEF Held

LEMMA NoMessages == Range(<<>>) = {}
BY DEF Range

\* Keeping held messages.
LEMMA KeepHeld ==
  ASSUME TypeOK, NEW r \in Replica, NEW es \in Seq(Entry), NEW saved \in Seq(Entry),
         \A m \in Range(es) \cup Range(saved) : Held(m), Keep(r, es, saved)
  PROVE  /\ \A q \in Replica : \A m \in Range(log'[q]) : Held(m)
         /\ \A q \in Replica : \A m \in Range(disk'[q]) : Held(m)
         /\ \/ disk' = disk
            \/ r \in Durable /\ disk' = [disk EXCEPT ![r] = @ \o saved]
<1>1. /\ log[r] \in Seq(Entry) /\ disk[r] \in Seq(Entry)
      /\ log \in [Replica -> Seq(Entry)] /\ disk \in [Replica -> Seq(Entry)]
  BY DEF TypeOK
<1>2. /\ Range(log[r] \o es) = Range(log[r]) \cup Range(es)
      /\ Range(disk[r] \o saved) = Range(disk[r]) \cup Range(saved)
  BY <1>1, RangeOfConcat
<1>3. ASSUME NEW q \in Replica
      PROVE  /\ Range(log'[q]) \subseteq Range(log[q]) \cup Range(es)
             /\ Range(disk'[q]) \subseteq Range(disk[q]) \cup Range(saved)
  <2>1. /\ log'[q] = IF q = r THEN log[r] \o es ELSE log[q]
        /\ disk'[q] = IF q = r /\ r \in Durable THEN disk[r] \o saved ELSE disk[q]
    BY <1>1 DEF Keep
  <2> QED
    BY <1>2, <2>1
<1> QED
  BY <1>3, HeldNow DEF Keep

\* Receiving held messages.
LEMMA ReceiveHeld ==
  ASSUME TypeOK, NEW r \in Replica, NEW es \in Seq(Entry),
         \A m \in Range(es) : Held(m), ReceiveMessages(r, es)
  PROVE  /\ \A q \in Replica : \A m \in Range(log'[q]) : Held(m)
         /\ \A q \in Replica : \A m \in Range(disk'[q]) : Held(m)
         /\ \/ disk' = disk
            \/ r \in Durable /\ disk' = [disk EXCEPT ![r] = @ \o es]
BY KeepHeld DEF ReceiveMessages

\* A process that ends leaves only what others hold.
LEMMA ExitHeld ==
  ASSUME TypeOK, NEW r \in Replica, NEW known, NEW waiting,
         \A c \in waiting : c.message = None \/ Held(c.message),
         Exit(r, known, waiting)
  PROVE  /\ \A q \in Replica : \A m \in Range(log'[q]) : Held(m)
         /\ \A q \in Replica : current'[q] = None \/ Held(current'[q])
         /\ \A c \in late' : c.message = None \/ Held(c.message)
<1>1. \A q \in Replica : log'[q] = <<>> \/ log'[q] = log[q]
  BY DEF Exit, TypeOK
<1>2. \A q \in Replica : current'[q] = None \/ current'[q] = current[q]
  BY DEF Exit, TypeOK
<1>3. late' \subseteq waiting
  BY DEF Exit
<1> QED
  BY <1>1, <1>2, <1>3, HeldNow, NoMessages

\* Introductions that throw create nothing.
LEMMA ThrowsHeld ==
  ASSUME TypeOK, NEW r \in Replica, NEW known, NEW waiting,
         \A c \in waiting : c.message = None \/ Held(c.message),
         IntroductionThrows(r, known, waiting)
  PROVE  /\ \A q \in Replica : \A m \in Range(log'[q]) : Held(m)
         /\ \A q \in Replica : current'[q] = None \/ Held(current'[q])
         /\ \A c \in late' : c.message = None \/ Held(c.message)
<1>1. CASE phase[r] = "introducing"
  BY <1>1, ExitHeld DEF IntroductionThrows
<1>2. CASE phase[r] # "introducing"
  <2>1. log' = log /\ current' = current /\ late' = waiting
    BY <1>2 DEF IntroductionThrows, DropTarget
  <2> QED
    BY <2>1, HeldNow
<1> QED
  BY <1>1, <1>2

\* Relaying a held message creates nothing.
LEMMA RelayHeld ==
  ASSUME TypeOK, NEW p \in Replica, NEW m \in Entry, Held(m), HandleRelay(p, m)
  PROVE  /\ \A q \in Replica : \A n \in Range(log'[q]) : Held(n)
         /\ \A q \in Replica : \A n \in Range(disk'[q]) : Held(n)
         /\ << m >> \in Seq(Entry)
         /\ \A n \in Range(<< m >>) : Held(n)
         /\ \/ disk' = disk
            \/ p \in Durable /\ disk' = [disk EXCEPT ![p] = @ \o << m >>]
<1>1. << m >> \in Seq(Entry) /\ Range(<< m >>) = {m}
  BY RangeOfOne
<1>2. CASE Accepts(p, m)
  BY <1>1, <1>2, ReceiveHeld DEF HandleRelay
<1>3. CASE ~ Accepts(p, m)
  BY <1>1, <1>3, HeldNow DEF HandleRelay
<1> QED
  BY <1>2, <1>3

\* Nor does a handler of it that throws.
LEMMA RelayThrowsHeld ==
  ASSUME TypeOK, NEW p \in Replica, NEW m \in Entry, Held(m), RelayThrows(p, m)
  PROVE  /\ \A q \in Replica : \A n \in Range(log'[q]) : Held(n)
         /\ \A q \in Replica : \A n \in Range(disk'[q]) : Held(n)
         /\ \/ disk' = disk
            \/ p \in Durable /\ disk' = [disk EXCEPT ![p] = @ \o <<>>]
<1>1. << m >> \in Seq(Entry) /\ Range(<< m >>) = {m} /\ <<>> \in Seq(Entry)
  BY RangeOfOne, EmptySeqType
<1>2. CASE Keep(p, << m >>, <<>>)
  <2>1. \A n \in Range(<< m >>) \cup Range(<<>>) : Held(n)
    BY <1>1, NoMessages
  <2> QED
    BY <1>1, <1>2, <2>1, KeepHeld
<1>3. CASE UNCHANGED << log, disk >>
  BY <1>3, HeldNow
<1> QED
  BY <1>2, <1>3 DEF RelayThrows

\* Every step makes one message of one originator, which is on its file at once if
\* it has one, or fails to write it, or copies messages that exist to at most one
\* file.
LEMMA FileStep ==
  ASSUME TypeOK, [Next]_vars
  PROVE  \E r \in Replica : \/ \E es : Copies(r, es)
                            \/ \E m : Issues(r, m) \/ Fails(r, m)
<1>2. ASSUME NEW r \in Replica,
             \A q \in Replica : \A m \in Range(log'[q]) : Held(m),
             \A q \in Replica : current'[q] = None \/ Held(current'[q]),
             \A c \in late' : c.message = None \/ Held(c.message),
             \/ disk' = disk
             \/ r \in Durable /\ disk' = [disk EXCEPT ![r] = @ \o <<>>],
             UNCHANGED << issued, unsaved >>
      PROVE  Copies(r, <<>>)
  <2>1. \A q \in Replica : \A m \in Range(disk'[q]) : Held(m)
    <3>1. CASE disk' = disk
      BY <3>1, HeldNow
    <3>2. CASE r \in Durable /\ disk' = [disk EXCEPT ![r] = @ \o <<>>]
      <4>1. Range(disk[r] \o <<>>) = Range(disk[r])
        BY EmptySeqType, NoMessages, RangeOfConcat DEF TypeOK
      <4>2. \A q \in Replica : Range(disk'[q]) = Range(disk[q])
        BY <3>2, <4>1 DEF TypeOK
      <4> QED
        BY <4>2, HeldNow
    <3> QED
      BY <1>2, <3>1, <3>2
  <2>2. \A m : Held(m)' => Held(m)
    BY <1>2, <2>1, NothingNew
  <2> QED
    BY <1>2, <2>2, EmptySeqType, NoMessages DEF Copies
<1>3. ASSUME NEW r \in Replica, Boot(r)
      PROVE  Copies(r, <<>>)
  <2>1. /\ \A q \in Replica : log'[q] = disk[q] \/ log'[q] = log[q]
        /\ current' = current /\ late' = late /\ disk' = disk /\ UNCHANGED << issued, unsaved >>
    BY <1>3 DEF Boot, local, TypeOK
  <2> QED
    BY <1>2, <2>1, HeldNow
<1>4. ASSUME NEW r \in Replica,
             StartIntroductions(r) \/ NeedsResync(r) \/ EnterRelay(r) \/ CallSticks(r)
      PROVE  Copies(r, <<>>)
  <2>1. /\ log' = log /\ current' = current /\ late' = late
        /\ disk' = disk /\ UNCHANGED << issued, unsaved >>
    BY <1>4 DEF StartIntroductions, NeedsResync, EnterRelay, CallSticks
  <2> QED
    BY <1>2, <2>1, HeldNow
<1>5. ASSUME NEW r \in Replica, Introduced(r)
      PROVE  Copies(r, Answer(r, Head(queue[r])))
  <2> DEFINE p == Head(queue[r])
  <2>1. Introducing(r) /\ p \in Replica
    BY <1>5, HeadType DEF Introduced
  <2>2. /\ Answer(r, p) \in Seq(Entry)
        /\ \A m \in Range(Answer(r, p)) : Held(m)
    BY <2>1, AnswerType, HeldNow
  <2>3. /\ ReceiveMessages(r, Answer(r, p))
        /\ current' = current /\ late' = late /\ UNCHANGED << issued, unsaved >>
    BY <1>5 DEF Introduced
  <2>4. /\ \A q \in Replica : \A m \in Range(log'[q]) : Held(m)
        /\ \A q \in Replica : \A m \in Range(disk'[q]) : Held(m)
        /\ \/ disk' = disk
           \/ r \in Durable /\ disk' = [disk EXCEPT ![r] = @ \o Answer(r, p)]
    BY <2>2, <2>3, ReceiveHeld
  <2>5. \A m : Held(m)' => Held(m)
    BY <2>3, <2>4, HeldNow, NothingNew
  <2> QED
    BY <2>2, <2>3, <2>4, <2>5 DEF Copies
<1>6. ASSUME NEW r \in Replica, NEW p, NEW m, m = None \/ Held(m)
      PROVE  \A c \in late \cup { Call(r, p, m) } :
               c.message = None \/ Held(c.message)
  BY <1>6, HeldNow DEF Call
<1>7. ASSUME NEW r \in Replica, IntroductionFails(r) \/ IntroductionUnanswered(r)
      PROVE  Copies(r, <<>>)
  <2>1. disk' = disk /\ UNCHANGED << issued, unsaved >>
    BY <1>7 DEF IntroductionFails, IntroductionUnanswered
  <2>2. \E known, waiting : /\ IntroductionThrows(r, known, waiting)
                            /\ \A c \in waiting : c.message = None \/ Held(c.message)
    <3>1. \/ IntroductionThrows(r, live, late)
          \/ IntroductionThrows(r, live,
               late \cup { Call(r, Head(queue[r]), None) })
          \/ IntroductionThrows(r,
               [live EXCEPT ![Head(queue[r])] = @ \cup {r}], late)
      BY <1>7 DEF IntroductionFails, IntroductionUnanswered
    <3> QED
      BY <1>6, <3>1, HeldNow
  <2>3. /\ \A q \in Replica : \A m \in Range(log'[q]) : Held(m)
        /\ \A q \in Replica : current'[q] = None \/ Held(current'[q])
        /\ \A c \in late' : c.message = None \/ Held(c.message)
    BY <2>2, ThrowsHeld
  <2> QED
    BY <1>2, <2>1, <2>3
<1>8. ASSUME NEW r \in Replica, AnswerHalfApplied(r) \/ IntroductionRefused(r)
      PROVE  \E es : Copies(r, es)
  <2> DEFINE p == Head(queue[r])
             es == Answer(r, p)
             known == [live EXCEPT ![p] = @ \cup {r}]
             Part(k) == SubSeq(es, 1, k)
  <2>1. Introducing(r) /\ p \in Replica
    BY <1>8, HeadType DEF AnswerHalfApplied, IntroductionRefused
  <2>2. es \in Seq(Entry) /\ \A m \in Range(es) : Held(m)
    BY <2>1, AnswerType, HeldNow
  <2>3. PICK k \in 0 .. Len(es) - 1 :
          /\ disk' = IF r \in Durable THEN [disk EXCEPT ![r] = @ \o Part(k)]
                                      ELSE disk
          /\ \/ Exit(r, known, late)
             \/ /\ DropTarget(r, target[r], known)
                /\ \/ log' = [log EXCEPT ![r] = @ \o Part(k)]
                   \/ log' = [log EXCEPT ![r] = @ \o Part(k + 1)]
                /\ UNCHANGED late
    BY <1>8 DEF AnswerHalfApplied, IntroductionRefused, AppliedInPart
  <2>4. /\ Part(k) \in Seq(Entry) /\ \A m \in Range(Part(k)) : Held(m)
        /\ Part(k + 1) \in Seq(Entry) /\ \A m \in Range(Part(k + 1)) : Held(m)
    <3>1. k \in 0 .. Len(es) /\ k + 1 \in 0 .. Len(es)
      BY <2>2, LenProperties
    <3> QED
      BY <2>2, <3>1, RangeOfPrefix
  <2> HIDE DEF Part, known, es, p
  <2>5. /\ Range(log[r] \o Part(k)) = Range(log[r]) \cup Range(Part(k))
        /\ Range(log[r] \o Part(k + 1)) = Range(log[r]) \cup Range(Part(k + 1))
        /\ Range(disk[r] \o Part(k)) = Range(disk[r]) \cup Range(Part(k))
    BY <2>4, RangeOfConcat DEF TypeOK
  <2>6. \A q \in Replica : \A m \in Range(disk'[q]) : Held(m)
    <3>1. \A q \in Replica : disk'[q] = disk[q] \/ (q = r /\ disk'[q] = disk[r] \o Part(k))
      BY <2>3 DEF TypeOK
    <3> QED
      BY <2>4, <2>5, <3>1, HeldNow
  <2>7. /\ \A q \in Replica : \A m \in Range(log'[q]) : Held(m)
        /\ \A q \in Replica : current'[q] = None \/ Held(current'[q])
        /\ \A c \in late' : c.message = None \/ Held(c.message)
    <3>1. CASE Exit(r, known, late)
      BY <3>1, ExitHeld, HeldNow
    <3>2. CASE /\ DropTarget(r, target[r], known)
               /\ \/ log' = [log EXCEPT ![r] = @ \o Part(k)]
                  \/ log' = [log EXCEPT ![r] = @ \o Part(k + 1)]
               /\ UNCHANGED late
      <4>1. /\ \A q \in Replica : \/ log'[q] = log[q]
                                  \/ q = r /\ log'[q] = log[r] \o Part(k)
                                  \/ q = r /\ log'[q] = log[r] \o Part(k + 1)
            /\ current' = current /\ late' = late
        BY <3>2 DEF TypeOK, DropTarget
      <4> QED
        BY <2>4, <2>5, <4>1, HeldNow
    <3> QED
      BY <2>3, <3>1, <3>2
  <2>8. \A m : Held(m)' => Held(m)
    BY <2>6, <2>7, NothingNew
  <2>9. UNCHANGED << issued, unsaved >>
    BY <1>8 DEF AnswerHalfApplied, IntroductionRefused
  <2>10. Copies(r, Part(k))
    BY <2>3, <2>4, <2>8, <2>9 DEF Copies
  <2> QED
    BY <2>10
<1>17. ASSUME NEW r \in Replica, NEW m \in Entry, NEW saved, Keep(r, << m >>, saved),
              saved = << m >> \/ saved = <<>>, late' = late,
              current' = current \/ current' = [current EXCEPT ![r] = m]
       PROVE  \A n : Held(n)' => Held(n) \/ n = m
  <2>5. << m >> \in Seq(Entry) /\ Range(<< m >>) = {m}
    BY RangeOfOne
  <2>6. /\ Range(log[r] \o << m >>) = Range(log[r]) \cup {m}
        /\ Range(disk[r] \o saved) \subseteq Range(disk[r]) \cup {m}
    <3>1. /\ log[r] \in Seq(Entry) /\ disk[r] \in Seq(Entry)
          /\ saved \in Seq(Entry) /\ Range(saved) \subseteq {m}
      BY <1>17, <2>5, EmptySeqType, NoMessages DEF TypeOK
    <3>2. ASSUME NEW t, t = << m >>
          PROVE  Range(log[r] \o t) = Range(log[r]) \cup Range(t)
      BY <2>5, <3>1, <3>2, RangeOfConcat
    <3>3. Range(disk[r] \o saved) = Range(disk[r]) \cup Range(saved)
      BY <3>1, RangeOfConcat
    <3> QED
      BY <2>5, <3>1, <3>2, <3>3
  <2>7. ASSUME NEW q \in Replica
        PROVE  /\ Range(log'[q]) \subseteq Range(log[q]) \cup {m}
               /\ Range(disk'[q]) \subseteq Range(disk[q]) \cup {m}
               /\ current'[q] = current[q] \/ current'[q] = m
    <3>1. /\ log'[q] = log[q] \/ (q = r /\ log'[q] = log[r] \o << m >>)
          /\ disk'[q] = disk[q] \/ (q = r /\ disk'[q] = disk[r] \o saved)
          /\ current'[q] = current[q] \/ current'[q] = m
      BY <1>17 DEF Keep, TypeOK
    <3> QED
      BY <2>6, <3>1
  <2> QED
    BY <1>17, <2>7 DEF Held
<1>9. ASSUME NEW r \in Replica, Dispatch(r)
      PROVE  \E m : Issues(r, m)
  <2>1. PICK m \in NewMessages(r) :
          /\ Stamps(r, m)
          /\ ReceiveMessages(r, << m >>)
          /\ current' = [current EXCEPT ![r] = m]
    BY <1>9 DEF Dispatch
  <2>2. m \in Entry /\ m.orig = r /\ m.seq = issued[r] + 1
    BY NewMessageType
  <2>3. /\ late' = late /\ unsaved' = unsaved
        /\ issued' = [issued EXCEPT ![r] = @ + 1]
    BY <1>9, <2>1 DEF Dispatch, Stamps
  <2>4. Keep(r, << m >>, << m >>)
    BY <2>1 DEF ReceiveMessages
  <2>5. \A n : Held(n)' => Held(n) \/ n = m
    BY <1>17, <2>1, <2>2, <2>3, <2>4
  <2>6. disk' = IF r \in Durable THEN [disk EXCEPT ![r] = @ \o << m >>] ELSE disk
    BY <2>4 DEF Keep
  <2>7. Issues(r, m)
    BY <2>2, <2>3, <2>5, <2>6 DEF Issues
  <2> QED
    BY <2>7
<1>18. ASSUME NEW r \in Replica, DispatchFails(r)
       PROVE  \E m : Fails(r, m)
  <2>1. PICK m \in NewMessages(r) :
          /\ Stamps(r, m)
          /\ Keep(r, << m >>, <<>>)
          /\ unsaved' = unsaved \cup {m}
    BY <1>18 DEF DispatchFails
  <2>2. m \in Entry /\ m.orig = r /\ m.seq = issued[r] + 1
    BY NewMessageType
  <2>3. /\ late' = late /\ current' = current
        /\ issued' = [issued EXCEPT ![r] = @ + 1]
    BY <1>18, <2>1 DEF DispatchFails, Stamps, local
  <2>4. \A n : Held(n)' => Held(n) \/ n = m
    BY <1>17, <2>1, <2>2, <2>3
  <2>5. disk' = disk
    <3>1. disk[r] \in Seq(Entry) /\ disk \in [Replica -> Seq(Entry)]
      BY DEF TypeOK
    <3>2. disk[r] \o <<>> = disk[r]
      BY <3>1, ConcatEmptySeq
    <3> QED
      BY <2>1, <3>1, <3>2 DEF Keep
  <2>6. Fails(r, m)
    BY <2>1, <2>2, <2>3, <2>4, <2>5 DEF Fails
  <2> QED
    BY <2>6
<1>19. ASSUME NEW r \in Replica, RelayRefused(r)
       PROVE  \E p \in Replica : Copies(p, <<>>)
  <2>1. PICK p \in Callees(r) : RelayThrows(p, current[r])
    BY <1>19 DEF RelayRefused
  <2>2. p \in Replica /\ current[r] \in Entry /\ Held(current[r])
    BY CalleesType, HeldNow, EntryIsNotNone
  <2>3. current' = current /\ late' = late /\ UNCHANGED << issued, unsaved >>
    BY <1>19 DEF RelayRefused, DropTarget
  <2>4. /\ \A q \in Replica : \A n \in Range(log'[q]) : Held(n)
        /\ \/ disk' = disk
           \/ p \in Durable /\ disk' = [disk EXCEPT ![p] = @ \o <<>>]
    BY <2>1, <2>2, RelayThrowsHeld
  <2> QED
    BY <1>2, <2>2, <2>3, <2>4, HeldNow
<1>10. ASSUME NEW r \in Replica, Relayed(r) \/ RelayUnanswered(r)
       PROVE  \E p \in Replica : Copies(p, << current[r] >>)
  <2>1. PICK p \in Callees(r) : HandleRelay(p, current[r])
    BY <1>10 DEF Relayed, RelayUnanswered
  <2>2. p \in Replica /\ current[r] \in Entry /\ Held(current[r])
    BY CalleesType, HeldNow, EntryIsNotNone
  <2>3. current' = current /\ late' = late /\ UNCHANGED << issued, unsaved >>
    BY <1>10 DEF Relayed, RelayUnanswered, DropTarget
  <2>4. /\ \A q \in Replica : \A n \in Range(log'[q]) : Held(n)
        /\ \A q \in Replica : \A n \in Range(disk'[q]) : Held(n)
        /\ << current[r] >> \in Seq(Entry)
        /\ \A n \in Range(<< current[r] >>) : Held(n)
        /\ \/ disk' = disk
           \/ p \in Durable /\ disk' = [disk EXCEPT ![p] = @ \o << current[r] >>]
    BY <2>1, <2>2, RelayHeld
  <2>5. \A m : Held(m)' => Held(m)
    BY <2>3, <2>4, HeldNow, NothingNew
  <2> QED
    BY <2>2, <2>3, <2>4, <2>5 DEF Copies
<1>11. ASSUME NEW r \in Replica, RelayFails(r)
       PROVE  Copies(r, <<>>)
  <2>1. PICK p \in Callees(r) :
          \/ late' = late
          \/ late' = late \cup { Call(r, p, current[r]) }
    BY <1>11 DEF RelayFails
  <2>2. log' = log /\ disk' = disk /\ UNCHANGED << issued, unsaved >> /\ current' = current
    BY <1>11 DEF RelayFails, DropTarget
  <2>3. \A c \in late' : c.message = None \/ Held(c.message)
    BY <1>6, <2>1, HeldNow
  <2> QED
    BY <1>2, <2>2, <2>3, HeldNow
<1>12. ASSUME NEW r \in Replica, Finish(r)
       PROVE  Copies(r, <<>>)
  <2>1. /\ log' = log /\ late' = late /\ disk' = disk /\ UNCHANGED << issued, unsaved >>
        /\ \A q \in Replica : current'[q] = None \/ current'[q] = current[q]
    BY <1>12 DEF Finish, TypeOK
  <2> QED
    BY <1>2, <2>1, HeldNow
<1>13. ASSUME NEW p \in Replica, LateCall(p)
       PROVE  \E es : Copies(p, es)
  <2>1. PICK c \in late :
          /\ late' = late \ {c}
          /\ \/ UNCHANGED << log, disk >>
             \/ c.message # None /\ HandleRelay(p, c.message)
             \/ c.message # None /\ RelayThrows(p, c.message)
    BY <1>13 DEF LateCall
  <2>2. c.message \in Entry \cup {None}
    BY DEF TypeOK
  <2>3. UNCHANGED << issued, unsaved >> /\ current' = current
    BY <1>13 DEF LateCall, local
  <2>4. \A d \in late' : d.message = None \/ Held(d.message)
    BY <2>1, HeldNow
  <2>5. CASE UNCHANGED << log, disk >>
    BY <1>2, <2>3, <2>4, <2>5, HeldNow
  <2>6. CASE c.message # None /\ HandleRelay(p, c.message)
    <3>1. c.message \in Entry /\ Held(c.message) /\ HandleRelay(p, c.message)
      BY <2>2, <2>6, HeldNow
    <3>2. /\ \A q \in Replica : \A n \in Range(log'[q]) : Held(n)
          /\ \A q \in Replica : \A n \in Range(disk'[q]) : Held(n)
          /\ << c.message >> \in Seq(Entry)
          /\ \A n \in Range(<< c.message >>) : Held(n)
          /\ \/ disk' = disk
             \/ p \in Durable /\ disk' = [disk EXCEPT ![p] = @ \o << c.message >>]
      BY <3>1, RelayHeld
    <3>3. \A m : Held(m)' => Held(m)
      BY <2>3, <2>4, <3>2, HeldNow, NothingNew
    <3>4. Copies(p, << c.message >>)
      BY <2>3, <3>2, <3>3 DEF Copies
    <3> QED
      BY <3>4
  <2>7. CASE c.message # None /\ RelayThrows(p, c.message)
    <3>1. c.message \in Entry /\ Held(c.message) /\ RelayThrows(p, c.message)
      BY <2>2, <2>7, HeldNow
    <3>2. /\ \A q \in Replica : \A n \in Range(log'[q]) : Held(n)
          /\ \/ disk' = disk
             \/ p \in Durable /\ disk' = [disk EXCEPT ![p] = @ \o <<>>]
      BY <3>1, RelayThrowsHeld
    <3>3. Copies(p, <<>>)
      BY <1>2, <2>3, <2>4, <3>2, HeldNow
    <3> QED
      BY <3>3
  <2> QED
    BY <2>1, <2>5, <2>6, <2>7
<1>14. ASSUME NEW r \in Replica, Crash(r)
       PROVE  Copies(r, <<>>)
  <2>1. \E waiting : /\ Exit(r, live, waiting)
                     /\ \A c \in waiting : c.message = None \/ Held(c.message)
    <3>1. CASE Exit(r, live, late)
      BY <3>1, HeldNow
    <3>2. CASE \E call \in InFlight(r) : Exit(r, live, late \cup { call })
      <4>1. PICK call \in InFlight(r) : Exit(r, live, late \cup { call })
        BY <3>2
      <4>2. call.message = None \/ call.message = current[r]
        BY DEF InFlight, Call
      <4> QED
        BY <4>1, <4>2, HeldNow
    <3> QED
      BY <1>14, <3>1, <3>2 DEF Crash
  <2>2. /\ \A q \in Replica : \A m \in Range(log'[q]) : Held(m)
        /\ \A q \in Replica : current'[q] = None \/ Held(current'[q])
        /\ \A c \in late' : c.message = None \/ Held(c.message)
    BY <2>1, ExitHeld
  <2>3. disk' = disk /\ UNCHANGED << issued, unsaved >>
    BY <1>14 DEF Crash
  <2> QED
    BY <1>2, <2>2, <2>3
<1>15. ASSUME NEW p \in Replica, LateCallSticks(p)
       PROVE  Copies(p, <<>>)
  <2>1. /\ log' = log /\ current' = current /\ late' \subseteq late
        /\ disk' = disk /\ UNCHANGED << issued, unsaved >>
    BY <1>15 DEF LateCallSticks, local
  <2> QED
    BY <1>2, <2>1, HeldNow
<1>16. CASE UNCHANGED vars
  <2>1. /\ log' = log /\ current' = current /\ late' = late
        /\ disk' = disk /\ UNCHANGED << issued, unsaved >>
    BY <1>16 DEF vars
  <2>2. Seed \in Replica
    BY ConstantsAssumption
  <2>3. Copies(Seed, <<>>)
    BY <1>2, <2>1, <2>2, HeldNow
  <2> QED
    BY <2>2, <2>3
<1> QED
  BY <1>3, <1>4, <1>5, <1>7, <1>8, <1>9, <1>10, <1>11, <1>12, <1>13, <1>14, <1>15,
     <1>16, <1>18, <1>19
  DEF Next, Progress

-----------------------------------------------------------------------------
\* m is being relayed, was relayed, or is still in a call that was given up.
Sent(m) ==
  \/ m # None /\ \E r \in Replica : m = current[r]
  \/ m # None /\ \E c \in late : m = c.message
  \/ m \in acked

\* The inductive invariant: every message that exists is on the file of its
\* originator or failed to get there, one that was sent is on the file, and none has
\* a number that its originator has yet to give.
Recoverable ==
  \A m \in Entry : /\ Held(m) => OnFile(m) \/ m \in unsaved
                   /\ Sent(m) => OnFile(m)

Numbered ==
  \A m \in Entry : Held(m) \/ m \in unsaved => m.seq <= issued[m.orig]

IInv == TypeOK /\ Recoverable /\ Numbered

\* A file after a step that copies or issues.
LEMMA FileAfter ==
  ASSUME TypeOK, NEW r \in Replica, NEW es \in Seq(Entry),
         disk' = [disk EXCEPT ![r] = @ \o es]
  PROVE  /\ Range(disk'[r]) = Range(disk[r]) \cup Range(es)
         /\ \A q \in Replica \ {r} : Range(disk'[q]) = Range(disk[q])
<1>1. disk[r] \in Seq(Entry) /\ disk \in [Replica -> Seq(Entry)]
  BY DEF TypeOK
<1>2. Range(disk[r] \o es) = Range(disk[r]) \cup Range(es)
  BY <1>1, RangeOfConcat
<1>3. disk'[r] = disk[r] \o es /\ \A q \in Replica \ {r} : disk'[q] = disk[q]
  BY <1>1
<1>4. Range(disk'[r]) = Range(disk[r]) \cup Range(es)
  BY <1>2, <1>3
<1>5. \A q \in Replica \ {r} : Range(disk'[q]) = Range(disk[q])
  BY <1>3
<1> QED
  BY <1>4, <1>5

\* No file loses a message in a step.
LEMMA FileGrows ==
  ASSUME TypeOK, NEW r \in Replica,
         (\E es : Copies(r, es)) \/ (\E m : Issues(r, m) \/ Fails(r, m))
  PROVE  \A q \in Replica : Range(disk[q]) \subseteq Range(disk'[q])
<1>1. CASE disk' = disk
  BY <1>1
<1>2. CASE \E es \in Seq(Entry) : disk' = [disk EXCEPT ![r] = @ \o es]
  BY <1>2, FileAfter
<1>3. \A m \in Entry : << m >> \in Seq(Entry)
  OBVIOUS
<1> QED
  BY <1>1, <1>2, <1>3 DEF Copies, Issues, Fails

\* Only what is on the file of its originator is sent.
LEMMA SentStep ==
  ASSUME TypeOK, [Next]_vars, NEW m \in Entry, Sent(m)'
  PROVE  Sent(m) \/ OnFile(m)'
<1>0. m # None
  BY EntryIsNotNone
<1>1. ASSUME \A q \in Replica : current'[q] = None \/ current'[q] = current[q],
             \A c \in late' : \/ c \in late \/ c.message = None
                              \/ \E q \in Replica : c.message = current[q],
             \A n \in acked' : n \in acked \/ \E q \in Replica : n = current[q]
      PROVE  Sent(m)
  BY <1>0, <1>1 DEF Sent
<1>2. ASSUME NEW r \in Replica, NEW known, NEW waiting, Exit(r, known, waiting)
      PROVE  /\ \A q \in Replica : current'[q] = None \/ current'[q] = current[q]
             /\ late' \subseteq waiting
  BY <1>2 DEF Exit, TypeOK
<1>3. ASSUME NEW r \in Replica, NEW known, NEW waiting,
             IntroductionThrows(r, known, waiting)
      PROVE  /\ \A q \in Replica : current'[q] = None \/ current'[q] = current[q]
             /\ late' \subseteq waiting
  BY <1>2, <1>3 DEF IntroductionThrows, DropTarget
<1>4. ASSUME NEW r \in Replica, NEW p, NEW es, NEW saved, AppliedInPart(r, p, es, saved)
      PROVE  /\ \A q \in Replica : current'[q] = None \/ current'[q] = current[q]
             /\ late' \subseteq late
  BY <1>2, <1>4 DEF AppliedInPart, DropTarget
<1>5. ASSUME NEW r \in Replica, Boot(r) \/ DispatchFails(r) \/ LateCall(r)
             \/ LateCallSticks(r)
      PROVE  Sent(m)
  <2>1. current' = current /\ late' \subseteq late /\ acked' = acked
    BY <1>5 DEF Boot, DispatchFails, LateCall, LateCallSticks, local
  <2> QED
    BY <1>1, <2>1
<1>6. ASSUME NEW r \in Replica,
             \/ StartIntroductions(r) \/ Introduced(r) \/ EnterRelay(r)
             \/ CallSticks(r) \/ Relayed(r) \/ NeedsResync(r)
             \/ RelayRefused(r) \/ RelayUnanswered(r)
      PROVE  Sent(m)
  <2>1. current' = current /\ late' = late /\ acked' = acked
    BY <1>6 DEF StartIntroductions, Introduced, EnterRelay, CallSticks, Relayed,
                NeedsResync, RelayRefused, RelayUnanswered, DropTarget
  <2> QED
    BY <1>1, <2>1
<1>7. ASSUME NEW r \in Replica, RelayFails(r)
      PROVE  Sent(m)
  <2>1. /\ current' = current /\ acked' = acked
        /\ \A c \in late' : c \in late \/ c.message = current[r]
    BY <1>7 DEF RelayFails, DropTarget, Call
  <2> QED
    BY <1>1, <2>1
<1>8. ASSUME NEW r \in Replica, IntroductionFails(r) \/ IntroductionUnanswered(r)
      PROVE  Sent(m)
  <2>1. acked' = acked
    BY <1>8 DEF IntroductionFails, IntroductionUnanswered
  <2>2. \E known : \/ IntroductionThrows(r, known, late)
                   \/ IntroductionThrows(r, known,
                        late \cup { Call(r, Head(queue[r]), None) })
    BY <1>8 DEF IntroductionFails, IntroductionUnanswered
  <2>3. /\ \A q \in Replica : current'[q] = None \/ current'[q] = current[q]
        /\ \A c \in late' : c \in late \/ c.message = None
    BY <1>3, <2>2 DEF Call
  <2> QED
    BY <1>1, <2>1, <2>3
<1>9. ASSUME NEW r \in Replica, AnswerHalfApplied(r) \/ IntroductionRefused(r)
      PROVE  Sent(m)
  <2>1. acked' = acked
    BY <1>9 DEF AnswerHalfApplied, IntroductionRefused
  <2>2. \/ \E p, es, saved : AppliedInPart(r, p, es, saved)
        \/ \E known : Exit(r, known, late)
    BY <1>9 DEF AnswerHalfApplied, IntroductionRefused
  <2>3. /\ \A q \in Replica : current'[q] = None \/ current'[q] = current[q]
        /\ late' \subseteq late
    BY <1>2, <1>4, <2>2
  <2> QED
    BY <1>1, <2>1, <2>3
<1>10. ASSUME NEW r \in Replica, Finish(r)
       PROVE  Sent(m)
  <2>1. /\ \A q \in Replica : current'[q] = None \/ current'[q] = current[q]
        /\ late' = late /\ acked' = acked \cup { current[r] }
    BY <1>10 DEF Finish, TypeOK
  <2> QED
    BY <1>1, <2>1
<1>11. ASSUME NEW r \in Replica, Crash(r)
       PROVE  Sent(m)
  <2>1. acked' = acked
    BY <1>11 DEF Crash
  <2>2. \E waiting : /\ Exit(r, live, waiting)
                     /\ \A c \in waiting : c \in late \/ c \in InFlight(r)
    BY <1>11 DEF Crash
  <2>3. \A c \in InFlight(r) : c.message = None \/ c.message = current[r]
    BY DEF InFlight, Call
  <2>4. /\ \A q \in Replica : current'[q] = None \/ current'[q] = current[q]
        /\ \A c \in late' : c \in late \/ c.message = None \/ c.message = current[r]
    BY <1>2, <2>2, <2>3
  <2> QED
    BY <1>1, <2>1, <2>4
<1>12. ASSUME NEW r \in Replica, Dispatch(r)
       PROVE  Sent(m) \/ OnFile(m)'
  <2>1. PICK n \in NewMessages(r) : /\ ReceiveMessages(r, << n >>)
                                    /\ current' = [current EXCEPT ![r] = n]
    BY <1>12 DEF Dispatch
  <2>2. n \in Entry /\ n.orig = r
    BY NewMessageType
  <2>3. late' = late /\ acked' = acked
    BY <1>12 DEF Dispatch
  <2>4. OnFile(n)'
    <3>1. SUFFICES ASSUME r \in Durable PROVE n \in Range(disk'[r])
      BY <2>2 DEF OnFile
    <3>2. << n >> \in Seq(Entry) /\ Range(<< n >>) = {n}
      BY <2>2, RangeOfOne
    <3>3. disk' = [disk EXCEPT ![r] = @ \o << n >>]
      BY <2>1, <3>1 DEF ReceiveMessages, Keep
    <3>4. Range(disk'[r]) = Range(disk[r]) \cup {n}
      BY <3>2, <3>3, FileAfter
    <3> QED
      BY <3>4
  <2>5. \A q \in Replica : current'[q] = current[q] \/ current'[q] = n
    BY <2>1 DEF TypeOK
  <2>6. CASE m = n
    BY <2>4, <2>6
  <2>7. CASE m # n
    BY <2>3, <2>5, <2>7 DEF Sent
  <2> QED
    BY <2>6, <2>7
<1>13. CASE UNCHANGED vars
  BY <1>13 DEF vars, Sent
<1> QED
  BY <1>5, <1>6, <1>7, <1>8, <1>9, <1>10, <1>11, <1>12, <1>13 DEF Next, Progress

LEMMA InvariantHoldsInitially == Init => IInv
<1> SUFFICES ASSUME Init PROVE IInv
  OBVIOUS
<1>1. TypeOK
  BY InitType
<1>2. (\A m : ~ Held(m)) /\ (\A m : ~ Sent(m)) /\ unsaved = {}
  BY NoMessages DEF Init, Held, Sent
<1> QED
  BY <1>1, <1>2 DEF IInv, Recoverable, Numbered

LEMMA InvariantIsInductive == IInv /\ [Next]_vars => IInv'
<1> SUFFICES ASSUME IInv, [Next]_vars PROVE IInv'
  OBVIOUS
<1>1. TypeOK /\ TypeOK'
  BY NextType DEF IInv
<1>2. PICK r \in Replica : (\E es : Copies(r, es)) \/ (\E m : Issues(r, m) \/ Fails(r, m))
  BY <1>1, FileStep
<1>3. \A m \in Entry : m.orig \in Replica /\ m.seq \in Nat
  BY DEF Entry
<1>4. \A m \in Entry : OnFile(m) => OnFile(m)'
  BY <1>1, <1>2, <1>3, FileGrows DEF OnFile
<1>5. issued \in [Replica -> Nat]
  BY <1>1 DEF TypeOK
<1>6. ASSUME NEW es \in Seq(Entry), disk' = [disk EXCEPT ![r] = @ \o es]
      PROVE  Range(disk'[r]) = Range(disk[r]) \cup Range(es)
  BY <1>1, <1>6, FileAfter
<1>9. \A m \in Entry : Sent(m)' => OnFile(m)'
  BY <1>1, <1>4, SentStep DEF IInv, Recoverable
<1>7. CASE \E es : Copies(r, es)
  <2>1. UNCHANGED << issued, unsaved >> /\ \A m : Held(m)' => Held(m)
    BY <1>7 DEF Copies
  <2> QED
    BY <1>1, <1>4, <1>9, <2>1 DEF IInv, Recoverable, Numbered
<1>8. CASE \E m : Issues(r, m) \/ Fails(r, m)
  <2>1. PICK m \in Entry : Issues(r, m) \/ Fails(r, m)
    BY <1>8 DEF Issues, Fails
  <2>2. /\ m.orig = r /\ m.seq = issued[r] + 1
        /\ issued' = [issued EXCEPT ![r] = @ + 1]
        /\ \A n : Held(n)' => Held(n) \/ n = m
        /\ unsaved \subseteq unsaved' /\ unsaved' \subseteq unsaved \cup {m}
    BY <2>1 DEF Issues, Fails
  <2>3. OnFile(m)' \/ m \in unsaved'
    <3>1. CASE Issues(r, m) /\ r \in Durable
      <4>1. disk' = [disk EXCEPT ![r] = @ \o << m >>]
        BY <3>1 DEF Issues
      <4>2. << m >> \in Seq(Entry) /\ Range(<< m >>) = {m}
        BY RangeOfOne
      <4>3. m \in Range(disk'[r])
        BY <1>6, <4>1, <4>2
      <4> QED
        BY <2>2, <4>3 DEF OnFile
    <3>2. CASE r \notin Durable
      BY <2>2, <3>2 DEF OnFile
    <3>3. CASE Fails(r, m)
      BY <3>3 DEF Fails
    <3> QED
      BY <2>1, <3>1, <3>2, <3>3
  <2>4. m.seq <= issued'[m.orig]
    BY <1>5, <2>2
  <2>5. \A p \in Replica : issued[p] \in Nat /\ issued'[p] \in Nat /\ issued[p] <= issued'[p]
    BY <1>5, <2>2
  <2>6. Recoverable'
    BY <1>4, <1>9, <2>2, <2>3 DEF IInv, Recoverable
  <2>7. Numbered'
    <3> SUFFICES ASSUME NEW n \in Entry, Held(n)' \/ n \in unsaved'
                 PROVE  n.seq <= issued'[n.orig]
      BY DEF Numbered
    <3>1. CASE n = m
      BY <2>4, <3>1
    <3>2. CASE n # m
      <4>1. n.seq <= issued[n.orig]
        BY <2>2, <3>2 DEF IInv, Numbered
      <4> QED
        BY <1>3, <2>5, <4>1
    <3> QED
      BY <3>1, <3>2
  <2> QED
    BY <1>1, <2>6, <2>7 DEF IInv
<1> QED
  BY <1>2, <1>7, <1>8

LEMMA InvariantHolds == Spec => []IInv
<1> QED
  BY InvariantHoldsInitially, InvariantIsInductive, PTL DEF Spec

LEMMA InvariantImpliesWriteAhead == IInv => WriteAhead
<1> SUFFICES ASSUME IInv PROVE WriteAhead
  OBVIOUS
<1>1. ASSUME NEW r \in Replica, NEW m \in Range(log[r]) \cup Range(disk[r])
      PROVE  m \in Entry /\ Held(m)
  <2>1. log[r] \in Seq(Entry) /\ disk[r] \in Seq(Entry)
    BY DEF IInv, TypeOK
  <2>2. Range(log[r]) \subseteq Entry /\ Range(disk[r]) \subseteq Entry
    BY <2>1, ElementOfSeq, LenProperties DEF Range
  <2> QED
    BY <2>2, HeldNow
<1>2. ASSUME NEW c \in late, c.message # None
      PROVE  c.message \in Entry /\ Sent(c.message)
  BY <1>2 DEF IInv, TypeOK, Sent
<1>3. ASSUME NEW m \in acked
      PROVE  m \in Entry /\ Sent(m)
  BY DEF IInv, TypeOK, Sent
<1> QED
  BY <1>1, <1>2, <1>3 DEF IInv, Recoverable, WriteAhead

\* After any crash an originator with a file has every message it ever relayed and
\* every one of an operation that has returned; what any server holds, in memory or
\* on disk, is on the file of its originator or its operation failed, because
\* receiveMessage saves before dispatchMessage relays.
THEOREM WriteAheadHolds == Spec => []WriteAhead
<1> QED
  BY InvariantHolds, InvariantImpliesWriteAhead, PTL

-----------------------------------------------------------------------------
\* With a file on every server, a step of the system is a step of the abstract
\* replicated log or leaves all files alone.
LEMMA StepOfAbstractLog ==
  ASSUME Durable = Replica, IInv, [Next]_vars
  PROVE  [Abstract!Next]_<< stored, unsaved >>
<1>1. TypeOK
  BY DEF IInv
<1>2. PICK r \in Replica : (\E es : Copies(r, es)) \/ (\E m : Issues(r, m) \/ Fails(r, m))
  BY <1>1, FileStep
<1>3. ASSUME NEW es \in Seq(Entry), disk' = [disk EXCEPT ![r] = @ \o es]
      PROVE  stored' = [stored EXCEPT ![r] = @ \cup Range(es)]
  BY <1>1, <1>3, FileAfter DEF stored
<1>4. CASE \E es : Copies(r, es)
  <2>1. PICK es \in Seq(Entry) : Copies(r, es)
    BY <1>4 DEF Copies
  <2>4. unsaved' = unsaved
    BY <2>1 DEF Copies
  <2>2. CASE disk' = disk
    BY <2>2, <2>4 DEF stored
  <2>3. CASE disk' = [disk EXCEPT ![r] = @ \o es]
    <3>1. \A m \in Range(es) : m \in Entry /\ Held(m)
      BY <2>1, ElementOfSeq, LenProperties DEF Copies, Range
    <3>2. \A m \in Range(es) : \/ m \in unsaved
                               \/ m.orig \in Replica /\ m \in stored[m.orig]
      BY <3>1 DEF IInv, Recoverable, OnFile, Entry, stored
    <3>3. Range(es) \in SUBSET (Abstract!Issued \cup unsaved)
      BY <3>2 DEF Abstract!Issued
    <3>4. Abstract!Deliver(r)
      BY <1>3, <2>3, <2>4, <3>3 DEF Abstract!Deliver
    <3> QED
      BY <3>4 DEF Abstract!Next
  <2> QED
    BY <2>1, <2>2, <2>3 DEF Copies
<1>6. ASSUME NEW m \in Entry, m.orig = r, m.seq = issued[r] + 1
      PROVE  Abstract!Newest(r, m)
  <2> SUFFICES ASSUME NEW n \in unsaved \cup UNION { stored[p] : p \in Replica },
                      n.orig = r
               PROVE  n.seq < m.seq
    BY <1>6 DEF Abstract!Newest
  <2>1. n \in Entry /\ (Held(n) \/ n \in unsaved)
    <3>1. CASE n \in unsaved
      BY <1>1, <3>1 DEF TypeOK
    <3>2. ASSUME NEW p \in Replica, n \in stored[p]
          PROVE  n \in Entry /\ Held(n)
      <4>1. n \in Range(disk[p]) /\ disk[p] \in Seq(Entry)
        BY <1>1, <3>2 DEF stored, TypeOK
      <4> QED
        BY <4>1, ElementOfSeq, LenProperties, HeldNow DEF Range
    <3> QED
      BY <3>1, <3>2
  <2>2. n.seq <= issued[r] /\ n.seq \in Nat /\ issued[r] \in Nat
    BY <1>1, <2>1 DEF IInv, Numbered, Entry, TypeOK
  <2> QED
    BY <1>6, <2>2
<1>5. CASE \E m : Issues(r, m)
  <2>1. PICK m \in Entry : Issues(r, m)
    BY <1>5 DEF Issues
  <2>2. << m >> \in Seq(Entry) /\ Range(<< m >>) = {m}
    BY RangeOfOne
  <2>3. disk' = [disk EXCEPT ![r] = @ \o << m >>] /\ unsaved' = unsaved
    BY <2>1 DEF Issues
  <2>4. stored' = [stored EXCEPT ![r] = @ \cup {m}]
    BY <1>3, <2>2, <2>3
  <2>5. m \in stored'[r] /\ m.orig = r /\ m.seq = issued[r] + 1
    BY <2>1, <2>4 DEF stored, Issues
  <2>6. Abstract!Newest(r, m)
    BY <1>6, <2>5
  <2>7. Abstract!Issue(r)
    BY <2>3, <2>4, <2>5, <2>6 DEF Abstract!Issue
  <2> QED
    BY <2>7 DEF Abstract!Next
<1>7. CASE \E m : Fails(r, m)
  <2>1. PICK m \in Entry : Fails(r, m)
    BY <1>7 DEF Fails
  <2>2. /\ m.orig = r /\ m.seq = issued[r] + 1
        /\ unsaved' = unsaved \cup {m} /\ stored' = stored
    BY <2>1 DEF Fails, stored
  <2>3. Abstract!Newest(r, m)
    BY <1>6, <2>2
  <2>4. Abstract!FailToIssue(r)
    BY <2>2, <2>3 DEF Abstract!FailToIssue
  <2> QED
    BY <2>4 DEF Abstract!Next
<1> QED
  BY <1>2, <1>4, <1>5, <1>7

\* If every server has a file, the files implement the abstract replicated log:
\* a message enters once, through its originator, with a number above all it gave
\* before, and other servers only ever store what the originator has stored, or
\* has failed to store and has told its client so.
THEOREM ImplementsAbstractLog ==
  ASSUME Durable = Replica
  PROVE  Spec => ImplementsReplicatedLog
<1>1. Init => Abstract!Init
  BY NoMessages DEF Init, Abstract!Init, stored
<1>2. IInv /\ [Next]_vars => [Abstract!Next]_<< stored, unsaved >>
  BY StepOfAbstractLog
<1> QED
  BY <1>1, <1>2, InvariantHolds, PTL
  DEF Spec, ImplementsReplicatedLog, Abstract!Spec, Abstract!vars

USE DEF DispatchPhases, CallPhases

-----------------------------------------------------------------------------
\* Sequences without repetition

LEMMA EmptyIsInjective == IsInjective(<<>>)
BY DEF IsInjective

\* Appending what is new, each once, repeats nothing.
LEMMA ConcatIsInjective ==
  ASSUME NEW S, NEW s \in Seq(S), NEW t \in Seq(S), IsInjective(s), IsInjective(t),
         Range(s) \cap Range(t) = {}
  PROVE  IsInjective(s \o t)
<1>1. /\ s \o t \in Seq(S)
      /\ Len(s \o t) = Len(s) + Len(t)
      /\ \A i \in 1 .. Len(s) + Len(t) :
           (s \o t)[i] = IF i <= Len(s) THEN s[i] ELSE t[i - Len(s)]
  BY ConcatProperties
<1>2. /\ Len(s) \in Nat /\ DOMAIN s = 1 .. Len(s)
      /\ Len(t) \in Nat /\ DOMAIN t = 1 .. Len(t)
      /\ DOMAIN (s \o t) = 1 .. Len(s) + Len(t)
  BY <1>1, LenProperties
<1>3. ASSUME NEW i \in 1 .. Len(s) + Len(t)
      PROVE  \/ /\ i \in DOMAIN s
                /\ (s \o t)[i] = s[i] /\ s[i] \in Range(s)
             \/ /\ i - Len(s) \in DOMAIN t /\ i \notin DOMAIN s
                /\ (s \o t)[i] = t[i - Len(s)] /\ t[i - Len(s)] \in Range(t)
  <2>1. CASE i <= Len(s)
    BY <1>1, <1>2, <2>1 DEF Range
  <2>2. CASE ~ (i <= Len(s))
    <3>1. i - Len(s) \in 1 .. Len(t)
      BY <1>2, <2>2
    <3> QED
      BY <1>1, <1>2, <2>2, <3>1 DEF Range
  <2> QED
    BY <2>1, <2>2
<1> SUFFICES ASSUME NEW i \in 1 .. Len(s) + Len(t), NEW j \in 1 .. Len(s) + Len(t),
                    (s \o t)[i] = (s \o t)[j]
             PROVE  i = j
  BY <1>2 DEF IsInjective
<1>4. CASE i \in DOMAIN s /\ j \in DOMAIN s
  <2>1. s[i] = s[j]
    BY <1>2, <1>3, <1>4
  <2> QED
    BY <1>4, <2>1 DEF IsInjective
<1>5. CASE i \notin DOMAIN s /\ j \notin DOMAIN s
  <2>1. /\ i - Len(s) \in DOMAIN t /\ j - Len(s) \in DOMAIN t
        /\ t[i - Len(s)] = t[j - Len(s)]
    BY <1>3, <1>5
  <2>2. i - Len(s) = j - Len(s)
    BY <2>1 DEF IsInjective
  <2> QED
    BY <1>2, <2>2
<1>6. (i \in DOMAIN s) <=> (j \in DOMAIN s)
  BY <1>3
<1> QED
  BY <1>4, <1>5, <1>6

\* A prefix repeats nothing either.
LEMMA PrefixIsInjective ==
  ASSUME NEW S, NEW s \in Seq(S), NEW k \in 0 .. Len(s), IsInjective(s)
  PROVE  IsInjective(SubSeq(s, 1, k))
<1>1. Len(s) \in Nat /\ DOMAIN s = 1 .. Len(s) /\ \A i \in 1 .. Len(s) : s[i] \in S
  BY LenProperties, ElementOfSeq
<1>2. k \in Int /\ k >= 0 /\ k <= Len(s) /\ \A i \in 1 .. k : s[i] \in S
  BY <1>1
<1>3. /\ SubSeq(s, 1, k) \in Seq(S)
      /\ Len(SubSeq(s, 1, k)) = IF 1 <= k THEN k - 1 + 1 ELSE 0
      /\ \A i \in 1 .. k - 1 + 1 : SubSeq(s, 1, k)[i] = s[1 + i - 1]
  BY <1>2, SubSeqProperties
<1>4. DOMAIN SubSeq(s, 1, k) = 1 .. k
  BY <1>2, <1>3, LenProperties
<1>5. \A i \in 1 .. k : SubSeq(s, 1, k)[i] = s[i] /\ i \in 1 .. Len(s)
  BY <1>1, <1>2, <1>3
<1> QED
  BY <1>1, <1>4, <1>5 DEF IsInjective

LEMMA PrefixInPrefix ==
  ASSUME NEW S, NEW s \in Seq(S), NEW k \in 0 .. Len(s), NEW n \in 0 .. k
  PROVE  Range(SubSeq(s, 1, n)) \subseteq Range(SubSeq(s, 1, k))
<1>1. Len(s) \in Nat /\ k \in Nat /\ n \in Nat /\ n <= k /\ k <= Len(s)
  BY LenProperties
<1>2. /\ Len(SubSeq(s, 1, n)) = n /\ Len(SubSeq(s, 1, k)) = k
      /\ \A i \in 1 .. n : SubSeq(s, 1, n)[i] = s[i]
      /\ \A i \in 1 .. k : SubSeq(s, 1, k)[i] = s[i]
      /\ SubSeq(s, 1, n) \in Seq(S) /\ SubSeq(s, 1, k) \in Seq(S)
  BY <1>1
<1> QED
  BY <1>1, <1>2, LenProperties DEF Range

-----------------------------------------------------------------------------
\* The inductive invariant

\* A running server has in memory what its file has.
Stored ==
  \A r \in Replica :
    /\ r \in Durable /\ phase[r] # "down" => Range(disk[r]) \subseteq Range(log[r])
    /\ r \notin Durable => disk[r] = <<>>

Unique == \A r \in Replica : IsInjective(log[r]) /\ IsInjective(disk[r])

\* r has yet to relay its current message to p.
Unrelayed(r, p) ==
  /\ r # p
  /\ \/ phase[r] \in { "dispatching", "stuck" }
     \/ phase[r] \in { "relaying", "resync", "again" } /\ p \in todo[r]

\* Until then p does not have it: only an introduction to r could bring it, which r
\* does not answer meanwhile.
Unsent ==
  \A r, p \in Replica :
    Unrelayed(r, p) => current[r] \notin Range(log[p]) \cup Range(disk[p])

\* A server asks for a resync by a relay that is not over.
Targets == \A r \in Replica : target[r] # None => target[r] \in todo[r]

PairInv == IInv /\ late = {} /\ Stored /\ Unique /\ Unsent /\ Targets

LEMMA PairInit == Init => PairInv
<1> SUFFICES ASSUME Init PROVE PairInv
  OBVIOUS
<1>1. IInv
  BY InvariantHoldsInitially
<1>2. Stored /\ Unsent /\ Targets /\ late = {}
  BY DEF Init, Stored, Unsent, Unrelayed, Targets
<1>3. Unique
  BY EmptyIsInjective DEF Init, Unique
<1> QED
  BY <1>1, <1>2, <1>3 DEF PairInv

-----------------------------------------------------------------------------
\* How steps keep it

\* A running server r replays es and writes some of it to its file, or dies with
\* only its file having received it.
LEMMA FilesKept ==
  ASSUME TypeOK, Stored, Unique, NEW r \in Replica, NEW es \in Seq(Entry),
         NEW saved \in Seq(Entry), IsInjective(es), IsInjective(saved),
         Range(saved) \subseteq Range(es),
         Range(es) \cap Range(log[r]) = {}, phase[r] # "down",
         disk' = IF r \in Durable THEN [disk EXCEPT ![r] = @ \o saved] ELSE disk,
         log'[r] = log[r] \o es \/ (log'[r] = <<>> /\ phase'[r] = "down"),
         \A q \in Replica \ {r} : /\ log'[q] = log[q]
                                  /\ phase'[q] # "down" => phase[q] # "down"
  PROVE  /\ Stored' /\ Unique'
         /\ \A q \in Replica \ {r} : disk'[q] = disk[q]
         /\ Range(log'[r]) \subseteq Range(log[r]) \cup Range(es)
         /\ Range(disk'[r]) \subseteq Range(disk[r]) \cup Range(es)
<1>1. /\ log[r] \in Seq(Entry) /\ disk[r] \in Seq(Entry)
      /\ disk \in [Replica -> Seq(Entry)]
  BY DEF TypeOK
<1>2. /\ disk'[r] = IF r \in Durable THEN disk[r] \o saved ELSE <<>>
      /\ \A q \in Replica \ {r} : disk'[q] = disk[q]
  BY <1>1 DEF Stored
<1>3. r \in Durable => Range(disk[r]) \subseteq Range(log[r])
  BY DEF Stored
<1>4. /\ IsInjective(log[r] \o es) /\ IsInjective(<<>>)
      /\ r \in Durable => IsInjective(disk[r] \o saved)
  <2>1. IsInjective(log[r]) /\ IsInjective(disk[r])
    BY DEF Unique
  <2>2. Range(log[r]) \cap Range(es) = {}
    OBVIOUS
  <2>3. r \in Durable => Range(disk[r]) \cap Range(saved) = {}
    BY <1>3, <2>2
  <2>4. r \in Durable => IsInjective(disk[r] \o saved)
    BY <1>1, <2>1, <2>3, ConcatIsInjective
  <2> QED
    BY <1>1, <2>1, <2>2, <2>4, ConcatIsInjective, EmptyIsInjective
<1>5. Unique'
  <2> SUFFICES ASSUME NEW q \in Replica
               PROVE  IsInjective(log'[q]) /\ IsInjective(disk'[q])
    BY DEF Unique
  <2>1. CASE q = r
    BY <1>2, <1>4, <2>1
  <2>2. CASE q # r
    BY <1>2, <2>2 DEF Unique
  <2> QED
    BY <2>1, <2>2
<1>7. /\ Range(log[r] \o es) = Range(log[r]) \cup Range(es)
      /\ Range(disk[r] \o saved) = Range(disk[r]) \cup Range(saved)
      /\ Range(<<>>) = {}
  BY <1>1, RangeOfConcat, NoMessages
<1>6. Stored'
  <2> SUFFICES ASSUME NEW q \in Replica
               PROVE  /\ q \in Durable /\ phase'[q] # "down" =>
                           Range(disk'[q]) \subseteq Range(log'[q])
                      /\ q \notin Durable => disk'[q] = <<>>
    BY DEF Stored
  <2>1. CASE q = r
    BY <1>2, <1>3, <1>7, <2>1
  <2>2. CASE q # r
    BY <1>2, <2>2 DEF Stored
  <2> QED
    BY <2>1, <2>2
<1>8. Range(log'[r]) \subseteq Range(log[r]) \cup Range(es)
  BY <1>7
<1>9. Range(disk'[r]) \subseteq Range(disk[r]) \cup Range(es)
  BY <1>2, <1>7
<1> QED
  BY <1>2, <1>5, <1>6, <1>8, <1>9

\* No relay begins, and r does not receive what is being relayed to it.
LEMMA PairKept ==
  ASSUME TypeOK, Stored, Unique, Unsent, NEW r \in Replica, NEW es \in Seq(Entry),
         NEW saved \in Seq(Entry), IsInjective(es), IsInjective(saved),
         Range(saved) \subseteq Range(es),
         Range(es) \cap Range(log[r]) = {}, phase[r] # "down",
         disk' = IF r \in Durable THEN [disk EXCEPT ![r] = @ \o saved] ELSE disk,
         log'[r] = log[r] \o es \/ (log'[r] = <<>> /\ phase'[r] = "down"),
         \A q \in Replica \ {r} : /\ log'[q] = log[q]
                                  /\ phase'[q] # "down" => phase[q] # "down",
         \A o, q \in Replica :
           Unrelayed(o, q)' => Unrelayed(o, q) /\ current'[o] = current[o],
         \A o \in Replica : Unrelayed(o, r)' => current[o] \notin Range(es)
  PROVE  Stored' /\ Unique' /\ Unsent'
<1>1. /\ Stored' /\ Unique'
      /\ \A q \in Replica \ {r} : disk'[q] = disk[q]
      /\ Range(log'[r]) \subseteq Range(log[r]) \cup Range(es)
      /\ Range(disk'[r]) \subseteq Range(disk[r]) \cup Range(es)
  BY FilesKept
<1>2. Unsent'
  <2> SUFFICES ASSUME NEW o \in Replica, NEW q \in Replica, Unrelayed(o, q)'
               PROVE  current'[o] \notin Range(log'[q]) \cup Range(disk'[q])
    BY DEF Unsent
  <2>1. /\ current'[o] = current[o]
        /\ current[o] \notin Range(log[q]) \cup Range(disk[q])
    BY DEF Unsent
  <2>2. CASE q = r
    BY <1>1, <2>1, <2>2
  <2>3. CASE q # r
    BY <1>1, <2>1, <2>3
  <2> QED
    BY <2>2, <2>3
<1> QED
  BY <1>1, <1>2

\* Nothing is received.
LEMMA PairQuiet ==
  ASSUME TypeOK, Stored, Unique, Unsent, NEW r \in Replica, phase[r] # "down",
         disk' = disk,
         log' = log \/ (log' = [log EXCEPT ![r] = <<>>] /\ phase'[r] = "down"),
         \A q \in Replica \ {r} : phase'[q] # "down" => phase[q] # "down",
         \A o, q \in Replica :
           Unrelayed(o, q)' => Unrelayed(o, q) /\ current'[o] = current[o]
  PROVE  Stored' /\ Unique' /\ Unsent'
<1>1. <<>> \in Seq(Entry) /\ IsInjective(<<>>) /\ Range(<<>>) = {}
  BY EmptyIsInjective, NoMessages
<1>2. log[r] \o <<>> = log[r] /\ disk[r] \o <<>> = disk[r]
  BY DEF TypeOK
<1>3. disk' = IF r \in Durable THEN [disk EXCEPT ![r] = @ \o <<>>] ELSE disk
  BY <1>2 DEF TypeOK
<1>4. /\ log'[r] = log[r] \o <<>> \/ (log'[r] = <<>> /\ phase'[r] = "down")
      /\ \A q \in Replica \ {r} : log'[q] = log[q]
  BY <1>2 DEF TypeOK
<1> QED
  BY <1>1, <1>3, <1>4, PairKept

\* A call stack that is replaced: relays of others go on, and r has nothing left to
\* relay that it did not have.
LEMMA EnterPair ==
  ASSUME TypeOK, Targets, NEW r \in Replica, NEW ph, NEW left, NEW tgt, NEW points,
         Enter(r, ph, left, tgt, points),
         \A q \in Replica \ {r} : current'[q] = current[q],
         tgt # None => tgt \in left,
         \A q \in Replica \ {r} :
           \/ ph \notin { "dispatching", "stuck", "relaying", "resync", "again" }
           \/ ph \in { "relaying", "resync", "again" } /\ q \notin left
           \/ Unrelayed(r, q) /\ current'[r] = current[r]
  PROVE  /\ Targets'
         /\ \A o, q \in Replica :
              Unrelayed(o, q)' => Unrelayed(o, q) /\ current'[o] = current[o]
         /\ \A q \in Replica \ {r} : phase'[q] = phase[q]
         /\ phase'[r] = ph
<1>1. /\ phase'[r] = ph /\ todo'[r] = left /\ target'[r] = tgt
      /\ \A q \in Replica \ {r} : /\ phase'[q] = phase[q] /\ todo'[q] = todo[q]
                                  /\ target'[q] = target[q]
  BY DEF TypeOK, Enter
<1>2. Targets'
  BY <1>1 DEF Targets
<1>3. ASSUME NEW o \in Replica, NEW q \in Replica, Unrelayed(o, q)'
      PROVE  Unrelayed(o, q) /\ current'[o] = current[o]
  BY <1>1, <1>3 DEF Unrelayed
<1> QED
  BY <1>1, <1>2, <1>3

\* The invariant besides the file of an originator, for the steps below.
Pairing == Stored /\ Unique /\ Unsent /\ Targets

\* A server that drops a callee receives nothing.
LEMMA DropTargetPair ==
  ASSUME TypeOK, Pairing, NEW r \in Replica, NEW p, NEW known,
         phase[r] \in { "relaying", "resync", "again" },
         DropTarget(r, p, known), log' = log, disk' = disk
  PROVE  Pairing'
<1>1. /\ Enter(r, "relaying", todo[r] \ {p}, None, <<>>) /\ current' = current
  BY DEF DropTarget
<1>2. \A q \in Replica \ {r} : q \in todo[r] => Unrelayed(r, q)
  BY DEF Unrelayed
<1>3. /\ Targets'
      /\ \A o, q \in Replica :
           Unrelayed(o, q)' => Unrelayed(o, q) /\ current'[o] = current[o]
      /\ \A q \in Replica \ {r} : phase'[q] = phase[q]
  BY <1>1, <1>2, EnterPair DEF Pairing
<1> QED
  BY <1>3, PairQuiet DEF Pairing

\* Nor does one that dies.
LEMMA ExitPair ==
  ASSUME TypeOK, Pairing, NEW r \in Replica, NEW known, NEW waiting,
         phase[r] # "down", Exit(r, known, waiting), disk' = disk
  PROVE  Pairing'
<1>1. /\ Enter(r, "down", {}, None, <<>>)
      /\ \A q \in Replica \ {r} : current'[q] = current[q]
      /\ log' = [log EXCEPT ![r] = <<>>]
  BY DEF Exit, TypeOK
<1>2. /\ Targets'
      /\ \A o, q \in Replica :
           Unrelayed(o, q)' => Unrelayed(o, q) /\ current'[o] = current[o]
      /\ \A q \in Replica \ {r} : phase'[q] = phase[q]
      /\ phase'[r] = "down"
  BY <1>1, EnterPair DEF Pairing
<1> QED
  BY <1>1, <1>2, PairQuiet DEF Pairing

LEMMA ThrowsPair ==
  ASSUME TypeOK, Pairing, NEW r \in Replica, NEW known, NEW waiting,
         Introducing(r), IntroductionThrows(r, known, waiting), disk' = disk
  PROVE  Pairing'
<1>1. CASE phase[r] = "introducing"
  BY <1>1, ExitPair DEF IntroductionThrows
<1>2. CASE phase[r] = "resync"
  BY <1>2, DropTargetPair DEF IntroductionThrows
<1> QED
  BY <1>1, <1>2 DEF Introducing

-----------------------------------------------------------------------------
\* Introductions between two servers

\* There is one other server.
LEMMA OtherServer ==
  ASSUME Cardinality(Replica) = 2, NEW r \in Replica,
         NEW p \in Replica \ {r}, NEW q \in Replica \ {r}
  PROVE  p = q
<1>1. IsFiniteSet(Replica)
  BY ConstantsAssumption
<1>2. IsFiniteSet(Replica \ {r}) /\ Cardinality(Replica \ {r}) = 1
  BY <1>1, FS_RemoveElement
<1>3. PICK x : Replica \ {r} = {x}
  BY <1>2, FS_Singleton
<1> QED
  BY <1>3

\* What a free server answers is new to the caller, each message of it once, and
\* nobody has one of them under way to the caller.
LEMMA AnswerIsNew ==
  ASSUME Cardinality(Replica) = 2, TypeOK, Pairing, NEW r \in Replica,
         Introducing(r), Free(Head(queue[r]))
  PROVE  LET es == Answer(r, Head(queue[r]))
         IN  /\ es \in Seq(Entry)
             /\ IsInjective(es)
             /\ Range(es) \cap Range(log[r]) = {}
             /\ \A o \in Replica : ~ Unrelayed(o, r)
<1> DEFINE p == Head(queue[r])
<1>1. p \in Replica /\ p # r
  BY HeadType DEF Introducing, Free
<1>2. Answer(r, p) \in Seq(Entry)
  BY <1>1, AnswerType
<1>3. \A m \in Entry : m.kind \in LogMessageCase /\ m.ts \in Nat
  BY EntryKind DEF Entry
<1>4. log[r] \in Seq(Entry) /\ log[p] \in Seq(Entry)
  BY <1>1 DEF TypeOK
<1>5. /\ Range(Answer(r, p)) \cap Range(log[r]) = {}
      /\ IsInjective(Answer(r, p))
  BY <1>1, <1>3, <1>4, BacklogIsNew DEF Answer, Pairing, Unique
<1>6. ASSUME NEW o \in Replica, Unrelayed(o, r) PROVE FALSE
  <2>1. o = p
    BY <1>1, <1>6, OtherServer DEF Unrelayed
  <2> QED
    BY <1>6, <2>1 DEF Unrelayed, Free
<1> QED
  BY <1>2, <1>5, <1>6

\* The answer of an introduction is applied.
LEMMA IntroducedPair ==
  ASSUME Cardinality(Replica) = 2, TypeOK, Pairing, NEW r \in Replica, Introduced(r)
  PROVE  Pairing'
<1> DEFINE p == Head(queue[r])
           es == Answer(r, p)
<1>1. /\ Introducing(r) /\ Free(p)
      /\ ReceiveMessages(r, es)
      /\ current' = current
      /\ \E q : NextPoint(r, q)
  BY DEF Introduced
<1>2. /\ es \in Seq(Entry) /\ IsInjective(es)
      /\ Range(es) \cap Range(log[r]) = {}
      /\ \A o \in Replica : ~ Unrelayed(o, r)
  BY <1>1, AnswerIsNew
<1>3. PICK q : NextPoint(r, q)
  BY <1>1
<1>4. \E ph, left, tgt, points :
        /\ Enter(r, ph, left, tgt, points)
        /\ tgt # None => tgt \in left
        /\ \/ ph \in { "introducing", "idle" }
           \/ phase[r] = "resync" /\ ph \in { "resync", "again" } /\ left = todo[r]
  <2>1. CASE phase[r] = "introducing"
    BY <2>1, <1>3 DEF NextPoint, Pairing, Targets, TypeOK, CallStack
  <2>2. CASE phase[r] = "resync"
    BY <2>2, <1>3 DEF NextPoint, Pairing, Targets
  <2> QED
    BY <1>1, <2>1, <2>2 DEF Introducing
<1>5. PICK ph, left, tgt, points :
        /\ Enter(r, ph, left, tgt, points)
        /\ tgt # None => tgt \in left
        /\ \/ ph \in { "introducing", "idle" }
           \/ phase[r] = "resync" /\ ph \in { "resync", "again" } /\ left = todo[r]
  BY <1>4
<1>6. \A o \in Replica \ {r} :
        \/ ph \notin { "dispatching", "stuck", "relaying", "resync", "again" }
        \/ ph \in { "relaying", "resync", "again" } /\ o \notin left
        \/ Unrelayed(r, o) /\ current'[r] = current[r]
  BY <1>1, <1>5 DEF Unrelayed
<1>7. /\ Targets'
      /\ \A o, s \in Replica :
           Unrelayed(o, s)' => Unrelayed(o, s) /\ current'[o] = current[o]
      /\ \A o \in Replica \ {r} : phase'[o] = phase[o]
  BY <1>1, <1>5, <1>6, EnterPair DEF Pairing
<1>8. /\ disk' = IF r \in Durable THEN [disk EXCEPT ![r] = @ \o es] ELSE disk
      /\ log'[r] = log[r] \o es
      /\ \A o \in Replica \ {r} : log'[o] = log[o]
      /\ phase[r] # "down"
  BY <1>1 DEF ReceiveMessages, Keep, TypeOK, Introducing
<1>9. \A o \in Replica : ~ Unrelayed(o, r)'
  BY <1>2, <1>7
<1>10. Stored' /\ Unique' /\ Unsent'
  BY <1>2, <1>7, <1>8, <1>9, PairKept DEF Pairing
<1> QED
  BY <1>7, <1>10 DEF Pairing

\* A part of it is applied, and all of that part, but perhaps the last message, is
\* saved; or it is only saved.
LEMMA PartlyAppliedPair ==
  ASSUME Cardinality(Replica) = 2, TypeOK, Pairing, NEW r \in Replica,
         Introducing(r), Free(Head(queue[r])), NEW known,
         NEW k \in 0 .. Len(Answer(r, Head(queue[r]))),
         NEW n \in 0 .. k,
         disk' = IF r \in Durable
                   THEN [disk EXCEPT
                           ![r] = @ \o SubSeq(Answer(r, Head(queue[r])), 1, n)]
                   ELSE disk,
         \/ Exit(r, known, late)
         \/ /\ phase[r] = "resync"
            /\ DropTarget(r, target[r], known)
            /\ log' = [log EXCEPT ![r] = @ \o SubSeq(Answer(r, Head(queue[r])), 1, k)]
  PROVE  Pairing'
<1> DEFINE p == Head(queue[r])
           es == Answer(r, p)
           part == SubSeq(es, 1, k)
           saved == SubSeq(es, 1, n)
<1>1. Introducing(r) /\ Free(p)
  OBVIOUS
<1>2. /\ es \in Seq(Entry) /\ IsInjective(es)
      /\ Range(es) \cap Range(log[r]) = {}
      /\ \A o \in Replica : ~ Unrelayed(o, r)
  BY <1>1, AnswerIsNew
<1>3. /\ disk' = IF r \in Durable THEN [disk EXCEPT ![r] = @ \o saved] ELSE disk
      /\ \/ Exit(r, known, late)
         \/ /\ phase[r] = "resync"
            /\ DropTarget(r, target[r], known)
            /\ log' = [log EXCEPT ![r] = @ \o part]
  OBVIOUS
<1>4. /\ part \in Seq(Entry) /\ IsInjective(part)
      /\ saved \in Seq(Entry) /\ IsInjective(saved)
      /\ Range(saved) \subseteq Range(part)
      /\ Range(part) \cap Range(log[r]) = {}
  <2>1. n \in 0 .. Len(es) /\ Len(es) \in Nat
    BY <1>2, LenProperties
  <2>2. /\ part \in Seq(Entry) /\ IsInjective(part) /\ Range(part) \subseteq Range(es)
        /\ saved \in Seq(Entry) /\ IsInjective(saved)
    BY <1>2, <2>1, RangeOfPrefix, PrefixIsInjective
  <2>3. Range(saved) \subseteq Range(part)
    BY <1>2, PrefixInPrefix
  <2> QED
    BY <1>2, <2>2, <2>3
<1>5. /\ log'[r] = log[r] \o part \/ (log'[r] = <<>> /\ phase'[r] = "down")
      /\ \A o \in Replica \ {r} : log'[o] = log[o]
      /\ phase[r] # "down"
  BY <1>1, <1>3 DEF Exit, Enter, TypeOK, Introducing
<1>6. \E ph, left :
        /\ Enter(r, ph, left, None, <<>>)
        /\ \/ ph = "down"
           \/ phase[r] = "resync" /\ ph = "relaying" /\ left \subseteq todo[r]
              /\ current' = current
        /\ \A o \in Replica \ {r} : current'[o] = current[o]
  BY <1>3 DEF Exit, DropTarget, TypeOK
<1>7. PICK ph, left :
        /\ Enter(r, ph, left, None, <<>>)
        /\ \/ ph = "down"
           \/ phase[r] = "resync" /\ ph = "relaying" /\ left \subseteq todo[r]
              /\ current' = current
        /\ \A o \in Replica \ {r} : current'[o] = current[o]
  BY <1>6
<1>8. \A o \in Replica \ {r} :
        \/ ph \notin { "dispatching", "stuck", "relaying", "resync", "again" }
        \/ ph \in { "relaying", "resync", "again" } /\ o \notin left
        \/ Unrelayed(r, o) /\ current'[r] = current[r]
  BY <1>7 DEF Unrelayed
<1>9. /\ Targets'
      /\ \A o, s \in Replica :
           Unrelayed(o, s)' => Unrelayed(o, s) /\ current'[o] = current[o]
      /\ \A o \in Replica \ {r} : phase'[o] = phase[o]
  BY <1>7, <1>8, EnterPair DEF Pairing
<1>10. \A o \in Replica : ~ Unrelayed(o, r)'
  BY <1>2, <1>9
<1>11. Stored' /\ Unique' /\ Unsent'
  <2> HIDE DEF p, es, part, saved
  <2> QED
    BY <1>3, <1>4, <1>5, <1>9, <1>10, PairKept DEF Pairing
<1> QED
  BY <1>9, <1>11 DEF Pairing

\* The server crashes, or a message cannot be saved.
LEMMA HalfAppliedPair ==
  ASSUME Cardinality(Replica) = 2, TypeOK, Pairing, NEW r \in Replica,
         AnswerHalfApplied(r)
  PROVE  Pairing'
<1> DEFINE p == Head(queue[r])
           es == Answer(r, p)
           known == [live EXCEPT ![p] = @ \cup {r}]
           part(k) == SubSeq(es, 1, k)
<1>1. Introducing(r) /\ Free(p)
  BY DEF AnswerHalfApplied
<1>2. es \in Seq(Entry)
  BY <1>1, AnswerIsNew
<1>3. PICK k \in 0 .. Len(es) - 1 :
        /\ disk' = IF r \in Durable THEN [disk EXCEPT ![r] = @ \o part(k)] ELSE disk
        /\ \/ Exit(r, known, late)
           \/ /\ phase[r] = "resync"
              /\ DropTarget(r, target[r], known)
              /\ log' = [log EXCEPT ![r] = @ \o part(k + 1)]
  BY <1>1 DEF AnswerHalfApplied, AppliedInPart, Introducing
<1>4. k + 1 \in 0 .. Len(es) /\ k \in 0 .. k + 1
  BY <1>2, LenProperties
<1> HIDE DEF known
<1> QED
  BY <1>1, <1>3, <1>4, PartlyAppliedPair

\* The replay of a message throws.
LEMMA IntroductionRefusedPair ==
  ASSUME Cardinality(Replica) = 2, TypeOK, Pairing, NEW r \in Replica,
         IntroductionRefused(r)
  PROVE  Pairing'
<1> DEFINE p == Head(queue[r])
           es == Answer(r, p)
           known == [live EXCEPT ![p] = @ \cup {r}]
           part(k) == SubSeq(es, 1, k)
<1>1. Introducing(r) /\ Free(p)
  BY DEF IntroductionRefused
<1>2. es \in Seq(Entry)
  BY <1>1, AnswerIsNew
<1>3. PICK k \in 0 .. Len(es) - 1 : AppliedInPart(r, p, part(k), part(k))
  BY DEF IntroductionRefused
<1>4. /\ disk' = IF r \in Durable THEN [disk EXCEPT ![r] = @ \o part(k)] ELSE disk
      /\ \/ Exit(r, known, late)
         \/ /\ phase[r] = "resync"
            /\ DropTarget(r, target[r], known)
            /\ log' = [log EXCEPT ![r] = @ \o part(k)]
  BY <1>1, <1>3 DEF AppliedInPart, Introducing
<1>5. k \in 0 .. Len(es) /\ k \in 0 .. k
  BY <1>2, LenProperties
<1> HIDE DEF known
<1> QED
  BY <1>1, <1>4, <1>5, PartlyAppliedPair

-----------------------------------------------------------------------------
\* Messages between two servers

\* The new message of r is nowhere yet.
LEMMA DispatchedPair ==
  ASSUME IInv, Pairing, NEW r \in Replica, Dispatch(r)
  PROVE  Pairing'
<1>1. TypeOK /\ phase[r] = "idle" /\ Enter(r, "dispatching", {}, None, <<>>)
  BY DEF IInv, Dispatch, Stamps
<1>2. PICK m \in NewMessages(r) :
        /\ ReceiveMessages(r, << m >>)
        /\ current' = [current EXCEPT ![r] = m]
  BY DEF Dispatch
<1>3. m \in Entry /\ ~ Held(m)
  <2>1. m \in Entry /\ m.orig = r /\ m.seq = issued[r] + 1
    BY <1>1, <1>2, NewMessageType
  <2>2. issued[r] \in Nat
    BY <1>1 DEF TypeOK
  <2> QED
    BY <2>1, <2>2 DEF IInv, Numbered
<1>4. \A q \in Replica : m \notin Range(log[q]) \cup Range(disk[q])
  BY <1>3 DEF Held
<1>5. << m >> \in Seq(Entry) /\ Range(<< m >>) = {m} /\ IsInjective(<< m >>)
  BY <1>3, RangeOfOne DEF IsInjective
<1>6. /\ disk' = IF r \in Durable THEN [disk EXCEPT ![r] = @ \o << m >>] ELSE disk
      /\ log'[r] = log[r] \o << m >>
      /\ \A q \in Replica \ {r} : log'[q] = log[q]
  BY <1>1, <1>2 DEF ReceiveMessages, Keep, TypeOK
<1>7. /\ phase'[r] = "dispatching" /\ target'[r] = None /\ current'[r] = m
      /\ \A q \in Replica \ {r} : /\ phase'[q] = phase[q] /\ todo'[q] = todo[q]
                                  /\ target'[q] = target[q]
                                  /\ current'[q] = current[q]
  BY <1>1, <1>2, <1>3 DEF Enter, TypeOK
<1>8. /\ Stored' /\ Unique'
      /\ \A q \in Replica \ {r} : disk'[q] = disk[q]
      /\ Range(log'[r]) \subseteq Range(log[r]) \cup {m}
      /\ Range(disk'[r]) \subseteq Range(disk[r]) \cup {m}
  <2>1. Range(<< m >>) \cap Range(log[r]) = {} /\ phase[r] # "down"
    BY <1>1, <1>4, <1>5
  <2> QED
    BY <1>1, <1>5, <1>6, <1>7, <2>1, FilesKept DEF Pairing
<1>9. Targets'
  BY <1>7 DEF Targets, Pairing
<1>10. Unsent'
  <2> SUFFICES ASSUME NEW o \in Replica, NEW q \in Replica, Unrelayed(o, q)'
               PROVE  current'[o] \notin Range(log'[q]) \cup Range(disk'[q])
    BY DEF Unsent
  <2>1. CASE o = r
    <3>1. q # r /\ current'[o] = m /\ log'[q] = log[q] /\ disk'[q] = disk[q]
      BY <1>6, <1>7, <1>8, <2>1 DEF Unrelayed
    <3> QED
      BY <1>4, <3>1
  <2>2. CASE o # r
    <3>1. Unrelayed(o, q) /\ current'[o] = current[o]
      BY <1>7, <2>2 DEF Unrelayed
    <3>2. current[o] \notin Range(log[q]) \cup Range(disk[q])
      BY <3>1 DEF Unsent, Pairing
    <3>3. current[o] # m
      <4>1. current[o] # None
        BY <1>1, <3>1 DEF Unrelayed, TypeOK, CallStack
      <4> QED
        BY <1>3, <4>1 DEF Held
    <3>4. /\ Range(log'[q]) \subseteq Range(log[q]) \cup {m}
          /\ Range(disk'[q]) \subseteq Range(disk[q]) \cup {m}
      <4>1. CASE q = r
        BY <1>8, <4>1
      <4>2. CASE q # r
        BY <1>6, <1>8, <4>2
      <4> QED
        BY <4>1, <4>2
    <3> QED
      BY <3>1, <3>2, <3>3, <3>4
  <2> QED
    BY <2>1, <2>2
<1> QED
  BY <1>8, <1>9, <1>10 DEF Pairing

\* It is replayed and not saved, and is relayed to nobody.
LEMMA DispatchFailsPair ==
  ASSUME IInv, Pairing, NEW r \in Replica, DispatchFails(r)
  PROVE  Pairing'
<1>1. TypeOK /\ phase[r] = "idle"
  BY DEF IInv, DispatchFails, Stamps
<1>2. PICK m \in NewMessages(r) : Keep(r, << m >>, <<>>)
  BY DEF DispatchFails
<1>3. /\ phase' = phase /\ todo' = todo /\ target' = target /\ current' = current
  BY DEF DispatchFails, local
<1>4. m \in Entry /\ ~ Held(m)
  <2>1. m \in Entry /\ m.orig = r /\ m.seq = issued[r] + 1
    BY <1>1, <1>2, NewMessageType
  <2>2. issued[r] \in Nat
    BY <1>1 DEF TypeOK
  <2> QED
    BY <2>1, <2>2 DEF IInv, Numbered
<1>5. /\ << m >> \in Seq(Entry) /\ Range(<< m >>) = {m} /\ IsInjective(<< m >>)
      /\ <<>> \in Seq(Entry) /\ Range(<<>>) = {} /\ IsInjective(<<>>)
  BY <1>4, RangeOfOne, NoMessages, EmptySeqType DEF IsInjective
<1>6. Range(<< m >>) \cap Range(log[r]) = {} /\ phase[r] # "down"
  BY <1>1, <1>4, <1>5 DEF Held
<1>7. \A o, q \in Replica :
        Unrelayed(o, q)' => Unrelayed(o, q) /\ current'[o] = current[o]
  BY <1>3 DEF Unrelayed
<1>8. ASSUME NEW o \in Replica, Unrelayed(o, r)'
      PROVE  current[o] \notin Range(<< m >>)
  <2>1. Unrelayed(o, r) /\ current[o] # None
    BY <1>1, <1>7, <1>8 DEF Unrelayed, TypeOK, CallStack, DispatchPhases
  <2> QED
    BY <1>4, <1>5, <2>1 DEF Held
<1>9. /\ disk' = IF r \in Durable THEN [disk EXCEPT ![r] = @ \o <<>>] ELSE disk
      /\ log'[r] = log[r] \o << m >>
      /\ \A q \in Replica \ {r} : log'[q] = log[q]
  BY <1>1, <1>2, <1>4 DEF Keep, TypeOK
<1>10. Stored' /\ Unique' /\ Unsent'
  BY <1>1, <1>3, <1>5, <1>6, <1>7, <1>8, <1>9, PairKept DEF Pairing
<1>11. Targets'
  BY <1>3 DEF Pairing, Targets
<1> QED
  BY <1>10, <1>11 DEF Pairing

\* The handler of a relay has run at the other server, with or without an exception:
\* that did not have the message, and is struck off the relay.
LEMMA HandledPair ==
  ASSUME Cardinality(Replica) = 2, TypeOK, Pairing, NEW r \in Replica,
         NEW p \in Callees(r), waits[r] = None, Admits(p, current[r]),
         NEW es \in { <<>>, << current[r] >> }, NEW saved \in { <<>>, es },
         Keep(p, es, saved), current' = current,
         Enter(r, "relaying", todo[r] \ {p}, None, <<>>)
  PROVE  Pairing'
<1> DEFINE m == current[r]
<1>1. /\ phase[r] \in { "relaying", "again" } /\ p \in todo[r]
      /\ p \in Replica /\ m \in Entry
  <2>1. CASE phase[r] = "relaying"
    BY <2>1 DEF Callees, TypeOK, CallStack, DispatchPhases
  <2>2. CASE phase[r] = "again"
    BY <2>2 DEF Callees, TypeOK, CallStack, DispatchPhases, Pairing, Targets
  <2>3. phase[r] \in { "relaying", "again" }
    BY DEF Callees
  <2> QED
    BY <2>1, <2>2, <2>3
<1>2. p # r /\ phase[p] # "down"
  BY <1>1 DEF Admits, Free
<1>3. m \notin Range(log[p])
  BY <1>1, <1>2 DEF Pairing, Unsent, Unrelayed
<1>4. /\ es \in Seq(Entry) /\ IsInjective(es) /\ Range(es) \cap Range(log[p]) = {}
      /\ saved \in Seq(Entry) /\ IsInjective(saved)
      /\ Range(saved) \subseteq Range(es)
  <2>1. << m >> \in Seq(Entry) /\ Range(<< m >>) = {m} /\ IsInjective(<< m >>)
    BY <1>1, RangeOfOne DEF IsInjective
  <2>2. <<>> \in Seq(Entry) /\ Range(<<>>) = {} /\ IsInjective(<<>>)
    BY EmptyIsInjective, NoMessages, EmptySeqType
  <2> QED
    BY <1>3, <2>1, <2>2
<1>5. /\ disk' = IF p \in Durable THEN [disk EXCEPT ![p] = @ \o saved] ELSE disk
      /\ log'[p] = log[p] \o es
      /\ \A q \in Replica \ {p} : log'[q] = log[q]
  BY <1>1, <1>4 DEF Keep, TypeOK
<1>6. \A q \in Replica \ {r} :
        q \in todo[r] \ {p} => Unrelayed(r, q) /\ current'[r] = current[r]
  BY <1>1 DEF Unrelayed
<1>7. /\ Targets'
      /\ \A o, s \in Replica :
           Unrelayed(o, s)' => Unrelayed(o, s) /\ current'[o] = current[o]
      /\ \A q \in Replica \ {r} : phase'[q] = phase[q]
      /\ phase'[r] = "relaying"
  BY <1>6, EnterPair DEF Pairing
<1>8. \A o \in Replica : ~ Unrelayed(o, p)'
  <2> SUFFICES ASSUME NEW o \in Replica, Unrelayed(o, p)' PROVE FALSE
    OBVIOUS
  <2>1. o = r
    BY <1>1, <1>2, OtherServer DEF Unrelayed
  <2>2. todo'[r] = todo[r] \ {p}
    BY DEF Enter, TypeOK
  <2> QED
    BY <1>7, <2>1, <2>2 DEF Unrelayed
<1>9. \A q \in Replica \ {p} : phase'[q] # "down" => phase[q] # "down"
  BY <1>1, <1>7
<1>10. Stored' /\ Unique' /\ Unsent'
  <2> HIDE DEF m
  <2> QED
    BY <1>1, <1>2, <1>4, <1>5, <1>7, <1>8, <1>9, PairKept DEF Pairing
<1> QED
  BY <1>7, <1>10 DEF Pairing

\* Keeping nothing changes nothing.
LEMMA KeepNothing ==
  ASSUME TypeOK, NEW r \in Replica, UNCHANGED << log, disk >>
  PROVE  Keep(r, <<>>, <<>>)
<1>1. log[r] \o <<>> = log[r] /\ disk[r] \o <<>> = disk[r]
  BY DEF TypeOK
<1> QED
  BY <1>1 DEF Keep, TypeOK

\* The handler returns.
LEMMA RelayedPair ==
  ASSUME Cardinality(Replica) = 2, TypeOK, Pairing, NEW r \in Replica,
         NEW p \in Callees(r), waits[r] = None, Admits(p, current[r]),
         HandleRelay(p, current[r]), current' = current,
         Enter(r, "relaying", todo[r] \ {p}, None, <<>>)
  PROVE  Pairing'
<1>1. p \in Replica
  <2>1. CASE phase[r] = "relaying"
    BY <2>1 DEF Callees, TypeOK
  <2>2. CASE phase[r] = "again"
    BY <2>2 DEF Callees, TypeOK, CallStack
  <2> QED
    BY <2>1, <2>2 DEF Callees
<1>2. CASE Accepts(p, current[r])
  <2>1. Keep(p, << current[r] >>, << current[r] >>)
    BY <1>2 DEF HandleRelay, ReceiveMessages
  <2> QED
    BY <2>1, HandledPair
<1>3. CASE ~ Accepts(p, current[r])
  <2>1. Keep(p, <<>>, <<>>)
    BY <1>1, <1>3, KeepNothing DEF HandleRelay
  <2> QED
    BY <2>1, HandledPair
<1> QED
  BY <1>2, <1>3

\* It throws.
LEMMA RelayRefusedPair ==
  ASSUME Cardinality(Replica) = 2, TypeOK, Pairing, NEW r \in Replica,
         RelayRefused(r)
  PROVE  Pairing'
<1>1. PICK p \in Callees(r) :
        /\ Admits(p, current[r]) /\ waits[r] = None
        /\ RelayThrows(p, current[r])
        /\ DropTarget(r, p, live)
  BY DEF RelayRefused
<1>2. /\ current' = current
      /\ Enter(r, "relaying", todo[r] \ {p}, None, <<>>)
  BY <1>1 DEF DropTarget
<1>3. p \in Replica
  <2>1. CASE phase[r] = "relaying"
    BY <1>1, <2>1 DEF Callees, TypeOK
  <2>2. CASE phase[r] = "again"
    BY <1>1, <2>2 DEF Callees, TypeOK, CallStack
  <2> QED
    BY <1>1, <2>1, <2>2 DEF Callees
<1>4. CASE UNCHANGED << log, disk >>
  <2>1. Keep(p, <<>>, <<>>)
    BY <1>3, <1>4, KeepNothing
  <2> QED
    BY <1>1, <1>2, <2>1, HandledPair
<1>5. CASE Keep(p, << current[r] >>, <<>>)
  BY <1>1, <1>2, <1>5, HandledPair
<1> QED
  BY <1>1, <1>4, <1>5 DEF RelayThrows

-----------------------------------------------------------------------------
\* The invariant is inductive

\* A server that starts has what its file has.
LEMMA BootPair ==
  ASSUME TypeOK, Pairing, NEW r \in Replica, Boot(r)
  PROVE  Pairing'
<1>1. /\ phase[r] = "down" /\ phase'[r] = "booted" /\ log'[r] = disk[r]
      /\ \A q \in Replica \ {r} : phase'[q] = phase[q] /\ log'[q] = log[q]
      /\ disk' = disk /\ todo' = todo /\ target' = target /\ current' = current
  BY DEF Boot, local, TypeOK
<1>2. Stored' /\ Unique' /\ Targets'
  BY <1>1 DEF Pairing, Stored, Unique, Targets
<1>3. Unsent'
  <2> SUFFICES ASSUME NEW o \in Replica, NEW q \in Replica, Unrelayed(o, q)'
               PROVE  current'[o] \notin Range(log'[q]) \cup Range(disk'[q])
    BY DEF Unsent
  <2>1. Unrelayed(o, q) /\ current'[o] = current[o]
    BY <1>1 DEF Unrelayed
  <2>2. current[o] \notin Range(log[q]) \cup Range(disk[q])
    BY <2>1 DEF Unsent, Pairing
  <2> QED
    BY <1>1, <2>1, <2>2
<1> QED
  BY <1>2, <1>3 DEF Pairing

\* A step of the call stack alone.
LEMMA StackPair ==
  ASSUME TypeOK, Pairing, NEW r \in Replica, log' = log, disk' = disk,
         \/ StartIntroductions(r)
         \/ EnterRelay(r)
         \/ NeedsResync(r)
         \/ CallSticks(r)
         \/ Finish(r)
  PROVE  Pairing'
<1>1. ASSUME NEW ph, NEW left, NEW tgt, NEW points,
             phase[r] # "down", current' = current,
             Enter(r, ph, left, tgt, points), tgt # None => tgt \in left,
             \A q \in Replica \ {r} :
               \/ ph \notin { "dispatching", "stuck", "relaying", "resync", "again" }
               \/ ph \in { "relaying", "resync", "again" } /\ q \notin left
               \/ Unrelayed(r, q)
      PROVE  Pairing'
  <2>1. /\ Targets'
        /\ \A o, q \in Replica :
             Unrelayed(o, q)' => Unrelayed(o, q) /\ current'[o] = current[o]
        /\ \A q \in Replica \ {r} : phase'[q] = phase[q]
    BY <1>1, EnterPair DEF Pairing
  <2> QED
    BY <1>1, <2>1, PairQuiet DEF Pairing
<1>2. CASE StartIntroductions(r)
  BY <1>1, <1>2 DEF StartIntroductions
<1>3. CASE EnterRelay(r)
  BY <1>1, <1>3 DEF EnterRelay, Unrelayed
<1>4. CASE NeedsResync(r)
  <2>1. PICK p \in todo[r] : Enter(r, "resync", todo[r], p, << p >>)
    BY <1>4 DEF NeedsResync
  <2>2. \A q \in Replica \ {r} : q \notin todo[r] \/ Unrelayed(r, q)
    BY <1>4 DEF NeedsResync, Unrelayed
  <2> QED
    BY <1>1, <1>4, <2>1, <2>2 DEF NeedsResync
<1>5. CASE CallSticks(r)
  <2>1. PICK call \in InFlight(r) :
          /\ Sticks(call.to, call.message)
          /\ phase' = [phase EXCEPT ![call.to] = "stuck"]
    BY <1>5 DEF CallSticks
  <2>2. phase[call.to] = "dispatching"
    BY <2>1 DEF Sticks
  <2>3. \A q \in Replica : phase'[q] = phase[q]
                           \/ (phase[q] = "dispatching" /\ phase'[q] = "stuck")
    BY <2>1, <2>2 DEF TypeOK
  <2>4. todo' = todo /\ target' = target /\ current' = current
    BY <1>5 DEF CallSticks
  <2>5. \A o, q \in Replica :
          Unrelayed(o, q)' => Unrelayed(o, q) /\ current'[o] = current[o]
    BY <2>3, <2>4 DEF Unrelayed
  <2>6. Targets'
    BY <2>4 DEF Targets, Pairing
  <2>7. phase[r] # "down"
    BY <2>1 DEF InFlight, Callees, Introducing
  <2>8. \A q \in Replica \ {r} : phase'[q] # "down" => phase[q] # "down"
    BY <2>3
  <2> QED
    BY <2>5, <2>6, <2>7, <2>8, PairQuiet DEF Pairing
<1>6. CASE Finish(r)
  <2>1. /\ phase[r] = "relaying" /\ phase'[r] = "idle"
        /\ \A q \in Replica \ {r} : phase'[q] = phase[q] /\ current'[q] = current[q]
        /\ todo' = todo /\ target' = target
    BY <1>6 DEF Finish, TypeOK
  <2>2. \A o, q \in Replica :
          Unrelayed(o, q)' => Unrelayed(o, q) /\ current'[o] = current[o]
    BY <2>1 DEF Unrelayed
  <2>3. Targets'
    BY <2>1 DEF Targets, Pairing
  <2>4. phase[r] # "down" /\ \A q \in Replica \ {r} : phase'[q] # "down" => phase[q] # "down"
    BY <2>1
  <2> QED
    BY <2>2, <2>3, <2>4, PairQuiet DEF Pairing
<1> QED
  BY <1>2, <1>3, <1>4, <1>5, <1>6

\* What becomes of the calls of a server that gives up or ends: without "late" its
\* handler never runs.
LEMMA PairStep ==
  ASSUME Cardinality(Replica) = 2, "late" \notin Faults, PairInv, [Next]_vars
  PROVE  Pairing' /\ late' = {}
<1>1. TypeOK /\ IInv /\ Pairing /\ late = {}
  BY DEF PairInv, IInv, Pairing
<1>2. CASE UNCHANGED vars
  BY <1>1, <1>2
  DEF vars, local, Pairing, Stored, Unique, Unsent, Unrelayed, Targets
<1>3. ~ Fault("late")
  BY DEF Fault
<1>4. ASSUME NEW r \in Replica, NEW known, NEW waiting, Exit(r, known, waiting),
             waiting = {}
      PROVE  late' = {}
  BY <1>4 DEF Exit
<1>5. ASSUME NEW r \in Replica, NEW known, IntroductionThrows(r, known, late)
      PROVE  late' = {}
  BY <1>1, <1>4, <1>5 DEF IntroductionThrows
<1>6. ASSUME NEW r \in Replica,
             \/ Boot(r) \/ StartIntroductions(r) \/ Introduced(r) \/ EnterRelay(r)
             \/ CallSticks(r) \/ Relayed(r) \/ NeedsResync(r) \/ Finish(r)
             \/ Dispatch(r) \/ RelayUnanswered(r)
             \/ DispatchFails(r) \/ RelayRefused(r)
      PROVE  late' = {}
  BY <1>1, <1>6 DEF Boot, StartIntroductions, Introduced, EnterRelay, CallSticks,
                    Relayed, NeedsResync, Finish, Dispatch, RelayUnanswered,
                    DispatchFails, RelayRefused
<1>7. ASSUME NEW r \in Replica,
             \/ StartIntroductions(r) \/ EnterRelay(r) \/ CallSticks(r)
             \/ NeedsResync(r) \/ Finish(r)
      PROVE  Pairing'
  <2>1. log' = log /\ disk' = disk
    BY <1>7 DEF StartIntroductions, EnterRelay, CallSticks, NeedsResync, Finish
  <2> QED
    BY <1>1, <1>7, <2>1, StackPair
<1>8. ASSUME NEW r \in Replica, IntroductionFails(r) \/ IntroductionUnanswered(r)
      PROVE  Pairing' /\ late' = {}
  <2>1. \E known : IntroductionThrows(r, known, late)
    BY <1>3, <1>8 DEF IntroductionFails, IntroductionUnanswered
  <2>2. Introducing(r) /\ disk' = disk
    BY <1>8 DEF IntroductionFails, IntroductionUnanswered
  <2> QED
    BY <1>1, <1>5, <2>1, <2>2, ThrowsPair
<1>9. ASSUME NEW r \in Replica, AnswerHalfApplied(r) \/ IntroductionRefused(r)
      PROVE  Pairing' /\ late' = {}
  <2>1. late' = late \/ \E known : Exit(r, known, late)
    BY <1>9 DEF AnswerHalfApplied, IntroductionRefused, AppliedInPart
  <2> QED
    BY <1>1, <1>4, <1>9, <2>1, HalfAppliedPair, IntroductionRefusedPair
<1>10. ASSUME NEW r \in Replica, Relayed(r)
       PROVE  Pairing'
  <2>1. PICK p \in Callees(r) :
          /\ Admits(p, current[r]) /\ waits[r] = None
          /\ HandleRelay(p, current[r])
          /\ Enter(r, "relaying", todo[r] \ {p}, None, <<>>)
    BY <1>10 DEF Relayed
  <2>2. current' = current
    BY <1>10 DEF Relayed
  <2> QED
    BY <1>1, <2>1, <2>2, RelayedPair
<1>11. ASSUME NEW r \in Replica, RelayUnanswered(r)
       PROVE  Pairing'
  <2>1. PICK p \in Callees(r) :
          /\ Admits(p, current[r]) /\ waits[r] = None
          /\ HandleRelay(p, current[r])
          /\ DropTarget(r, p, live)
    BY <1>11 DEF RelayUnanswered
  <2>2. /\ current' = current
        /\ Enter(r, "relaying", todo[r] \ {p}, None, <<>>)
    BY <2>1 DEF DropTarget
  <2> QED
    BY <1>1, <2>1, <2>2, RelayedPair
<1>12. ASSUME NEW r \in Replica, RelayFails(r)
       PROVE  Pairing' /\ late' = {}
  <2>1. PICK p \in Callees(r) : late' = late /\ DropTarget(r, p, live)
    BY <1>3, <1>12 DEF RelayFails
  <2>2. phase[r] \in { "relaying", "again" } /\ log' = log /\ disk' = disk
    BY <1>12, <2>1 DEF RelayFails, Callees
  <2> QED
    BY <1>1, <2>1, <2>2, DropTargetPair
<1>13. ASSUME NEW r \in Replica, LateCall(r) \/ LateCallSticks(r)
       PROVE  FALSE
  BY <1>1, <1>13 DEF LateCall, LateCallSticks
<1>14. ASSUME NEW r \in Replica, Crash(r)
       PROVE  Pairing' /\ late' = {}
  <2>1. phase[r] # "down" /\ disk' = disk /\ Exit(r, live, late)
    BY <1>14 DEF Crash
  <2> QED
    BY <1>1, <1>4, <2>1, ExitPair
<1>15. ASSUME NEW r \in Replica,
              \/ Boot(r) \/ Introduced(r) \/ Dispatch(r)
              \/ DispatchFails(r) \/ RelayRefused(r)
       PROVE  Pairing'
  BY <1>1, <1>15, BootPair, IntroducedPair, DispatchedPair, DispatchFailsPair,
     RelayRefusedPair
<1>16. ASSUME NEW r \in Replica, Progress(r)
       PROVE  Pairing' /\ late' = {}
  BY <1>6, <1>7, <1>8, <1>9, <1>10, <1>12, <1>15, <1>16 DEF Progress
<1> QED
  BY <1>2, <1>6, <1>8, <1>9, <1>11, <1>13, <1>14, <1>15, <1>16 DEF Next

\* Between two servers that are never called by somebody who has given up, no log
\* message is replayed twice, through any crashes, half-applied backlogs and broken
\* connections: a server is only relayed what it cannot have learnt by introducing
\* itself, since a server that relays answers no introduction
\* (the methods at ReplicationService.java:59, :88 and :133 are synchronized).
THEOREM NoDuplicatesHolds ==
  ASSUME Cardinality(Replica) = 2, "late" \notin Faults
  PROVE  Spec => []NoDuplicates
<1>1. PairInv /\ [Next]_vars => PairInv'
  BY PairStep, InvariantIsInductive DEF PairInv, Pairing
<1>2. PairInv => NoDuplicates
  BY DEF PairInv, Unique, NoDuplicates
<1> QED
  BY <1>1, <1>2, PairInit, PTL DEF Spec

=============================================================================
