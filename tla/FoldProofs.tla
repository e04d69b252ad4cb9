----------------------------- MODULE FoldProofs -----------------------------
(***************************************************************************)
(* What a loop over a sequence computes.  Database.tla and LogReplay.tla   *)
(* write their loops with FoldLeft; here Step is the body of a loop and    *)
(* Holds what is to be known of its state, so that a module that proves    *)
(* something about a loop instantiates both.                               *)
(***************************************************************************)
EXTENDS Naturals, Sequences, SequencesExt, SequenceTheorems,
        WellFoundedInduction, TLAPS

CONSTANTS
  Step(_, _, _), \* Step(c, s, x): what the body makes, in context c, of state s with
                 \* element x
  Holds(_, _, _) \* Holds(c, k, s): s is as it should be, in context c, after k turns

Fold(c, base, seq) == FoldLeft(LAMBDA s, x : Step(c, s, x), base, seq)

-----------------------------------------------------------------------------
\* Induction

\* A set of numbers has a smallest one.
LEMMA SmallestNumber ==
  ASSUME NEW T \in SUBSET Nat, T # {}
  PROVE  \E x \in T : \A y \in T : x <= y
<1> DEFINE R == OpToRel(<, Nat)
<1>1. IsWellFoundedOn(R, Nat)
  BY NatLessThanWellFounded
<1>2. \A x, y \in Nat : x < y => << x, y >> \in R
  BY DEF OpToRel
<1> HIDE DEF R
<1>3. PICK x \in T : \A y \in T : ~ (<< y, x >> \in R)
  BY <1>1, WFMin
<1>4. \A y \in T : ~ (y < x)
  BY <1>2, <1>3
<1> QED
  BY <1>4

\* A set of numbers that holds 0 and, up to n, the successor of each of its
\* members, holds every number up to n.
LEMMA Ascent ==
  ASSUME NEW n \in Nat, NEW P, 0 \in P, \A k \in 0 .. n : k < n /\ k \in P => k + 1 \in P
  PROVE  0 .. n \subseteq P
<1> DEFINE T == { k \in 0 .. n : k \notin P }
<1>1. SUFFICES ASSUME T # {} PROVE FALSE
  OBVIOUS
<1>2. PICK k \in T : \A j \in T : k <= j
  <2> T \in SUBSET Nat
    OBVIOUS
  <2> QED
    BY <1>1, SmallestNumber
<1>3. k # 0 /\ k \in 1 .. n
  OBVIOUS
<1>4. k - 1 \in 0 .. n /\ k - 1 < n /\ k - 1 \notin T /\ (k - 1) + 1 = k
  BY <1>2, <1>3
<1> QED
  BY <1>3, <1>4

LEMMA LargestOfInterval ==
  ASSUME NEW n \in Nat, NEW s \in SUBSET (1 .. n), s # {}
  PROVE  Max(s) \in s /\ \A x \in s : x <= Max(s)
<1> DEFINE T == { n - x : x \in s }
<1>1. T \in SUBSET Nat /\ T # {}
  <2>1. \A x \in s : x \in 1 .. n /\ n - x \in Nat
    OBVIOUS
  <2> QED
    BY <2>1
<1>2. PICK t \in T : \A u \in T : t <= u
  BY <1>1, SmallestNumber
<1>3. PICK x \in s : t = n - x
  OBVIOUS
<1>4. \A y \in s : n - x <= n - y
  BY <1>2, <1>3
<1>5. x \in 1 .. n /\ \A y \in s : y \in 1 .. n
  BY <1>3
<1>6. \A y \in s : x >= y
  BY <1>4, <1>5
<1>7. Max(s) \in s /\ \A y \in s : Max(s) >= y
  BY <1>3, <1>6 DEF Max
<1> QED
  BY <1>7, <1>5

LEMMA LargestIs ==
  ASSUME NEW n \in Nat, NEW s \in SUBSET (1 .. n), NEW m \in s, \A x \in s : x <= m
  PROVE  Max(s) = m
<1>1. Max(s) \in s /\ m <= Max(s)
  BY LargestOfInterval
<1>2. Max(s) <= m /\ Max(s) \in 1 .. n /\ m \in 1 .. n
  BY <1>1
<1> QED
  BY <1>1, <1>2

-----------------------------------------------------------------------------
\* The recursive function behind FoldLeft

IsIter(c, base, seq, n, g) ==
  g = [ s \in SUBSET (1 .. n) |->
          IF s = {} THEN base ELSE Step(c, g[s \ {Max(s)}], seq[Max(s)]) ]

LEMMA IterExtends ==
  ASSUME NEW c, NEW base, NEW seq, NEW n \in Nat, NEW g, IsIter(c, base, seq, n, g)
  PROVE  \E h : IsIter(c, base, seq, n + 1, h)
<1> DEFINE h == [ s \in SUBSET (1 .. n + 1) |->
                    IF n + 1 \in s THEN Step(c, g[s \ {n + 1}], seq[n + 1]) ELSE g[s] ]
           next == [ s \in SUBSET (1 .. n + 1) |->
                       IF s = {} THEN base ELSE Step(c, h[s \ {Max(s)}], seq[Max(s)]) ]
<1>1. ASSUME NEW s \in SUBSET (1 .. n + 1) PROVE h[s] = next[s]
  <2>1. CASE n + 1 \in s
    <3>1. Max(s) = n + 1
      BY <2>1, LargestIs
    <3>2. s \ {n + 1} \in SUBSET (1 .. n + 1) /\ n + 1 \notin s \ {n + 1}
      OBVIOUS
    <3>3. h[s \ {n + 1}] = g[s \ {n + 1}]
      BY <3>2
    <3> QED
      BY <2>1, <3>1, <3>3
  <2>2. CASE n + 1 \notin s
    <3>1. s \in SUBSET (1 .. n)
      BY <2>2
    <3>2. g[s] = IF s = {} THEN base ELSE Step(c, g[s \ {Max(s)}], seq[Max(s)])
      BY <3>1 DEF IsIter
    <3>3. h[s] = g[s]
      BY <2>2
    <3>4. CASE s = {}
      BY <3>2, <3>3, <3>4
    <3>5. CASE s # {}
      <4>1. s \ {Max(s)} \in SUBSET (1 .. n + 1) /\ n + 1 \notin s \ {Max(s)}
        BY <2>2
      <4>2. h[s \ {Max(s)}] = g[s \ {Max(s)}]
        BY <4>1
      <4> QED
        BY <3>2, <3>3, <3>5, <4>2
    <3> QED
      BY <3>4, <3>5
  <2> QED
    BY <2>1, <2>2
<1>2. h = next
  BY <1>1
<1>3. IsIter(c, base, seq, n + 1, h)
  <2> HIDE DEF h
  <2> QED
    BY <1>2 DEF IsIter
<1> QED
  BY <1>3

LEMMA IterExists ==
  ASSUME NEW c, NEW base, NEW seq, NEW n \in Nat
  PROVE  \E g : IsIter(c, base, seq, n, g)
<1> DEFINE P == { k \in Nat : \E g : IsIter(c, base, seq, k, g) }
<1>1. 0 \in P
  <2> DEFINE g == [ s \in SUBSET (1 .. 0) |-> base ]
  <2>1. \A s \in SUBSET (1 .. 0) : s = {}
    OBVIOUS
  <2>2. g = [ s \in SUBSET (1 .. 0) |->
                IF s = {} THEN base ELSE Step(c, g[s \ {Max(s)}], seq[Max(s)]) ]
    BY <2>1
  <2> HIDE DEF g
  <2>3. IsIter(c, base, seq, 0, g)
    BY <2>2 DEF IsIter
  <2> QED
    BY <2>3
<1>2. \A k \in 0 .. n : k < n /\ k \in P => k + 1 \in P
  BY IterExtends
<1> HIDE DEF P
<1>3. n \in P
  BY <1>1, <1>2, Ascent
<1> QED
  BY <1>3 DEF P

LEMMA FoldIter ==
  ASSUME NEW S, NEW c, NEW base, NEW seq \in Seq(S)
  PROVE  \E g : /\ IsIter(c, base, seq, Len(seq), g)
                /\ Fold(c, base, seq) = g[1 .. Len(seq)]
<1>1. DOMAIN seq = 1 .. Len(seq) /\ Len(seq) \in Nat
  BY LenProperties
<1> DEFINE iter == CHOOSE g : IsIter(c, base, seq, Len(seq), g)
<1>2. Fold(c, base, seq) = iter[1 .. Len(seq)]
  BY <1>1 DEF Fold, FoldLeft, MapThenFoldSet, IsIter
<1>3. IsIter(c, base, seq, Len(seq), iter)
  <2>1. \E g : IsIter(c, base, seq, Len(seq), g)
    BY <1>1, IterExists
  <2> QED
    BY <2>1
<1> QED
  BY <1>2, <1>3

\* The function takes one turn after the other.
LEMMA IterTurns ==
  ASSUME NEW c, NEW base, NEW seq, NEW n \in Nat, NEW g, IsIter(c, base, seq, n, g)
  PROVE  /\ g[1 .. 0] = base
         /\ \A k \in 1 .. n : g[1 .. k] = Step(c, g[1 .. k - 1], seq[k])
<1>1. g[1 .. 0] = base
  BY DEF IsIter
<1>2. ASSUME NEW k \in 1 .. n PROVE g[1 .. k] = Step(c, g[1 .. k - 1], seq[k])
  <2>1. 1 .. k \in SUBSET (1 .. n) /\ 1 .. k # {} /\ k \in 1 .. k
    OBVIOUS
  <2>2. Max(1 .. k) = k
    <3>1. \A x \in 1 .. k : x <= k
      OBVIOUS
    <3> QED
      BY <2>1, <3>1, LargestIs
  <2>3. (1 .. k) \ {k} = 1 .. k - 1
    OBVIOUS
  <2> QED
    BY <2>1, <2>2, <2>3 DEF IsIter
<1> QED
  BY <1>1, <1>2

\* The results of the turns, from base to the result of the loop.
Turns(c, base, seq, after) ==
  /\ after[0] = base
  /\ \A k \in 1 .. Len(seq) : after[k] = Step(c, after[k - 1], seq[k])
  /\ Fold(c, base, seq) = after[Len(seq)]

LEMMA FoldTurns ==
  ASSUME NEW S, NEW c, NEW base, NEW seq \in Seq(S)
  PROVE  \E after : Turns(c, base, seq, after)
<1>1. PICK g : /\ IsIter(c, base, seq, Len(seq), g)
               /\ Fold(c, base, seq) = g[1 .. Len(seq)]
  BY FoldIter
<1>2. Len(seq) \in Nat
  BY LenProperties
<1>3. /\ g[1 .. 0] = base
      /\ \A k \in 1 .. Len(seq) : g[1 .. k] = Step(c, g[1 .. k - 1], seq[k])
  BY <1>1, <1>2, IterTurns
<1> DEFINE after == [ k \in 0 .. Len(seq) |-> g[1 .. k] ]
<1>4. after[0] = base /\ Fold(c, base, seq) = after[Len(seq)]
  BY <1>1, <1>2, <1>3
<1>5. ASSUME NEW k \in 1 .. Len(seq) PROVE after[k] = Step(c, after[k - 1], seq[k])
  <2>1. k \in 0 .. Len(seq) /\ k - 1 \in 0 .. Len(seq)
    BY <1>2
  <2> QED
    BY <1>3, <2>1
<1> HIDE DEF after
<1> QED
  BY <1>4, <1>5 DEF Turns

-----------------------------------------------------------------------------
\* What a loop does

\* A loop over nothing does nothing.
THEOREM FoldEmpty ==
  ASSUME NEW c, NEW base
  PROVE  Fold(c, base, << >>) = base
<1>1. << >> \in Seq({}) /\ Len(<< >>) = 0
  BY EmptySeq
<1>2. PICK g : Turns(c, base, << >>, g)
  BY <1>1, FoldTurns
<1> QED
  BY <1>1, <1>2 DEF Turns

\* One more element is one more turn, after all others.
THEOREM FoldAppend ==
  ASSUME NEW S, NEW c, NEW base, NEW seq \in Seq(S), NEW x \in S
  PROVE  Fold(c, base, Append(seq, x)) = Step(c, Fold(c, base, seq), x)
<1> DEFINE n == Len(seq)
           long == Append(seq, x)
<1>1. n \in Nat /\ long \in Seq(S) /\ Len(long) = n + 1 /\ long[n + 1] = x
  BY LenProperties
<1>2. \A k \in 1 .. n : long[k] = seq[k]
  OBVIOUS
<1>3. PICK g : Turns(c, base, seq, g)
  BY FoldTurns
<1>4. PICK h : Turns(c, base, long, h)
  BY <1>1, FoldTurns
<1> DEFINE P == { k \in Nat : g[k] = h[k] }
<1> HIDE DEF long, n
<1>5. 0 \in P
  BY <1>3, <1>4 DEF Turns
<1>6. \A k \in 0 .. n : k < n /\ k \in P => k + 1 \in P
  <2> TAKE k \in 0 .. n
  <2> HAVE k < n /\ k \in P
  <2>1. k + 1 \in 1 .. n /\ k + 1 \in 1 .. n + 1 /\ (k + 1) - 1 = k
    BY <1>1
  <2>2. g[k + 1] = Step(c, g[k], seq[k + 1])
    BY <1>3, <2>1 DEF Turns, n
  <2>3. h[k + 1] = Step(c, h[k], seq[k + 1])
    BY <1>1, <1>2, <1>4, <2>1 DEF Turns
  <2> QED
    BY <2>1, <2>2, <2>3
<1> HIDE DEF P
<1>7. n \in P
  <2>1. 0 .. n \subseteq P
    BY <1>1, <1>5, <1>6, Ascent
  <2> QED
    BY <1>1, <2>1
<1>8. h[n + 1] = Step(c, h[n], x)
  BY <1>1, <1>4 DEF Turns
<1>9. Fold(c, base, seq) = g[n] /\ Fold(c, base, long) = h[n + 1]
  BY <1>1, <1>3, <1>4 DEF Turns, n
<1> QED
  BY <1>7, <1>8, <1>9 DEF P, long

\* A loop goes on from what its first turn made.
THEOREM FoldFirst ==
  ASSUME NEW S, NEW c, NEW base, NEW seq \in Seq(S), seq # << >>
  PROVE  Fold(c, base, seq) = Fold(c, Step(c, base, Head(seq)), Tail(seq))
<1> DEFINE n == Len(seq)
           first == Step(c, base, Head(seq))
           rest == Tail(seq)
<1>1. /\ n \in Nat \ {0} /\ rest \in Seq(S) /\ Len(rest) = n - 1
      /\ seq[1] = Head(seq)
  OBVIOUS
<1>2. \A k \in 1 .. n - 1 : rest[k] = seq[k + 1]
  OBVIOUS
<1>3. PICK g : Turns(c, base, seq, g)
  BY FoldTurns
<1>4. PICK h : Turns(c, first, rest, h)
  BY <1>1, FoldTurns
<1> DEFINE P == { k \in Nat : g[k + 1] = h[k] }
<1> HIDE DEF rest, n
<1>5. 0 \in P
  <2>1. 1 \in 1 .. n /\ 1 - 1 = 0
    BY <1>1
  <2>2. g[1] = Step(c, g[1 - 1], seq[1]) /\ g[0] = base
    BY <1>3, <2>1 DEF Turns, n
  <2>3. g[1] = first
    BY <1>1, <2>1, <2>2
  <2>4. h[0] = first
    BY <1>4 DEF Turns
  <2> QED
    BY <2>3, <2>4
<1> HIDE DEF first
<1>6. \A k \in 0 .. n - 1 : k < n - 1 /\ k \in P => k + 1 \in P
  <2> TAKE k \in 0 .. n - 1
  <2> HAVE k < n - 1 /\ k \in P
  <2>1. /\ k + 1 \in 1 .. n - 1 /\ (k + 1) - 1 = k
        /\ (k + 1) + 1 \in 1 .. n /\ ((k + 1) + 1) - 1 = k + 1
    BY <1>1
  <2>2. g[(k + 1) + 1] = Step(c, g[k + 1], seq[(k + 1) + 1])
    BY <1>3, <2>1 DEF Turns, n
  <2>3. h[k + 1] = Step(c, h[k], seq[(k + 1) + 1])
    BY <1>1, <1>2, <1>4, <2>1 DEF Turns
  <2> QED
    BY <2>1, <2>2, <2>3
<1> HIDE DEF P
<1>7. n - 1 \in P
  <2>1. 0 .. n - 1 \subseteq P
    BY <1>1, <1>5, <1>6, Ascent
  <2> QED
    BY <1>1, <2>1
<1>8. Fold(c, base, seq) = g[n] /\ Fold(c, first, rest) = h[n - 1]
  BY <1>1, <1>3, <1>4 DEF Turns, n
<1> QED
  BY <1>1, <1>7, <1>8 DEF P, first, rest

\* What holds before a loop and is kept by every turn holds after it.
THEOREM FoldKeeps ==
  ASSUME NEW S, NEW c, NEW base, NEW seq \in Seq(S),
         Holds(c, 0, base),
         \A k \in 1 .. Len(seq) : \A s :
           Holds(c, k - 1, s) => Holds(c, k, Step(c, s, seq[k]))
  PROVE  Holds(c, Len(seq), Fold(c, base, seq))
<1> DEFINE n == Len(seq)
<1>1. n \in Nat
  BY LenProperties
<1>2. PICK g : Turns(c, base, seq, g)
  BY FoldTurns
<1> DEFINE P == { k \in Nat : Holds(c, k, g[k]) }
<1>3. 0 \in P
  BY <1>2 DEF Turns
<1>4. \A k \in 0 .. n : k < n /\ k \in P => k + 1 \in P
  <2> TAKE k \in 0 .. n
  <2> HAVE k < n /\ k \in P
  <2>1. k + 1 \in 1 .. n /\ k + 1 \in Nat /\ (k + 1) - 1 = k
    BY <1>1
  <2>2. Holds(c, (k + 1) - 1, g[k])
    BY <2>1
  <2>3. Holds(c, k + 1, Step(c, g[k], seq[k + 1]))
    BY <2>1, <2>2
  <2> QED
    BY <1>2, <2>1, <2>3 DEF Turns
<1> HIDE DEF P, n
<1>5. n \in P
  <2>1. 0 .. n \subseteq P
    BY <1>1, <1>3, <1>4, Ascent
  <2> QED
    BY <1>1, <2>1
<1> QED
  BY <1>2, <1>5 DEF P, n, Turns
=============================================================================
