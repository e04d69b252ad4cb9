-------------------------- MODULE FaultlessProofs --------------------------
(***************************************************************************)
(* What the replication protocol keeps as long as nothing has failed and   *)
(* no replay has thrown, for any number of servers and messages.           *)
(***************************************************************************)
EXTENDS ReplicationProofs

USE DEF DispatchPhases, CallPhases

-----------------------------------------------------------------------------
\* The inductive invariant behind Mesh

\* No relay ever needs a resync, and a call only waits for a server that is stuck.
Calm ==
  /\ late = {}
  /\ \A r \in Replica :
       /\ phase[r] \notin { "resync", "again" }
       /\ waits[r] # None => phase[waits[r]] = "stuck"
       /\ current[r] # None => current[r].orig = r

\* Servers know each other mutually, and only servers that run.
Links ==
  \A r \in Replica :
    /\ r \notin live[r]
    /\ todo[r] \subseteq live[r]
    /\ \A p \in live[r] : r \in live[p] /\ phase[p] # "down"

\* A server that knows anybody knows Seed, and introduces itself only to servers
\* that are known already; one that serves clients has been introduced.
Joining ==
  /\ phase[Seed] # "introducing"
  /\ \A r \in Replica \ {Seed} :
       /\ live[r] # {} => Seed \in live[r]
       /\ phase[r] = "booted" => live[r] = {}
       /\ Serving(r) => live[r] # {}
       /\ phase[r] = "introducing" =>
            IF live[r] = {} THEN queue[r] = << Seed >>
            ELSE \A q \in Range(queue[r]) : live[q] # {} /\ q # r

\* Of two servers known to Seed one knows the other or is about to introduce
\* itself to it.
Pairs ==
  \A r, p \in Replica :
    live[r] # {} /\ live[p] # {} /\ r # p =>
      p \in live[r] \/ p \in Range(queue[r]) \/ r \in Range(queue[p])

MeshInv == TypeOK /\ (Undisturbed => Calm /\ Links /\ Joining /\ Pairs)

-----------------------------------------------------------------------------
\* Steps without faults

\* The introduction point of a server that nobody knows yet is down.
GivesUp(r) ==
  /\ phase[r] = "introducing"
  /\ live[r] = {}
  /\ Exit(r, live, late)
  /\ UNCHANGED << disk, issued, clock, acked, unsaved, refused, faults >>

LEMMA FaultCounts ==
  ASSUME TypeOK, NEW kind, Fault(kind)
  PROVE  faults' # 0
BY DEF TypeOK, Fault

\* The point at the head of the queue is one of the queue.
LEMMA HeadInQueue ==
  ASSUME TypeOK, NEW r \in Replica, Introducing(r)
  PROVE  /\ Head(queue[r]) \in Range(queue[r])
         /\ Range(Tail(queue[r])) \subseteq Range(queue[r])
         /\ Range(queue[r]) = { Head(queue[r]) } \cup Range(Tail(queue[r]))
<1>1. queue[r] \in Seq(Replica) /\ queue[r] # <<>>
  BY DEF TypeOK, CallStack
<1>2. /\ Len(queue[r]) \in Nat \ {0}
      /\ DOMAIN queue[r] = 1 .. Len(queue[r])
      /\ Head(queue[r]) = queue[r][1]
      /\ DOMAIN Tail(queue[r]) = 1 .. Len(queue[r]) - 1
      /\ \A i \in 1 .. Len(queue[r]) - 1 : Tail(queue[r])[i] = queue[r][i + 1]
  <2>1. /\ Tail(queue[r]) \in Seq(Replica)
        /\ Len(Tail(queue[r])) = Len(queue[r]) - 1
        /\ \A i \in 1 .. Len(Tail(queue[r])) : Tail(queue[r])[i] = queue[r][i + 1]
        /\ Head(queue[r]) = queue[r][1]
    BY <1>1, HeadTailProperties
  <2> QED
    BY <1>1, <2>1, LenProperties, EmptySeq
<1>3. ASSUME NEW i \in 1 .. Len(queue[r])
      PROVE  queue[r][i] \in { Head(queue[r]) } \cup Range(Tail(queue[r]))
  <2>1. CASE i = 1
    BY <1>2, <2>1
  <2>2. CASE i # 1
    <3>1. i - 1 \in 1 .. Len(queue[r]) - 1 /\ (i - 1) + 1 = i
      BY <1>2, <2>2
    <3>2. queue[r][i] = Tail(queue[r])[i - 1]
      BY <1>2, <3>1
    <3> QED
      BY <1>2, <3>1, <3>2 DEF Range
  <2> QED
    BY <2>1, <2>2
<1>4. Head(queue[r]) \in Range(queue[r])
  BY <1>2 DEF Range
<1>5. Range(Tail(queue[r])) \subseteq Range(queue[r])
  BY <1>2 DEF Range
<1> QED
  BY <1>2, <1>3, <1>4, <1>5 DEF Range

\* A step that is no fault and no refusal is one of nine: no relay fails or needs a
\* resync, and only a server that nobody knows gives up.
LEMMA FaultlessStep ==
  ASSUME TypeOK, Calm, Links, Joining, Next, Undisturbed'
  PROVE  \E r \in Replica :
           \/ Boot(r) \/ StartIntroductions(r) \/ Introduced(r) \/ GivesUp(r)
           \/ Dispatch(r) \/ EnterRelay(r) \/ CallSticks(r) \/ Relayed(r) \/ Finish(r)
<1>1. ASSUME NEW r \in Replica, NEW p \in Callees(r), waits[r] = None
      PROVE  p \in live[r]
  BY <1>1 DEF Callees, Calm, Links
<1>2. ASSUME NEW r \in Replica, NEW p \in Callees(r) PROVE ~ Lost(r, p)
  <2>1. CASE waits[r] = None
    <3>1. p # None /\ phase[p] # "down"
      BY <1>1, <2>1, CalleesType, NoneIsNoEntry DEF Links
    <3> QED
      BY <2>1, <3>1 DEF Lost
  <2>2. CASE waits[r] # None
    BY <2>2, CalleesType DEF Callees, Calm, Lost
  <2> QED
    BY <2>1, <2>2
<1>3. ASSUME NEW r \in Replica, NeedsResync(r) PROVE FALSE
  <2>1. PICK p \in todo[r] : ~ Accepts(p, current[r])
    BY <1>3 DEF NeedsResync
  <2>2. phase[r] = "relaying" /\ current[r] # None
    BY <1>3 DEF NeedsResync, TypeOK, CallStack
  <2>3. p \in Replica /\ r \in live[p] /\ current[r].orig = r
    BY <2>1, <2>2 DEF Links, Calm, TypeOK
  <2> QED
    BY <2>1, <2>3 DEF Accepts
<1>4. ASSUME NEW r \in Replica, RelayFails(r) PROVE FALSE
  BY <1>2, <1>4, FaultCounts DEF RelayFails, Undisturbed
<1>5. ASSUME NEW r \in Replica, IntroductionFails(r) PROVE GivesUp(r)
  <2>1. /\ phase[r] = "introducing"
        /\ Head(queue[r]) \in Range(queue[r]) /\ Head(queue[r]) \in Replica
        /\ Lost(r, Head(queue[r]))
        /\ UNCHANGED faults
        /\ IntroductionThrows(r, live, late)
    BY <1>5, HeadInQueue, HeadType, FaultCounts
    DEF IntroductionFails, Introducing, Calm, Undisturbed
  <2>2. phase[Head(queue[r])] = "down"
    BY <2>1, NoneIsNoEntry DEF Lost, Calm
  <2>3. live[Head(queue[r])] = {}
    <3>1. live[Head(queue[r])] \subseteq Replica
      BY <2>1 DEF TypeOK
    <3> QED
      BY <2>1, <2>2, <3>1 DEF Links
  <2>4. live[r] = {}
    BY <2>1, <2>3 DEF Joining
  <2> QED
    BY <1>5, <2>1, <2>4 DEF IntroductionFails, IntroductionThrows, GivesUp
<1>6. ASSUME NEW r \in Replica,
             \/ IntroductionUnanswered(r) \/ AnswerHalfApplied(r)
             \/ RelayUnanswered(r) \/ LateCall(r) \/ LateCallSticks(r) \/ Crash(r)
             \/ DispatchFails(r)
      PROVE  FALSE
  BY <1>6, FaultCounts
  DEF IntroductionUnanswered, AnswerHalfApplied, RelayUnanswered, LateCall,
      LateCallSticks, Crash, DispatchFails, SaveFails, Calm, Undisturbed
<1>7. ASSUME NEW r \in Replica, RelayRefused(r) PROVE FALSE
  <2>1. PICK p : RelayThrows(p, current[r])
    BY <1>7 DEF RelayRefused
  <2> QED
    BY <2>1, FaultCounts DEF RelayThrows, SaveFails, Undisturbed
<1>8. ASSUME NEW r \in Replica, IntroductionRefused(r) PROVE FALSE
  BY <1>8 DEF IntroductionRefused, Undisturbed
<1> QED
  BY <1>3, <1>4, <1>5, <1>6, <1>7, <1>8 DEF Next, Progress

-----------------------------------------------------------------------------
\* Mesh

LEMMA MeshInit == Init => MeshInv
<1> SUFFICES ASSUME Init PROVE Calm /\ Links /\ Joining /\ Pairs
  BY InitType DEF MeshInv
<1>1. Calm /\ Links /\ Pairs
  BY DEF Init, Calm, Links, Pairs
<1>2. Joining
  BY ConstantsAssumption DEF Init, Joining, Serving
<1> QED
  BY <1>1, <1>2

\* An ordering of a set holds all of it.
LEMMA RangeOfOrdering ==
  ASSUME NEW S, IsFiniteSet(S), NEW f \in SetToSeqs(S)
  PROVE  Range(f) = S
<1> DEFINE n == Cardinality(S)
<1>1. n \in Nat
  BY FS_CardinalityType
<1>2. f \in [1 .. n -> S] /\ \A i, j \in 1 .. n : i # j => f[i] # f[j]
  BY DEF SetToSeqs
<1>3. f \in Injection(1 .. n, S)
  BY <1>2 DEF Injection, IsInjective
<1>4. IsFiniteSet(1 .. n) /\ Cardinality(1 .. n) = n
  BY <1>1, FS_Interval
<1>5. f \in Surjection(1 .. n, S)
  BY <1>3, <1>4, FS_Injection
<1> QED
  BY <1>2, <1>5 DEF Surjection, Range

\* What an introduction changes: r and its introduction point p know each other
\* from then on, and r goes on with the rest of the points and those p knows.
LEMMA IntroductionStep ==
  ASSUME TypeOK, NEW r \in Replica, phase[r] = "introducing", Introduced(r)
  PROVE  LET p == Head(queue[r]) IN
         /\ p \in Replica /\ p \in Range(queue[r]) /\ phase[p] \in { "booted", "idle" }
         /\ live' = [live EXCEPT ![r] = @ \cup {p}, ![p] = @ \cup {r}]
         /\ UNCHANGED << current, late, issued, clock, acked, faults >>
         /\ ReceiveMessages(r, Answer(r, p))
         /\ \A q \in Replica \ {r} : /\ phase'[q] = phase[q] /\ todo'[q] = todo[q]
                                     /\ queue'[q] = queue[q] /\ waits'[q] = waits[q]
         /\ waits'[r] = None /\ waits[r] = None
         /\ phase'[r] \in { "introducing", "idle" }
         /\ phase'[r] = "idle" => todo'[r] = {}
         /\ phase'[r] = "introducing" => todo'[r] = todo[r]
         /\ Range(queue'[r]) = Range(Tail(queue[r]))
                                 \cup (live[p] \ (live[r] \cup { p, r }))
<1> DEFINE p == Head(queue[r])
           S == live[p] \ (live[r] \cup { p, r })
<1>1. p \in Replica /\ p \in Range(queue[r]) /\ Tail(queue[r]) \in Seq(Replica)
  BY HeadType, HeadInQueue DEF Introducing
<1>2. PICK more \in NewPoints(r, p) : NextPoint(r, Tail(queue[r]) \o more)
  BY DEF Introduced
<1>3. more \in Seq(Replica) /\ Range(more) = S
  <2>1. more \in Seq(Replica)
    BY <1>1, <1>2, NewPointsType
  <2>2. IsFiniteSet(S)
    <3>1. S \subseteq Replica
      BY <1>1 DEF TypeOK
    <3> QED
      BY <3>1, ConstantsAssumption, FS_Subset
  <2>3. Range(more) = S
    BY <1>2, <2>2, RangeOfOrdering DEF NewPoints
  <2> QED
    BY <2>1, <2>3
<1> HIDE DEF S
<1> DEFINE q == Tail(queue[r]) \o more
<1>4. q \in Seq(Replica) /\ Range(q) = Range(Tail(queue[r])) \cup S
  BY <1>1, <1>3, RangeOfConcat
<1> HIDE DEF q
<1>5. \/ Enter(r, "introducing", todo[r], target[r], q)
      \/ Enter(r, "idle", {}, None, <<>>) /\ q = <<>>
  BY <1>2 DEF NextPoint, q
<1>6. queue'[r] = q
  BY <1>5 DEF Enter, TypeOK
<1>7. /\ \A x \in Replica \ {r} : /\ phase'[x] = phase[x] /\ todo'[x] = todo[x]
                                   /\ queue'[x] = queue[x] /\ waits'[x] = waits[x]
      /\ waits'[r] = None
      /\ phase'[r] \in { "introducing", "idle" }
      /\ phase'[r] = "idle" => todo'[r] = {}
      /\ phase'[r] = "introducing" => todo'[r] = todo[r]
  BY <1>5 DEF Enter, TypeOK
<1> QED
  BY <1>1, <1>4, <1>6, <1>7 DEF Introduced, Free, S

\* The invariant in terms of one server and its peers, for the steps that change
\* only the call stack of r.
LEMMA MeshKept ==
  ASSUME TypeOK, TypeOK', Calm, Links, Joining, Pairs, NEW r \in Replica,
         UNCHANGED << live, late >>,
         \A q \in Replica \ {r} : /\ phase'[q] = phase[q] /\ todo'[q] = todo[q]
                                  /\ queue'[q] = queue[q] /\ waits'[q] = waits[q]
                                  /\ current'[q] = current[q],
         phase[r] # "stuck", phase'[r] \notin { "resync", "again" },
         phase'[r] = "introducing" => r # Seed /\ live[r] = {} /\ queue'[r] = << Seed >>,
         waits'[r] = None,
         current'[r] # None => current'[r].orig = r,
         todo'[r] \subseteq live[r],
         phase'[r] = "down" => live[r] = {},
         phase'[r] = "booted" => live[r] = {},
         Serving(r)' => r = Seed \/ live[r] # {},
         queue[r] = <<>> \/ live[r] = {}
  PROVE  (Calm /\ Links /\ Joining /\ Pairs)'
<1>1. Calm'
  <2> SUFFICES ASSUME NEW q \in Replica
               PROVE  /\ phase'[q] \notin { "resync", "again" }
                      /\ waits'[q] # None => phase'[waits'[q]] = "stuck"
                      /\ current'[q] # None => current'[q].orig = q
    BY DEF Calm
  <2>1. CASE q = r
    BY <2>1
  <2>2. CASE q # r
    <3>1. waits[q] # None => waits[q] \in Replica /\ waits[q] # r
      BY DEF TypeOK, Calm
    <3>2. waits'[q] # None => phase'[waits'[q]] = "stuck"
      BY <2>2, <3>1 DEF Calm
    <3> QED
      BY <2>2, <3>2 DEF Calm
  <2> QED
    BY <2>1, <2>2
<1>2. Links'
  BY DEF TypeOK, Links
<1>3. Joining'
  <2>1. phase'[Seed] # "introducing"
    BY ConstantsAssumption DEF Joining
  <2>2. ASSUME NEW q \in Replica \ {Seed}
        PROVE  /\ live[q] # {} => Seed \in live[q]
               /\ phase'[q] = "booted" => live[q] = {}
               /\ Serving(q)' => live[q] # {}
               /\ phase'[q] = "introducing" =>
                    IF live[q] = {} THEN queue'[q] = << Seed >>
                    ELSE \A x \in Range(queue'[q]) : live[x] # {} /\ x # q
    BY DEF Joining, Serving
  <2> QED
    BY <2>1, <2>2 DEF Joining
<1>4. Pairs'
  <2> SUFFICES ASSUME NEW a \in Replica, NEW b \in Replica,
                      live[a] # {}, live[b] # {}, a # b
               PROVE  b \in live[a] \/ b \in Range(queue'[a]) \/ a \in Range(queue'[b])
    BY DEF Pairs
  <2>1. b \in live[a] \/ b \in Range(queue[a]) \/ a \in Range(queue[b])
    BY DEF Pairs
  <2>2. Range(<<>>) = {}
    BY DEF Range
  <2>3. \A q \in Replica : live[q] # {} => queue'[q] = queue[q] \/ queue[q] = <<>>
    OBVIOUS
  <2> QED
    BY <2>1, <2>2, <2>3
<1> QED
  BY <1>1, <1>2, <1>3, <1>4

\* Faults are only counted up, and refused messages are not forgotten.
LEMMA DisturbanceStays ==
  ASSUME TypeOK, TypeOK', Next, Undisturbed'
  PROVE  Undisturbed
<1>1. faults \in Nat /\ faults' \in Nat
  BY DEF TypeOK
<1>2. faults' = faults \/ faults' = faults + 1
  BY DEF Next, Progress, Boot, StartIntroductions, Introduced, Dispatch,
    EnterRelay, CallSticks, Relayed, Finish, NeedsResync, RelayFails, RelayRefused,
    IntroductionFails, IntroductionRefused, IntroductionUnanswered,
    AnswerHalfApplied, DispatchFails, RelayThrows, SaveFails,
    RelayUnanswered, LateCall, LateCallSticks, Crash, Fault
<1>3. refused \subseteq refused'
  BY DEF Next, Progress, Boot, StartIntroductions, Introduced, Dispatch,
    EnterRelay, CallSticks, Relayed, Finish, NeedsResync, RelayFails, RelayRefused,
    IntroductionFails, IntroductionRefused, IntroductionUnanswered,
    AnswerHalfApplied, DispatchFails, RelayThrows,
    RelayUnanswered, LateCall, LateCallSticks, Crash
<1> QED
  BY <1>1, <1>2, <1>3 DEF Undisturbed

\* The mesh is kept by every step as long as nothing fails or is refused.
LEMMA MeshNext ==
  ASSUME MeshInv, [Next]_vars
  PROVE  MeshInv'
<1>1. TypeOK /\ TypeOK'
  BY NextType DEF MeshInv
<1>2. SUFFICES ASSUME Undisturbed' PROVE (Calm /\ Links /\ Joining /\ Pairs)'
  BY <1>1 DEF MeshInv
<1>3. CASE UNCHANGED vars
  BY <1>2, <1>3 DEF MeshInv, Undisturbed, vars, local, Calm, Links,
     Joining, Pairs, Serving
<1>4. CASE Next
  <2>1. Undisturbed
    BY <1>1, <1>2, <1>4, DisturbanceStays
  <2>2. Calm /\ Links /\ Joining /\ Pairs
    BY <2>1 DEF MeshInv
  <2>3. \A r \in Replica : phase[r] = "down" => live[r] = {}
    BY <1>1, <2>2 DEF TypeOK, Links
  <2>4. ASSUME NEW r \in Replica, Boot(r) PROVE (Calm /\ Links /\ Joining /\ Pairs)'
    <3>1. /\ phase[r] = "down" /\ live[r] = {} /\ todo[r] \subseteq live[r]
          /\ phase' = [phase EXCEPT ![r] = "booted"]
          /\ UNCHANGED << live, todo, target, queue, current, waits, late >>
      BY <2>2, <2>3, <2>4 DEF Boot, local, Links
    <3>2. queue[r] = <<>> /\ waits[r] = None /\ current[r] = None
      BY <1>1, <3>1 DEF TypeOK, CallStack, Introducing
    <3>3. phase'[r] = "booted" /\ \A q \in Replica \ {r} : phase'[q] = phase[q]
      BY <1>1, <3>1 DEF TypeOK
    <3>4. ~ Serving(r)'
      BY <3>3 DEF Serving
    <3> QED
      BY <1>1, <2>2, <3>1, <3>2, <3>3, <3>4, MeshKept
  <2>5. ASSUME NEW r \in Replica, StartIntroductions(r)
        PROVE  (Calm /\ Links /\ Joining /\ Pairs)'
    <3>1. /\ phase[r] = "booted" /\ UNCHANGED << live, late, current >>
          /\ \/ r = Seed /\ Enter(r, "idle", {}, None, <<>>)
             \/ r # Seed /\ Enter(r, "introducing", {}, None, << Seed >>)
      BY <2>5 DEF StartIntroductions
    <3>2. queue[r] = <<>> /\ current[r] = None
      BY <1>1, <3>1 DEF TypeOK, CallStack, Introducing
    <3>3. /\ \/ phase'[r] = "idle" /\ r = Seed
             \/ phase'[r] = "introducing" /\ r # Seed /\ queue'[r] = << Seed >>
          /\ todo'[r] = {} /\ waits'[r] = None
          /\ \A q \in Replica \ {r} : /\ phase'[q] = phase[q] /\ todo'[q] = todo[q]
                                      /\ queue'[q] = queue[q] /\ waits'[q] = waits[q]
      <4>1. CASE r = Seed
        BY <1>1, <3>1, <4>1 DEF TypeOK, Enter
      <4>2. CASE r # Seed
        BY <1>1, <3>1, <4>2 DEF TypeOK, Enter
      <4> QED
        BY <4>1, <4>2
    <3>4. phase'[r] = "introducing" => live[r] = {}
      BY <2>2, <3>1, <3>3 DEF Joining
    <3>5. Serving(r)' => r = Seed
      BY <3>3 DEF Serving
    <3> QED
      BY <1>1, <2>2, <3>1, <3>2, <3>3, <3>4, <3>5, MeshKept
  <2>6. ASSUME NEW r \in Replica, Introduced(r)
        PROVE  (Calm /\ Links /\ Joining /\ Pairs)'
    <3> DEFINE p == Head(queue[r])
    <3>1. phase[r] = "introducing"
      BY <2>2, <2>6 DEF Introduced, Introducing, Calm
    <3>2. /\ p \in Replica /\ p \in Range(queue[r]) /\ phase[p] \in { "booted", "idle" }
          /\ live' = [live EXCEPT ![r] = @ \cup {p}, ![p] = @ \cup {r}]
          /\ UNCHANGED << current, late >>
          /\ \A q \in Replica \ {r} : /\ phase'[q] = phase[q] /\ todo'[q] = todo[q]
                                      /\ queue'[q] = queue[q] /\ waits'[q] = waits[q]
          /\ waits'[r] = None
          /\ phase'[r] \in { "introducing", "idle" }
          /\ phase'[r] = "idle" => todo'[r] = {}
          /\ phase'[r] = "introducing" => todo'[r] = todo[r]
          /\ Range(queue'[r]) = Range(Tail(queue[r]))
                                  \cup (live[p] \ (live[r] \cup { p, r }))
      BY <1>1, <2>6, <3>1, IntroductionStep
    <3>3. Range(queue[r]) = {p} \cup Range(Tail(queue[r]))
      BY <1>1, <3>1, HeadInQueue DEF Introducing
    <3> HIDE DEF p
    <3>4. p # r /\ r # Seed
      BY <2>2, <3>1, <3>2 DEF Joining
    <3>5. /\ live'[r] = live[r] \cup {p} /\ live'[p] = live[p] \cup {r}
          /\ \A q \in Replica \ { r, p } : live'[q] = live[q]
          /\ \A q \in Replica : live[q] \subseteq live'[q]
      <4>1. /\ live \in [Replica -> SUBSET Replica]
            /\ live' = [live EXCEPT ![r] = @ \cup {p}, ![p] = @ \cup {r}]
        BY <1>1, <3>2 DEF TypeOK
      <4>2. /\ live'[r] = live[r] \cup {p} /\ live'[p] = live[p] \cup {r}
            /\ \A q \in Replica \ { r, p } : live'[q] = live[q]
        BY <3>2, <3>4, <4>1
      <4> QED
        BY <4>2
    <3>6. /\ live[r] = {} => p = Seed /\ queue[r] = << Seed >>
          /\ live[r] # {} => \A q \in Range(queue[r]) : live[q] # {} /\ q # r
      <4>1. live[r] = {} => queue[r] = << Seed >>
        BY <2>2, <3>1, <3>4 DEF Joining
      <4>2. queue[r] = << Seed >> => p = Seed
        BY <3>3 DEF p
      <4> QED
        BY <2>2, <3>1, <3>4, <4>1, <4>2 DEF Joining
    <3>7. Calm'
      <4> SUFFICES ASSUME NEW q \in Replica
                   PROVE  /\ phase'[q] \notin { "resync", "again" }
                          /\ waits'[q] # None => phase'[waits'[q]] = "stuck"
                          /\ current'[q] # None => current'[q].orig = q
        BY <2>2, <3>2 DEF Calm
      <4>1. waits[q] # None => waits[q] \in Replica /\ waits[q] # r
        BY <1>1, <2>2, <3>1 DEF TypeOK, Calm
      <4>2. waits'[q] # None => phase'[waits'[q]] = "stuck"
        BY <2>2, <3>2, <4>1 DEF Calm
      <4> QED
        BY <2>2, <3>2, <4>2 DEF Calm
    <3>8. Links'
      <4>1. ASSUME NEW q \in Replica
            PROVE  q \notin live'[q] /\ todo'[q] \subseteq live'[q]
        <5>1. q \notin live[q] /\ todo[q] \subseteq live[q]
          BY <2>2 DEF Links
        <5>2. todo'[q] = todo[q] \/ todo'[q] = {}
          BY <3>2
        <5>3. q \notin live'[q]
          BY <3>4, <3>5, <5>1
        <5> QED
          BY <3>5, <5>1, <5>2, <5>3
      <4>2. ASSUME NEW q \in Replica, NEW x \in live'[q]
            PROVE  q \in live'[x] /\ phase'[x] # "down"
        <5>1. x \in Replica
          BY <1>1, <4>2 DEF TypeOK
        <5>2. x \in live[q] \/ (q = r /\ x = p) \/ (q = p /\ x = r)
          BY <3>5, <4>2
        <5>3. q \in live'[x]
          BY <2>2, <3>4, <3>5, <5>1, <5>2 DEF Links
        <5>4. phase[x] # "down"
          BY <2>2, <3>1, <3>2, <5>2 DEF Links
        <5> QED
          BY <3>2, <5>1, <5>3, <5>4
      <4> QED
        BY <4>1, <4>2 DEF Links
    <3>9. Joining'
      <4>1. phase'[Seed] # "introducing"
        BY <2>2, <3>2, <3>4, ConstantsAssumption DEF Joining
      <4>2. \A q \in Replica : live[q] # {} => live'[q] # {}
        BY <3>5
      <4>3. Seed \in live'[r]
        BY <2>2, <3>4, <3>5, <3>6 DEF Joining
      <4>4. p # Seed => live[p] # {}
        BY <2>2, <3>2, <3>6 DEF Joining
      <4>5. ASSUME NEW q \in Replica \ {Seed}, q # r
            PROVE  /\ live'[q] # {} => Seed \in live'[q]
                   /\ phase'[q] = "booted" => live'[q] = {}
                   /\ Serving(q)' => live'[q] # {}
                   /\ phase'[q] = "introducing" =>
                        IF live'[q] = {} THEN queue'[q] = << Seed >>
                        ELSE \A x \in Range(queue'[q]) : live'[x] # {} /\ x # q
        <5>1. CASE q # p
          <6>1. live'[q] = live[q] /\ phase'[q] = phase[q] /\ queue'[q] = queue[q]
            BY <3>2, <3>5, <4>5, <5>1
          <6>2. Range(queue[q]) \subseteq Replica
            BY <1>1 DEF TypeOK, Range
          <6> QED
            BY <2>2, <4>2, <4>5, <6>1, <6>2 DEF Joining, Serving
        <5>2. CASE q = p
          <6>1. phase'[q] = "idle"
            BY <2>2, <3>2, <4>4, <4>5, <5>2 DEF Joining
          <6>2. Seed \in live'[q]
            BY <2>2, <3>2, <3>5, <4>4, <4>5, <5>2 DEF Joining
          <6> QED
            BY <6>1, <6>2
        <5> QED
          BY <5>1, <5>2
      <4>6. ASSUME NEW x \in Range(queue'[r]) PROVE live'[x] # {} /\ x # r
        <5>1. CASE x \in Range(Tail(queue[r]))
          <6>1. x \in Range(queue[r]) /\ x \in Replica
            <7>1. queue[r] \in Seq(Replica)
              BY <1>1 DEF TypeOK
            <7> QED
              BY <3>3, <5>1, <7>1 DEF Range
          <6>2. live[r] # {} => live[x] # {} /\ x # r
            BY <3>6, <6>1
          <6>3. live[r] = {} => x = p
            BY <3>6, <6>1, RangeOfOne
          <6>4. live'[p] # {}
            BY <3>2, <3>4, <3>5
          <6> QED
            BY <3>4, <4>2, <6>1, <6>2, <6>3, <6>4
        <5>2. CASE x \in live[p] \ (live[r] \cup { p, r })
          <6>1. x \in Replica /\ live[x] # {} /\ x # r
            BY <1>1, <2>2, <3>2, <5>2 DEF TypeOK, Links
          <6> QED
            BY <4>2, <6>1
        <5> QED
          BY <3>2, <4>6, <5>1, <5>2
      <4>7. /\ phase'[r] # "booted" /\ live'[r] # {}
        BY <3>2, <4>3
      <4> QED
        BY <4>1, <4>3, <4>5, <4>6, <4>7 DEF Joining
    <3>10. Pairs'
      <4>1. ASSUME NEW b \in Replica \ {r}, live'[b] # {}
            PROVE  b \in live'[r] \/ b \in Range(queue'[r])
                     \/ r \in Range(queue'[b])
        <5>1. CASE b = p
          BY <3>5, <5>1
        <5>2. CASE b # p
          <6>1. live[b] # {}
            BY <3>5, <4>1, <5>2
          <6>2. CASE live[r] = {}
            <7>1. b # Seed /\ Seed \in live[b]
              BY <2>2, <3>6, <5>2, <6>1, <6>2 DEF Joining
            <7>2. b \in live[p]
              BY <2>2, <3>6, <6>2, <7>1 DEF Links
            <7> QED
              BY <3>2, <4>1, <5>2, <6>2, <7>2
          <6>3. CASE live[r] # {}
            <7>1. b \in live[r] \/ b \in Range(queue[r]) \/ r \in Range(queue[b])
              BY <2>2, <4>1, <6>1, <6>3 DEF Pairs
            <7> QED
              BY <3>2, <3>3, <3>5, <4>1, <5>2, <7>1
          <6> QED
            BY <6>2, <6>3
        <5> QED
          BY <5>1, <5>2
      <4>2. ASSUME NEW a \in Replica \ {r}, NEW b \in Replica \ {r}, a # b,
                   live'[a] # {}, live'[b] # {}
            PROVE  b \in live'[a] \/ b \in Range(queue'[a])
                     \/ a \in Range(queue'[b])
        <5>1. \A q \in Replica \ {r} : live'[q] # {} => live[q] # {} \/ q = p
          BY <3>5
        <5>2. \A q \in Replica : live[q] # {} /\ q # Seed => live[Seed] # {}
          BY <2>2, ConstantsAssumption DEF Joining, Links
        <5>3. live[p] = {} => p = Seed
          BY <2>2, <3>2, <3>6 DEF Joining
        <5>4. live[a] # {} /\ live[b] # {}
          BY <4>2, <5>1, <5>2, <5>3
        <5> QED
          BY <2>2, <3>2, <3>5, <4>2, <5>4 DEF Pairs
      <4>3. SUFFICES ASSUME NEW a \in Replica, NEW b \in Replica,
                            live'[a] # {}, live'[b] # {}, a # b
                     PROVE  b \in live'[a] \/ b \in Range(queue'[a])
                              \/ a \in Range(queue'[b])
        BY DEF Pairs
      <4>4. CASE a = r
        BY <4>1, <4>3, <4>4
      <4>5. CASE b = r
        <5>1. r \in live'[a] <=> a \in live'[r]
          BY <3>8 DEF Links
        <5> QED
          BY <4>1, <4>3, <4>5, <5>1
      <4> QED
        BY <4>2, <4>3, <4>4, <4>5
    <3> QED
      BY <3>7, <3>8, <3>9, <3>10
  <2>7. ASSUME NEW r \in Replica, GivesUp(r) PROVE (Calm /\ Links /\ Joining /\ Pairs)'
    <3>1. /\ phase[r] = "introducing" /\ live[r] = {}
          /\ live' = [live EXCEPT ![r] = {}]
          /\ Enter(r, "down", {}, None, <<>>)
          /\ current' = [current EXCEPT ![r] = None]
          /\ late' = { c \in late : c.to # r }
      BY <2>7 DEF GivesUp, Exit
    <3>2. live' = live /\ late' = late
      BY <1>1, <2>2, <3>1 DEF TypeOK, Calm
    <3>3. /\ phase'[r] = "down" /\ todo'[r] = {} /\ waits'[r] = None
          /\ current'[r] = None
          /\ \A q \in Replica \ {r} : /\ phase'[q] = phase[q] /\ todo'[q] = todo[q]
                                      /\ queue'[q] = queue[q] /\ waits'[q] = waits[q]
                                      /\ current'[q] = current[q]
      BY <1>1, <3>1 DEF TypeOK, Enter
    <3>4. ~ Serving(r)'
      BY <3>3 DEF Serving
    <3> QED
      BY <1>1, <2>2, <3>1, <3>2, <3>3, <3>4, MeshKept
  <2>8. ASSUME NEW r \in Replica, Dispatch(r) PROVE (Calm /\ Links /\ Joining /\ Pairs)'
    <3>1. PICK m : m.orig = r /\ current' = [current EXCEPT ![r] = m]
      BY <2>8 DEF Dispatch, NewMessages
    <3>2. /\ phase[r] = "idle" /\ UNCHANGED << live, late >>
          /\ Enter(r, "dispatching", {}, None, <<>>)
      BY <2>8 DEF Dispatch, Stamps
    <3>3. queue[r] = <<>> /\ (r = Seed \/ live[r] # {})
      BY <1>1, <2>2, <3>2 DEF TypeOK, CallStack, Introducing, Joining, Serving
    <3>4. /\ phase'[r] = "dispatching" /\ todo'[r] = {} /\ waits'[r] = None
          /\ current'[r] = m
          /\ \A q \in Replica \ {r} : /\ phase'[q] = phase[q] /\ todo'[q] = todo[q]
                                      /\ queue'[q] = queue[q] /\ waits'[q] = waits[q]
                                      /\ current'[q] = current[q]
      BY <1>1, <3>1, <3>2 DEF TypeOK, Enter
    <3> QED
      BY <1>1, <2>2, <3>1, <3>2, <3>3, <3>4, MeshKept
  <2>9. ASSUME NEW r \in Replica, EnterRelay(r) PROVE (Calm /\ Links /\ Joining /\ Pairs)'
    <3>1. /\ phase[r] = "dispatching" /\ UNCHANGED << live, late, current >>
          /\ Enter(r, "relaying", live[r], None, <<>>)
      BY <2>9 DEF EnterRelay
    <3>2. /\ queue[r] = <<>> /\ (r = Seed \/ live[r] # {})
          /\ current[r] # None => current[r].orig = r
      BY <1>1, <2>2, <3>1 DEF TypeOK, CallStack, Introducing, Joining, Serving, Calm
    <3>3. /\ phase'[r] = "relaying" /\ todo'[r] = live[r] /\ waits'[r] = None
          /\ \A q \in Replica \ {r} : /\ phase'[q] = phase[q] /\ todo'[q] = todo[q]
                                      /\ queue'[q] = queue[q] /\ waits'[q] = waits[q]
      BY <1>1, <3>1 DEF TypeOK, Enter
    <3> QED
      BY <1>1, <2>2, <3>1, <3>2, <3>3, MeshKept
  <2>10. ASSUME NEW r \in Replica, CallSticks(r) PROVE (Calm /\ Links /\ Joining /\ Pairs)'
    <3>1. PICK call \in InFlight(r) :
            /\ phase[call.to] = "dispatching"
            /\ phase' = [phase EXCEPT ![call.to] = "stuck"]
            /\ waits' = [waits EXCEPT ![r] = call.to]
      BY <2>10 DEF CallSticks, Sticks
    <3>2. call.to \in Replica
      BY <1>1, CalleesType, HeadType DEF InFlight, Call
    <3>3. UNCHANGED << live, todo, queue, current, late >>
      BY <2>10 DEF CallSticks
    <3>4. \A q \in Replica : /\ phase'[q] = IF q = call.to THEN "stuck" ELSE phase[q]
                             /\ waits'[q] = IF q = r THEN call.to ELSE waits[q]
      BY <1>1, <3>1 DEF TypeOK
    <3>5. Calm'
      <4> SUFFICES ASSUME NEW q \in Replica
                   PROVE  /\ phase'[q] \notin { "resync", "again" }
                          /\ waits'[q] # None => phase'[waits'[q]] = "stuck"
                          /\ current'[q] # None => current'[q].orig = q
        BY <2>2, <3>3 DEF Calm
      <4>1. waits'[q] # None => waits'[q] \in Replica
        BY <1>1 DEF TypeOK
      <4> QED
        BY <2>2, <3>2, <3>3, <3>4, <4>1 DEF Calm
    <3>6. Links'
      BY <1>1, <2>2, <3>3, <3>4 DEF Links, TypeOK
    <3>7. Joining'
      BY <2>2, <3>1, <3>3, <3>4, ConstantsAssumption DEF Joining, Serving
    <3>8. Pairs'
      BY <2>2, <3>3 DEF Pairs
    <3> QED
      BY <3>5, <3>6, <3>7, <3>8
  <2>11. ASSUME NEW r \in Replica, Relayed(r) PROVE (Calm /\ Links /\ Joining /\ Pairs)'
    <3>1. PICK p \in Callees(r) : Enter(r, "relaying", todo[r] \ {p}, None, <<>>)
      BY <2>11 DEF Relayed
    <3>2. phase[r] = "relaying" /\ UNCHANGED << live, late, current >>
      BY <1>1, <2>2, <2>11, <3>1, CalleesType DEF Relayed, Calm
    <3>3. /\ queue[r] = <<>> /\ (r = Seed \/ live[r] # {})
          /\ current[r] # None => current[r].orig = r
          /\ todo[r] \subseteq live[r]
      BY <1>1, <2>2, <3>2 DEF TypeOK, CallStack, Introducing, Joining, Serving, Calm, Links
    <3>4. /\ phase'[r] = "relaying" /\ todo'[r] = todo[r] \ {p} /\ waits'[r] = None
          /\ \A q \in Replica \ {r} : /\ phase'[q] = phase[q] /\ todo'[q] = todo[q]
                                      /\ queue'[q] = queue[q] /\ waits'[q] = waits[q]
      BY <1>1, <3>1 DEF TypeOK, Enter
    <3> QED
      BY <1>1, <2>2, <3>2, <3>3, <3>4, MeshKept
  <2>12. ASSUME NEW r \in Replica, Finish(r) PROVE (Calm /\ Links /\ Joining /\ Pairs)'
    <3>1. /\ phase[r] = "relaying" /\ Callees(r) = {}
          /\ phase' = [phase EXCEPT ![r] = "idle"]
          /\ current' = [current EXCEPT ![r] = None]
          /\ UNCHANGED << live, late, todo, queue, waits >>
      BY <2>12 DEF Finish
    <3>2. /\ queue[r] = <<>> /\ (r = Seed \/ live[r] # {})
          /\ todo[r] \subseteq live[r] /\ waits[r] = None
      BY <1>1, <2>2, <3>1 DEF TypeOK, CallStack, Introducing, Joining, Serving, Links, Callees
    <3>3. /\ phase'[r] = "idle" /\ current'[r] = None
          /\ \A q \in Replica \ {r} : phase'[q] = phase[q] /\ current'[q] = current[q]
      BY <1>1, <3>1 DEF TypeOK
    <3> QED
      BY <1>1, <2>2, <3>1, <3>2, <3>3, MeshKept
  <2> QED
    BY <1>1, <1>2, <1>4, <2>2, <2>4, <2>5, <2>6, <2>7, <2>8, <2>9, <2>10, <2>11,
       <2>12, FaultlessStep
<1> QED
  BY <1>3, <1>4

\* What the invariant is for.
LEMMA MeshOfInv == MeshInv => (faults = 0 => Mesh)
<1> SUFFICES ASSUME TypeOK, Calm, Links, Joining, Pairs,
                    NEW r \in Replica, NEW p \in Replica,
                    Serving(r), Serving(p), r # p
             PROVE  p \in live[r]
  BY DEF MeshInv, Mesh, Undisturbed
<1>1. \A q \in Replica : Serving(q) => queue[q] = <<>>
  BY DEF TypeOK, CallStack, Introducing, Serving, Calm
<1>2. Range(<<>>) = {}
  BY DEF Range
<1>3. CASE r # Seed /\ p # Seed
  BY <1>1, <1>2, <1>3 DEF Joining, Pairs
<1>4. CASE r = Seed \/ p = Seed
  BY <1>4 DEF Joining, Links
<1> QED
  BY <1>3, <1>4

\* As long as nothing has failed and no replay has thrown, servers that serve clients
\* relay to each other, in whatever order they started and whoever is in the middle
\* of an introduction: introduce asks everybody it hears of
\* (ReplicationService.java:112-158).
THEOREM MeshHolds == Spec => [](faults = 0 => Mesh)
BY MeshInit, MeshNext, MeshOfInv, PTL DEF Spec

-----------------------------------------------------------------------------
\* The inductive invariant behind the delivery of messages

\* The messages r has dispatched, which stay in its own log.
Own(r) == { m \in Range(log[r]) : m.orig = r }

\* The relay of the current message of o has yet to reach r.
Pending(o, r) ==
  \/ phase[o] \in { "dispatching", "stuck" }
  \/ phase[o] = "relaying" /\ r \in todo[o]

\* A server that is down, or that nobody has heard of, holds nothing.
Fresh ==
  \A r \in Replica :
    phase[r] = "down" \/ (r # Seed /\ live[r] = {})
      => log[r] = <<>> /\ disk[r] = <<>>

\* The log of an originator numbers its messages from 1 on, and the one it relays
\* is the last.
Numbers ==
  \A o \in Replica :
    /\ clock[o] = issued[o]
    /\ issued[o] # 0 => Serving(o)
    /\ \A n \in 1 .. issued[o] : \E m \in Own(o) : m.seq = n
    /\ \A m, n \in Own(o) : m.seq = n.seq => m = n
    /\ current[o] # None => current[o] \in Own(o) /\ current[o].seq = issued[o]

\* A message is in the log of its originator, and its timestamp is its number.
Known ==
  \A r \in Replica : \A m \in Range(log[r]) :
    /\ m \in Own(m.orig)
    /\ m.ts = m.seq
    /\ m.seq \in 1 .. issued[m.orig]

\* A log has the earlier messages of an originator with each of them.
Contiguous ==
  \A r \in Replica : \A m \in Range(log[r]) : \A n \in 1 .. m.seq - 1 :
    \E earlier \in Range(log[r]) : earlier.orig = m.orig /\ earlier.seq = n

\* The servers an originator knows have its messages, but for one it still relays.
Spread ==
  \A o \in Replica : \A r \in live[o] : \A m \in Own(o) :
    m \in Range(log[r]) \/ (m = current[o] /\ Pending(o, r))

\* The relay of an acknowledged message is over.
Settled == \A m \in acked : m \in Own(m.orig) /\ m # current[m.orig]

DeliveryInv ==
  /\ MeshInv
  /\ Undisturbed => Fresh /\ Numbers /\ Known /\ Contiguous /\ Spread /\ Settled

-----------------------------------------------------------------------------
\* What an introduction brings

\* The answer to an introduction brings everything the introduction point holds
\* and the caller lacks, although it is computed from one timestamp per originator.
LEMMA AnswerCompletes ==
  ASSUME TypeOK, Numbers, Known, Contiguous, NEW r \in Replica, NEW p \in Replica
  PROVE  /\ Answer(r, p) \in Seq(Entry)
         /\ Range(Answer(r, p)) \subseteq Range(log[p])
         /\ Range(log[p]) \subseteq Range(log[r]) \cup Range(Answer(r, p))
<1>1. /\ Answer(r, p) \in Seq(Entry)
      /\ Range(Answer(r, p)) \subseteq Range(log[p])
  BY AnswerType
<1> DEFINE cutoff == LatestTimestamps(log[r])
<1>2. Range(Answer(r, p)) = { log[p][i] : i \in NewerPositions(log[p], cutoff) }
  <2>1. log[p] \in Seq(Entry)
    BY DEF TypeOK
  <2> QED
    BY <2>1, EntryKind, BacklogIsSelection DEF Answer
<1>3. \A q \in Replica : \A m \in Range(log[q]) :
        m \in Entry /\ m.orig \in Replica /\ m.seq \in Nat /\ m.ts \in Nat
  <2>1. \A q \in Replica : log[q] \in Seq(Entry)
    BY DEF TypeOK
  <2>2. \A q \in Replica : \A m \in Range(log[q]) : m \in Entry
    BY <2>1 DEF Range
  <2> QED
    BY <2>2 DEF Entry
<1>4. ASSUME NEW m \in Range(log[p]), m \notin Range(Answer(r, p))
      PROVE  m \in Range(log[r])
  <2>1. PICK i \in DOMAIN log[p] : m = log[p][i]
    BY DEF Range
  <2>2. m.orig \in DOMAIN cutoff /\ ~ (cutoff[m.orig] < m.ts)
    BY <1>2, <1>4, <2>1 DEF NewerPositions
  <2>3. PICK x \in Range(log[r]) : x.orig = m.orig
    BY <2>2 DEF LatestTimestamps
  <2>4. PICK n \in Range(log[r]) : n.orig = m.orig /\ n.ts = cutoff[m.orig]
    <3>1. log[r] \in Seq(Entry) /\ \A e \in Entry : e.ts \in Nat
      BY DEF TypeOK, Entry
    <3> QED
      BY <2>3, <3>1, CutoffIsLatest
  <2>5. n.seq >= m.seq
    BY <1>3, <2>2, <2>4 DEF Known
  <2>6. PICK e \in Range(log[r]) : e.orig = m.orig /\ e.seq = m.seq
    <3>1. CASE n.seq = m.seq
      BY <2>4, <3>1
    <3>2. CASE n.seq # m.seq
      <4>1. m.seq \in 1 .. n.seq - 1
        BY <1>3, <2>4, <2>5, <3>2 DEF Known
      <4> QED
        BY <2>4, <4>1 DEF Contiguous
    <3> QED
      BY <3>1, <3>2
  <2>7. e \in Own(m.orig) /\ m \in Own(m.orig) /\ m.orig \in Replica
    BY <1>3, <2>6 DEF Known
  <2>8. e = m
    BY <2>6, <2>7 DEF Numbers
  <2> QED
    BY <2>6, <2>8
<1> QED
  BY <1>1, <1>4

-----------------------------------------------------------------------------
\* Delivery

\* The delivery part of the invariant.
Delivery == Fresh /\ Numbers /\ Known /\ Contiguous /\ Spread /\ Settled

LEMMA DeliveryInit == Init => DeliveryInv
<1> SUFFICES ASSUME Init PROVE Delivery
  BY MeshInit DEF DeliveryInv, Delivery
<1>1. \A r \in Replica : Range(log[r]) = {}
  BY DEF Init, Range
<1>2. Fresh /\ Settled /\ Spread
  BY DEF Init, Fresh, Settled, Spread
<1>3. Known /\ Contiguous
  BY <1>1 DEF Known, Contiguous
<1>4. Numbers
  BY <1>1 DEF Init, Numbers, Own
<1> QED
  BY <1>2, <1>3, <1>4 DEF Delivery

\* Steps that leave the logs, the counters and the links alone, and drop the
\* message a server relays only when every peer has it.
LEMMA DeliveryKept ==
  ASSUME TypeOK, Delivery,
         UNCHANGED << log, disk, live, issued, clock >>,
         \A o \in Replica :
           /\ current'[o] = current[o] \/ current'[o] = None
           /\ Serving(o) => Serving(o)'
           /\ phase'[o] = "down" =>
                phase[o] = "down" \/ (o # Seed /\ live[o] = {})
           /\ \A r \in live[o] :
                Pending(o, r) => Pending(o, r)' /\ current'[o] = current[o],
         \A m \in acked' : m \in acked \/ (m \in Own(m.orig) /\ m.orig \in Replica
                                            /\ current'[m.orig] = None)
  PROVE  Delivery'
<1>1. \A o \in Replica : Own(o)' = Own(o)
  BY DEF Own
<1>2. Fresh'
  BY DEF Delivery, Fresh
<1>3. Numbers'
  BY <1>1 DEF Delivery, Numbers
<1>4. Known'
  BY <1>1 DEF Delivery, Known, Own
<1>5. Contiguous'
  BY DEF Delivery, Contiguous
<1>6. Spread'
  <2> SUFFICES ASSUME NEW o \in Replica, NEW r \in live[o], NEW m \in Own(o)
               PROVE  m \in Range(log[r]) \/ (m = current'[o] /\ Pending(o, r)')
    BY <1>1 DEF Spread
  <2>1. m \in Range(log[r]) \/ (m = current[o] /\ Pending(o, r))
    BY DEF Delivery, Spread
  <2> QED
    BY <2>1
<1>7. Settled'
  <2> SUFFICES ASSUME NEW m \in acked'
               PROVE  m \in Own(m.orig)' /\ m # current'[m.orig]
    BY DEF Settled
  <2>1. \A q \in Replica : \A n \in Range(log[q]) : n \in Entry
    <3>1. \A q \in Replica : log[q] \in Seq(Entry)
      BY DEF TypeOK
    <3> QED
      BY <3>1 DEF Range
  <2>2. CASE m \in acked
    <3>1. m \in Entry /\ m.orig \in Replica /\ m \in Own(m.orig) /\ m # current[m.orig]
      BY <2>2 DEF TypeOK, Entry, Delivery, Settled
    <3> QED
      BY <1>1, <3>1, NoneIsNoEntry
  <2>3. CASE m \in Own(m.orig) /\ m.orig \in Replica /\ current'[m.orig] = None
    <3>1. m # None
      BY <2>1, <2>3, NoneIsNoEntry DEF Own
    <3> QED
      BY <1>1, <2>3, <3>1
  <2> QED
    BY <2>2, <2>3
<1> QED
  BY <1>2, <1>3, <1>4, <1>5, <1>6, <1>7 DEF Delivery

\* Messages are entries.
LEMMA LogOfEntries ==
  ASSUME TypeOK
  PROVE  \A q \in Replica : \A m \in Range(log[q]) :
           /\ m \in Entry /\ m # None
           /\ m.orig \in Replica /\ m.seq \in Nat /\ m.ts \in Nat
<1>1. \A q \in Replica : log[q] \in Seq(Entry)
  BY DEF TypeOK
<1>2. \A q \in Replica : \A m \in Range(log[q]) : m \in Entry
  BY <1>1 DEF Range
<1> QED
  BY <1>2, NoneIsNoEntry DEF Entry

\* Receiving messages adds them to the log of the receiver.
LEMMA ReceiveAdds ==
  ASSUME TypeOK, NEW r \in Replica, NEW es \in Seq(Entry), ReceiveMessages(r, es)
  PROVE  /\ Range(log'[r]) = Range(log[r]) \cup Range(es)
         /\ \A q \in Replica \ {r} : log'[q] = log[q] /\ disk'[q] = disk[q]
<1>1. log[r] \in Seq(Entry) /\ log \in [Replica -> Seq(Entry)]
      /\ disk \in [Replica -> Seq(Entry)]
  BY DEF TypeOK
<1>2. log'[r] = log[r] \o es
  BY <1>1 DEF ReceiveMessages, Keep
<1>3. \A q \in Replica \ {r} : log'[q] = log[q] /\ disk'[q] = disk[q]
  BY <1>1 DEF ReceiveMessages, Keep
<1> QED
  BY <1>1, <1>2, <1>3, RangeOfConcat

\* Dispatching numbers a message of its own.
LEMMA DeliveryDispatched ==
  ASSUME TypeOK, TypeOK', Calm, Joining, Delivery, NEW r \in Replica, Dispatch(r),
         "sameMs" \notin Faults
  PROVE  Delivery'
<1>1. PICK m \in NewMessages(r) :
        /\ Stamps(r, m)
        /\ ReceiveMessages(r, << m >>)
        /\ current' = [current EXCEPT ![r] = m]
  BY DEF Dispatch
<1>2. /\ m \in Entry /\ m.orig = r /\ m.seq = issued[r] + 1 /\ m.ts = m.seq
      /\ issued[r] \in Nat /\ m # None
  <2>1. /\ m \in Entry /\ m.orig = r /\ m.seq = issued[r] + 1
        /\ m.ts = clock[r] + 1
    BY NewMessageType
  <2>2. issued[r] \in Nat /\ clock[r] = issued[r]
    BY DEF TypeOK, Delivery, Numbers
  <2> QED
    BY <2>1, <2>2, NoneIsNoEntry
<1>3. /\ ReceiveMessages(r, << m >>)
      /\ current' = [current EXCEPT ![r] = m]
      /\ issued' = [issued EXCEPT ![r] = @ + 1]
      /\ clock' = [clock EXCEPT ![r] = issued[r] + 1]
      /\ phase[r] = "idle"
  BY <1>1, <1>2 DEF Stamps
<1>4. /\ Range(log'[r]) = Range(log[r]) \cup {m}
      /\ \A q \in Replica \ {r} : log'[q] = log[q] /\ disk'[q] = disk[q]
  BY <1>2, <1>3, RangeOfOne, ReceiveAdds
<1>5. /\ phase[r] = "idle" /\ phase'[r] = "dispatching"
      /\ \A q \in Replica \ {r} : phase'[q] = phase[q] /\ todo'[q] = todo[q]
      /\ UNCHANGED << live, acked >>
      /\ issued'[r] = issued[r] + 1 /\ clock'[r] = issued[r] + 1
      /\ current'[r] = m
      /\ \A q \in Replica \ {r} : /\ issued'[q] = issued[q] /\ clock'[q] = clock[q]
                                  /\ current'[q] = current[q]
  BY <1>3 DEF Dispatch, Enter, TypeOK
<1>6. /\ Own(r)' = Own(r) \cup {m}
      /\ \A q \in Replica \ {r} : Own(q)' = Own(q)
  BY <1>2, <1>4 DEF Own
<1>7. \A q \in Replica : \A n \in Range(log[q]) :
        n \in Entry /\ n # None /\ n.orig \in Replica /\ n.seq \in Nat
  BY LogOfEntries
<1>8. \A n \in Own(r) : n.seq \in 1 .. issued[r]
  BY DEF Delivery, Known, Own
<1>9. r = Seed \/ live[r] # {}
  BY <1>5 DEF Joining, Serving
<1>10. Fresh'
  BY <1>4, <1>5, <1>9 DEF Delivery, Fresh
<1>11. Numbers'
  <2>1. ASSUME NEW o \in Replica, o # r
        PROVE  /\ clock'[o] = issued'[o]
               /\ issued'[o] # 0 => Serving(o)'
               /\ \A n \in 1 .. issued'[o] : \E x \in Own(o)' : x.seq = n
               /\ \A x, y \in Own(o)' : x.seq = y.seq => x = y
               /\ current'[o] # None => current'[o] \in Own(o)' /\ current'[o].seq = issued'[o]
    BY <1>5, <1>6, <2>1 DEF Delivery, Numbers, Serving
  <2>2. clock'[r] = issued'[r] /\ Serving(r)'
    BY <1>5 DEF Serving
  <2>3. \A n \in 1 .. issued'[r] : \E x \in Own(r)' : x.seq = n
    <3> SUFFICES ASSUME NEW n \in 1 .. issued[r] + 1
                 PROVE  \E x \in Own(r) \cup {m} : x.seq = n
      BY <1>5, <1>6
    <3>1. n = issued[r] + 1 \/ n \in 1 .. issued[r]
      BY <1>2
    <3> QED
      BY <1>2, <3>1 DEF Delivery, Numbers
  <2>4. \A x, y \in Own(r)' : x.seq = y.seq => x = y
    <3>1. \A x \in Own(r) : x.seq # m.seq
      BY <1>2, <1>8
    <3> QED
      BY <1>6, <3>1 DEF Delivery, Numbers
  <2>5. current'[r] \in Own(r)' /\ current'[r].seq = issued'[r]
    BY <1>2, <1>5, <1>6
  <2> QED
    BY <2>1, <2>2, <2>3, <2>4, <2>5 DEF Numbers
<1>12. Known'
  <2> SUFFICES ASSUME NEW q \in Replica, NEW x \in Range(log'[q])
               PROVE  x \in Own(x.orig)' /\ x.ts = x.seq /\ x.seq \in 1 .. issued'[x.orig]
    BY DEF Known
  <2>1. CASE x = m
    BY <1>2, <1>5, <1>6, <2>1
  <2>2. CASE x # m
    <3>1. x \in Range(log[q])
      BY <1>4, <2>2
    <3>2. x \in Own(x.orig) /\ x.ts = x.seq /\ x.seq \in 1 .. issued[x.orig]
          /\ x.orig \in Replica /\ issued[x.orig] \in Nat
      BY <1>7, <3>1 DEF Delivery, Known, TypeOK
    <3>3. x \in Own(x.orig)'
      BY <1>6, <3>2
    <3>4. x.seq \in 1 .. issued'[x.orig]
      BY <1>5, <3>2
    <3> QED
      BY <3>2, <3>3, <3>4
  <2> QED
    BY <2>1, <2>2
<1>13. Contiguous'
  <2> SUFFICES ASSUME NEW q \in Replica, NEW x \in Range(log'[q]), NEW n \in 1 .. x.seq - 1
               PROVE  \E e \in Range(log'[q]) : e.orig = x.orig /\ e.seq = n
    BY DEF Contiguous
  <2>1. CASE x \in Range(log[q])
    <3>1. Range(log[q]) \subseteq Range(log'[q])
      BY <1>4
    <3> QED
      BY <2>1, <3>1 DEF Delivery, Contiguous
  <2>2. CASE x \notin Range(log[q])
    <3>1. q = r /\ x = m
      BY <1>4, <2>2
    <3>2. n \in 1 .. issued[r]
      BY <1>2, <3>1
    <3>3. \E e \in Own(r) : e.seq = n
      BY <3>2 DEF Delivery, Numbers
    <3> QED
      BY <1>2, <1>4, <3>1, <3>3 DEF Own
  <2> QED
    BY <2>1, <2>2
<1>14. Spread'
  <2> SUFFICES ASSUME NEW o \in Replica, NEW q \in live[o], NEW x \in Own(o)'
               PROVE  x \in Range(log'[q]) \/ (x = current'[o] /\ Pending(o, q)')
    BY <1>5 DEF Spread
  <2>1. q \in Replica /\ Range(log[q]) \subseteq Range(log'[q])
    BY <1>4 DEF TypeOK
  <2>2. CASE x \in Own(o)
    <3>1. x \in Range(log[q]) \/ (x = current[o] /\ Pending(o, q))
      BY <2>2 DEF Delivery, Spread
    <3>2. CASE o = r
      BY <1>5, <2>1, <3>1, <3>2 DEF Pending
    <3>3. CASE o # r
      BY <1>5, <2>1, <3>1, <3>3 DEF Pending
    <3> QED
      BY <3>2, <3>3
  <2>3. CASE x \notin Own(o)
    <3>1. o = r /\ x = m
      BY <1>6, <2>3
    <3> QED
      BY <1>5, <3>1 DEF Pending
  <2> QED
    BY <2>2, <2>3
<1>15. Settled'
  <2> SUFFICES ASSUME NEW x \in acked PROVE x \in Own(x.orig)' /\ x # current'[x.orig]
    BY <1>5 DEF Settled
  <2>1. x.orig \in Replica /\ x \in Own(x.orig) /\ x # current[x.orig]
    BY DEF TypeOK, Entry, Delivery, Settled
  <2>2. x \in Own(x.orig)'
    BY <1>6, <2>1
  <2>3. x # current'[x.orig]
    BY <1>2, <1>5, <1>8, <2>1
  <2> QED
    BY <2>2, <2>3
<1> QED
  BY <1>10, <1>11, <1>12, <1>13, <1>14, <1>15 DEF Delivery

\* A relay brings the current message of r to a server that has all earlier ones.
LEMMA DeliveryRelayed ==
  ASSUME TypeOK, TypeOK', Calm, Links, Delivery, NEW r \in Replica, Relayed(r)
  PROVE  Delivery'
<1>1. PICK p \in Callees(r) :
        /\ Accepts(p, current[r]) \/ phase[r] = "again"
        /\ HandleRelay(p, current[r])
        /\ Enter(r, "relaying", todo[r] \ {p}, None, <<>>)
        /\ waits[r] = None
  BY DEF Relayed
<1>2. /\ phase[r] = "relaying" /\ p \in Replica /\ p \in todo[r] /\ p \in live[r]
      /\ current[r] \in Entry /\ current[r] # None
  BY <1>1, CalleesType, NoneIsNoEntry DEF Calm, Callees, Links
<1> DEFINE m == current[r]
<1>3. m \in Own(r) /\ m.seq = issued[r] /\ m.orig = r /\ issued[r] \in Nat
  BY <1>2 DEF Delivery, Numbers, Own, TypeOK
<1>4. /\ Range(log'[p]) = Range(log[p]) \cup {m}
      /\ \A q \in Replica \ {p} : log'[q] = log[q] /\ disk'[q] = disk[q]
  <2>1. ReceiveMessages(p, << m >>)
    BY <1>1, <1>2 DEF HandleRelay
  <2> QED
    BY <1>2, <2>1, RangeOfOne, ReceiveAdds
<1>5. /\ phase'[r] = "relaying" /\ todo'[r] = todo[r] \ {p}
      /\ \A q \in Replica \ {r} : phase'[q] = phase[q] /\ todo'[q] = todo[q]
      /\ UNCHANGED << live, acked, current, issued, clock >>
  BY <1>1 DEF Relayed, Enter, TypeOK
<1> HIDE DEF m
<1>6. m # current[p] /\ p # r /\ phase[p] # "down"
  BY <1>2, <1>3 DEF Links, Calm, m
<1>7. \A o \in Replica : Own(o)' = Own(o)
  BY <1>3, <1>4, <1>6 DEF Own
<1>8. \A q \in Replica : /\ Range(log[q]) \subseteq Range(log'[q])
                         /\ phase'[q] = phase[q]
  BY <1>2, <1>4, <1>5
<1>9. Fresh'
  <2>1. live[p] # {}
    BY <1>2 DEF Links
  <2>2. ASSUME NEW q \in Replica, phase'[q] = "down" \/ (q # Seed /\ live'[q] = {})
        PROVE  log'[q] = <<>> /\ disk'[q] = <<>>
    BY <1>4, <1>5, <1>6, <1>8, <2>1, <2>2 DEF Delivery, Fresh
  <2> QED
    BY <2>2 DEF Fresh
<1>10. Numbers'
  BY <1>5, <1>7, <1>8 DEF Delivery, Numbers, Serving
<1>11. Known'
  <2> SUFFICES ASSUME NEW q \in Replica, NEW x \in Range(log'[q])
               PROVE  x \in Own(x.orig)' /\ x.ts = x.seq /\ x.seq \in 1 .. issued[x.orig]
    BY <1>5 DEF Known
  <2>1. \E y \in Replica : x \in Range(log[y])
    <3>1. CASE x = m
      BY <1>3, <3>1 DEF Own
    <3>2. CASE x # m
      BY <1>4, <3>2
    <3> QED
      BY <3>1, <3>2
  <2>2. x \in Own(x.orig) /\ x.ts = x.seq /\ x.seq \in 1 .. issued[x.orig]
        /\ x.orig \in Replica
    BY <2>1, LogOfEntries DEF Delivery, Known
  <2> QED
    BY <1>7, <2>2
<1>12. Contiguous'
  <2> SUFFICES ASSUME NEW q \in Replica, NEW x \in Range(log'[q]), NEW n \in 1 .. x.seq - 1
               PROVE  \E e \in Range(log'[q]) : e.orig = x.orig /\ e.seq = n
    BY DEF Contiguous
  <2>1. CASE x \in Range(log[q])
    <3>1. PICK e \in Range(log[q]) : e.orig = x.orig /\ e.seq = n
      BY <2>1 DEF Delivery, Contiguous
    <3> QED
      BY <1>8, <3>1
  <2>2. CASE x \notin Range(log[q])
    <3>1. q = p /\ x = m
      BY <1>4, <2>2
    <3>2. n \in 1 .. issued[r] /\ n # m.seq
      BY <1>3, <3>1
    <3>3. PICK e \in Own(r) : e.seq = n
      BY <3>2 DEF Delivery, Numbers
    <3>4. e \in Range(log[p])
      BY <1>2, <3>2, <3>3 DEF Delivery, Spread, m
    <3> QED
      BY <1>3, <1>8, <3>1, <3>3, <3>4 DEF Own
  <2> QED
    BY <2>1, <2>2
<1>13. Spread'
  <2> SUFFICES ASSUME NEW o \in Replica, NEW q \in live[o], NEW x \in Own(o)
               PROVE  x \in Range(log'[q]) \/ (x = current[o] /\ Pending(o, q)')
    BY <1>5, <1>7 DEF Spread
  <2>1. q \in Replica
    BY DEF TypeOK
  <2>2. x \in Range(log[q]) \/ (x = current[o] /\ Pending(o, q))
    BY DEF Delivery, Spread
  <2>3. CASE o # r
    BY <1>5, <1>8, <2>1, <2>2, <2>3 DEF Pending
  <2>4. CASE o = r /\ q # p
    BY <1>5, <1>8, <2>1, <2>2, <2>4 DEF Pending
  <2>5. CASE o = r /\ q = p
    BY <1>4, <2>2, <2>5 DEF m
  <2> QED
    BY <2>3, <2>4, <2>5
<1>14. Settled'
  <2> SUFFICES ASSUME NEW x \in acked PROVE x \in Own(x.orig)' /\ x # current[x.orig]
    BY <1>5 DEF Settled
  <2>1. x.orig \in Replica /\ x \in Own(x.orig) /\ x # current[x.orig]
    BY DEF TypeOK, Entry, Delivery, Settled
  <2> QED
    BY <1>7, <2>1
<1> QED
  BY <1>9, <1>10, <1>11, <1>12, <1>13, <1>14 DEF Delivery

\* An introduction brings everything its introduction point holds.
LEMMA DeliveryIntroduced ==
  ASSUME TypeOK, TypeOK', Calm, Links, Joining, Delivery, NEW r \in Replica, Introduced(r)
  PROVE  Delivery'
<1> DEFINE p == Head(queue[r])
           es == Answer(r, p)
<1>1. phase[r] = "introducing"
  BY DEF Introduced, Introducing, Calm
<1>2. /\ p \in Replica /\ phase[p] \in { "booted", "idle" }
      /\ live' = [live EXCEPT ![r] = @ \cup {p}, ![p] = @ \cup {r}]
      /\ UNCHANGED << current, issued, clock, acked >>
      /\ ReceiveMessages(r, es)
      /\ \A q \in Replica \ {r} : phase'[q] = phase[q] /\ todo'[q] = todo[q]
      /\ phase'[r] \in { "introducing", "idle" }
  BY <1>1, IntroductionStep
<1> HIDE DEF p
<1>3. /\ es \in Seq(Entry)
      /\ Range(es) \subseteq Range(log[p])
      /\ Range(log[p]) \subseteq Range(log[r]) \cup Range(es)
  BY <1>2, AnswerCompletes DEF Delivery
<1> HIDE DEF es
<1>4. /\ Range(log'[r]) = Range(log[r]) \cup Range(log[p])
      /\ \A q \in Replica \ {r} : log'[q] = log[q] /\ disk'[q] = disk[q]
  BY <1>2, <1>3, ReceiveAdds
<1>5. /\ r # Seed /\ r # p /\ issued[r] = 0 /\ current[r] = None /\ ~ Serving(r)
  <2>1. r # Seed /\ r # p
    BY <1>1, <1>2 DEF Joining
  <2>2. ~ Serving(r) /\ current[r] = None
    BY <1>1 DEF Serving, TypeOK, CallStack
  <2> QED
    BY <2>1, <2>2 DEF Delivery, Numbers
<1>6. \A q \in Replica : \A x \in Range(log[q]) :
        x \in Own(x.orig) /\ x.orig \in Replica /\ x.orig # r
  <2>1. \A q \in Replica : \A x \in Range(log[q]) :
          x \in Own(x.orig) /\ x.orig \in Replica /\ x.seq \in 1 .. issued[x.orig]
    BY LogOfEntries DEF Delivery, Known
  <2> QED
    BY <1>5, <2>1
<1>7. \A o \in Replica : Own(o)' = Own(o)
  BY <1>2, <1>4, <1>6 DEF Own
<1>8. \A q \in Replica : Range(log[q]) \subseteq Range(log'[q])
  BY <1>4
<1>9. Own(r) = {}
  BY <1>6 DEF Own
<1>10. /\ live'[r] = live[r] \cup {p} /\ live'[p] = live[p] \cup {r}
       /\ \A q \in Replica \ { r, p } : live'[q] = live[q]
  <2>1. live \in [Replica -> SUBSET Replica]
    BY DEF TypeOK
  <2> QED
    BY <1>2, <1>5, <2>1
<1>11. Fresh'
  <2> SUFFICES ASSUME NEW q \in Replica,
                      phase'[q] = "down" \/ (q # Seed /\ live'[q] = {})
               PROVE  log'[q] = <<>> /\ disk'[q] = <<>>
    BY DEF Fresh
  <2>1. q # r
    BY <1>2, <1>10
  <2>2. phase[q] = "down" \/ (q # Seed /\ live[q] = {})
    BY <1>2, <1>10, <2>1
  <2> QED
    BY <1>4, <2>1, <2>2 DEF Delivery, Fresh
<1>12. Numbers'
  BY <1>2, <1>5, <1>7 DEF Delivery, Numbers, Serving
<1>13. Known'
  <2> SUFFICES ASSUME NEW q \in Replica, NEW x \in Range(log'[q])
               PROVE  x \in Own(x.orig)' /\ x.ts = x.seq /\ x.seq \in 1 .. issued[x.orig]
    BY <1>2 DEF Known
  <2>1. \E y \in Replica : x \in Range(log[y])
    BY <1>2, <1>4
  <2> QED
    BY <1>6, <1>7, <2>1 DEF Delivery, Known
<1>14. Contiguous'
  <2> SUFFICES ASSUME NEW q \in Replica, NEW x \in Range(log'[q]), NEW n \in 1 .. x.seq - 1
               PROVE  \E e \in Range(log'[q]) : e.orig = x.orig /\ e.seq = n
    BY DEF Contiguous
  <2>1. CASE x \in Range(log[q])
    BY <1>8, <2>1 DEF Delivery, Contiguous
  <2>2. CASE x \notin Range(log[q])
    <3>1. q = r /\ x \in Range(log[p])
      BY <1>4, <2>2
    <3> QED
      BY <1>2, <1>4, <3>1 DEF Delivery, Contiguous
  <2> QED
    BY <2>1, <2>2
<1>15. Spread'
  <2> SUFFICES ASSUME NEW o \in Replica, NEW q \in live'[o], NEW x \in Own(o)
               PROVE  x \in Range(log'[q]) \/ (x = current[o] /\ Pending(o, q)')
    BY <1>2, <1>7 DEF Spread
  <2>1. o # r /\ x \in Range(log[o]) /\ q \in Replica
    BY <1>9 DEF Own, TypeOK
  <2>2. CASE q \in live[o]
    <3>1. x \in Range(log[q]) \/ (x = current[o] /\ Pending(o, q))
      BY <2>2 DEF Delivery, Spread
    <3> QED
      BY <1>2, <1>8, <2>1, <3>1 DEF Pending
  <2>3. CASE q \notin live[o]
    <3>1. o = p /\ q = r
      BY <1>10, <2>1, <2>3
    <3> QED
      BY <1>4, <2>1, <3>1
  <2> QED
    BY <2>2, <2>3
<1>16. Settled'
  <2> SUFFICES ASSUME NEW x \in acked PROVE x \in Own(x.orig)' /\ x # current[x.orig]
    BY <1>2 DEF Settled
  <2>1. x.orig \in Replica /\ x \in Own(x.orig) /\ x # current[x.orig]
    BY DEF TypeOK, Entry, Delivery, Settled
  <2> QED
    BY <1>7, <2>1
<1> QED
  BY <1>11, <1>12, <1>13, <1>14, <1>15, <1>16 DEF Delivery

\* Delivery is inductive as long as nothing has failed or was refused, given the mesh.
LEMMA DeliveryNext ==
  ASSUME DeliveryInv, [Next]_vars, "sameMs" \notin Faults
  PROVE  DeliveryInv'
<1>1. TypeOK /\ MeshInv /\ MeshInv' /\ TypeOK'
  BY MeshNext DEF DeliveryInv, MeshInv
<1>2. SUFFICES ASSUME Undisturbed' PROVE Delivery'
  BY <1>1 DEF DeliveryInv, Delivery
<1>3. CASE UNCHANGED vars
  BY <1>2, <1>3 DEF DeliveryInv, Delivery, Undisturbed, vars, local, Fresh, Numbers, Known,
    Contiguous, Spread, Settled, Own, Pending, Serving
<1>4. CASE Next
  <2>1. Undisturbed
    BY <1>1, <1>2, <1>4, DisturbanceStays
  <2>2. Calm /\ Links /\ Joining /\ Delivery
    BY <2>1 DEF DeliveryInv, MeshInv, Delivery
  <2>3. ASSUME NEW r \in Replica, Boot(r) PROVE Delivery'
    <3>1. /\ phase[r] = "down" /\ log[r] = <<>> /\ disk[r] = <<>>
          /\ phase' = [phase EXCEPT ![r] = "booted"]
          /\ log' = [log EXCEPT ![r] = <<>>]
          /\ UNCHANGED << disk, live, todo, current, issued, clock, acked >>
      BY <2>2, <2>3 DEF Boot, local, Delivery, Fresh
    <3>2. /\ log' = log
          /\ \A o \in Replica : phase'[o] = IF o = r THEN "booted" ELSE phase[o]
      BY <1>1, <3>1 DEF TypeOK
    <3> QED
      BY <1>1, <2>2, <3>1, <3>2, DeliveryKept DEF Serving, Pending
  <2>4. ASSUME NEW r \in Replica, StartIntroductions(r) PROVE Delivery'
    <3>1. /\ phase[r] = "booted"
          /\ UNCHANGED << log, disk, live, current, issued, clock, acked >>
          /\ phase'[r] \in { "idle", "introducing" }
          /\ \A o \in Replica \ {r} : phase'[o] = phase[o] /\ todo'[o] = todo[o]
      <4>1. CASE r = Seed
        BY <1>1, <2>4, <4>1 DEF StartIntroductions, Enter, TypeOK
      <4>2. CASE r # Seed
        BY <1>1, <2>4, <4>2 DEF StartIntroductions, Enter, TypeOK
      <4> QED
        BY <4>1, <4>2
    <3> QED
      BY <1>1, <2>2, <3>1, DeliveryKept DEF Serving, Pending
  <2>5. ASSUME NEW r \in Replica, GivesUp(r) PROVE Delivery'
    <3>1. /\ phase[r] = "introducing" /\ live[r] = {} /\ r # Seed
          /\ live' = [live EXCEPT ![r] = {}]
          /\ log' = [log EXCEPT ![r] = <<>>]
          /\ current' = [current EXCEPT ![r] = None]
          /\ UNCHANGED << disk, issued, clock, acked >>
          /\ Enter(r, "down", {}, None, <<>>)
      BY <2>2, <2>5 DEF GivesUp, Exit, Joining
    <3>2. log[r] = <<>> /\ current[r] = None
      BY <1>1, <2>2, <3>1 DEF Delivery, Fresh, TypeOK, CallStack
    <3>3. /\ log' = log /\ live' = live /\ current' = current
          /\ phase'[r] = "down"
          /\ \A o \in Replica \ {r} : phase'[o] = phase[o] /\ todo'[o] = todo[o]
      BY <1>1, <3>1, <3>2 DEF TypeOK, Enter
    <3> QED
      BY <1>1, <2>2, <3>1, <3>3, DeliveryKept DEF Serving, Pending
  <2>6. ASSUME NEW r \in Replica, EnterRelay(r) PROVE Delivery'
    <3>1. /\ phase[r] = "dispatching"
          /\ UNCHANGED << log, disk, live, current, issued, clock, acked >>
          /\ phase'[r] = "relaying" /\ todo'[r] = live[r]
          /\ \A o \in Replica \ {r} : phase'[o] = phase[o] /\ todo'[o] = todo[o]
      BY <1>1, <2>6 DEF EnterRelay, Enter, TypeOK
    <3> QED
      BY <1>1, <2>2, <3>1, DeliveryKept DEF Serving, Pending
  <2>7. ASSUME NEW r \in Replica, CallSticks(r) PROVE Delivery'
    <3>1. PICK call \in InFlight(r) :
            /\ phase[call.to] = "dispatching"
            /\ phase' = [phase EXCEPT ![call.to] = "stuck"]
      BY <2>7 DEF CallSticks, Sticks
    <3>2. /\ UNCHANGED << log, disk, live, todo, current, issued, clock, acked >>
          /\ \A o \in Replica : phase'[o] = IF o = call.to THEN "stuck" ELSE phase[o]
      BY <1>1, <2>7, <3>1 DEF CallSticks, TypeOK
    <3> QED
      BY <1>1, <2>2, <3>1, <3>2, DeliveryKept DEF Serving, Pending
  <2>8. ASSUME NEW r \in Replica, Finish(r) PROVE Delivery'
    <3>1. /\ phase[r] = "relaying" /\ Callees(r) = {}
          /\ phase' = [phase EXCEPT ![r] = "idle"]
          /\ current' = [current EXCEPT ![r] = None]
          /\ acked' = acked \cup { current[r] }
          /\ UNCHANGED << log, disk, live, todo, issued, clock >>
      BY <2>8 DEF Finish
    <3>2. todo[r] = {} /\ current[r] # None
      BY <1>1, <3>1 DEF Callees, TypeOK, CallStack
    <3>3. /\ current[r] \in Own(r) /\ current[r].orig = r
      BY <2>2, <3>2 DEF Delivery, Numbers, Own
    <3>4. /\ phase'[r] = "idle" /\ current'[r] = None
          /\ \A o \in Replica \ {r} : phase'[o] = phase[o] /\ current'[o] = current[o]
      BY <1>1, <3>1 DEF TypeOK
    <3>5. \A m \in acked' : m \in acked \/ (m \in Own(m.orig) /\ m.orig \in Replica
                                             /\ current'[m.orig] = None)
      BY <3>1, <3>3, <3>4
    <3> QED
      BY <1>1, <2>2, <3>1, <3>2, <3>4, <3>5, DeliveryKept DEF Serving, Pending
  <2> QED
    BY <1>1, <1>2, <1>4, <2>2, <2>3, <2>4, <2>5, <2>6, <2>7, <2>8, FaultlessStep,
       DeliveryDispatched, DeliveryRelayed, DeliveryIntroduced
<1> QED
  BY <1>3, <1>4

\* The inductive invariant of delivery.
LEMMA DeliveryHolds ==
  ASSUME "sameMs" \notin Faults
  PROVE  Spec => []DeliveryInv
<1>1. Init => DeliveryInv
  BY DeliveryInit
<1>2. DeliveryInv /\ [Next]_vars => DeliveryInv'
  BY DeliveryNext
<1> QED
  BY <1>1, <1>2, PTL DEF Spec

\* As long as nothing has failed, no replay has thrown and timestamps are distinct, no
\* server that holds a message of an originator lacks an earlier one of it: the
\* premise of asking for a backlog by the newest timestamp only
\* (LogReplay.java:79-113).
THEOREM NoGapsHolds ==
  ASSUME "sameMs" \notin Faults
  PROVE  Spec => [](refused = {} => NoGaps)
<1>1. DeliveryInv => (refused = {} => NoGaps)
  BY DEF DeliveryInv, Contiguous, NoGaps, Undisturbed
<1> QED
  BY <1>1, DeliveryHolds, PTL

\* As long as nothing has failed, no replay has thrown and timestamps are distinct,
\* every server that serves clients has the log message of every operation that has
\* returned (docs/SERVER_SPEC.md:61), also one that was introducing itself meanwhile.
THEOREM AckedUnlessFaultHolds ==
  ASSUME "sameMs" \notin Faults
  PROVE  Spec => []AckedUnlessFault
<1>1. DeliveryInv => AckedUnlessFault
  <2> SUFFICES ASSUME Undisturbed, TypeOK, Mesh, Delivery, NEW r \in Replica, Serving(r),
                      NEW m \in acked
               PROVE  m \in Range(log[r])
    BY MeshOfInv DEF DeliveryInv, MeshInv, Delivery, AckedUnlessFault,
       AckedEverywhere, Undisturbed
  <2>1. m.orig \in Replica /\ m \in Own(m.orig) /\ m # current[m.orig]
    BY DEF TypeOK, Entry, Delivery, Settled
  <2>2. Serving(m.orig)
    <3>1. m.seq \in 1 .. issued[m.orig] /\ issued[m.orig] \in Nat
      BY <2>1 DEF Own, Delivery, Known, TypeOK
    <3> QED
      BY <2>1, <3>1 DEF Delivery, Numbers
  <2>3. CASE r = m.orig
    BY <2>1, <2>3 DEF Own
  <2>4. CASE r # m.orig
    BY <2>1, <2>2, <2>4 DEF Mesh, Delivery, Spread, Undisturbed
  <2> QED
    BY <2>3, <2>4
<1> QED
  BY <1>1, DeliveryHolds, PTL

\* As long as nothing has failed, no replay has thrown and timestamps are distinct,
\* servers that serve clients hold the same messages whenever nothing is under way.
THEOREM ConvergedHolds ==
  ASSUME "sameMs" \notin Faults
  PROVE  Spec => []Converged
<1>1. DeliveryInv => Converged
  <2> SUFFICES ASSUME Undisturbed, TypeOK, Mesh, Delivery, Quiet,
                      NEW r \in Replica, Serving(r), NEW p \in Replica, Serving(p),
                      NEW m \in Range(log[r])
               PROVE  m \in Range(log[p])
    BY MeshOfInv DEF DeliveryInv, MeshInv, Delivery, Converged, Undisturbed
  <2>1. m.orig \in Replica /\ m \in Own(m.orig)
    BY LogOfEntries DEF Delivery, Known
  <2>2. Serving(m.orig)
    <3>1. m.seq \in 1 .. issued[m.orig] /\ issued[m.orig] \in Nat
      BY <2>1 DEF Delivery, Known, TypeOK
    <3> QED
      BY <2>1, <3>1 DEF Delivery, Numbers
  <2>3. CASE p = m.orig
    BY <2>1, <2>3 DEF Own
  <2>4. CASE p # m.orig
    <3>1. ~ Pending(m.orig, p)
      BY <2>1 DEF Quiet, Pending
    <3> QED
      BY <2>1, <2>2, <2>4, <3>1 DEF Mesh, Delivery, Spread, Undisturbed
  <2> QED
    BY <2>3, <2>4
<1> QED
  BY <1>1, DeliveryHolds, PTL

=============================================================================
