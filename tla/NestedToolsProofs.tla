-------------------------- MODULE NestedToolsProofs -------------------------
(***************************************************************************)
(* What holds of NestedTools for every tree of calls: its states are well  *)
(* typed, an admitted unsafe call is alone, and nothing runs below a call  *)
(* that has given its lease back.                                          *)
(***************************************************************************)
EXTENDS NestedTools, FiniteSetTheorems, FunctionTheorems, SequenceTheorems, TLAPS

-----------------------------------------------------------------------------
(* Queues.                                                                 *)

\* What pump admits was waiting.
LEMMA EnteringWaited ==
  ASSUME NEW w \in Seq(Call), NEW in \in SUBSET Call
  PROVE  /\ Entering(w, in) \subseteq Call
         /\ \A x \in Entering(w, in) : \E i \in DOMAIN w : w[i] = x
  BY DEF Entering

\* What stays behind is a queue.
LEMMA AfterIsQueue ==
  ASSUME NEW w \in Seq(Call), NEW in \in SUBSET Call
  PROVE  After(w, Entering(w, in)) \in Seq(Call)
<1>1. IsFiniteSet(Entering(w, in))
  <2>1. IsFiniteSet(Call)
    BY TreeAssumption
  <2>2. QED
    BY <2>1, EnteringWaited, FS_Subset
<1>2. Cardinality(Entering(w, in)) \in Nat
  BY <1>1, FS_CardinalityType
<1>3. QED
  BY <1>2, SubSeqProperties DEF After

\* A queue in which nobody waits twice.
NoRepeat(w) == \A i, j \in DOMAIN w : w[i] = w[j] => i = j

\* pump admits the head of a queue: what stays behind is what was not admitted.
LEMMA AfterIsRest ==
  ASSUME NEW w \in Seq(Call), NoRepeat(w), NEW in \in SUBSET Call
  PROVE  /\ \A i \in DOMAIN After(w, Entering(w, in)) :
              \E j \in DOMAIN w : /\ After(w, Entering(w, in))[i] = w[j]
                                  /\ w[j] \notin Entering(w, in)
         /\ NoRepeat(After(w, Entering(w, in)))
<1> DEFINE head == {i \in DOMAIN w : \/ in \subseteq Safe /\ \A j \in 1 .. i : w[j] \in Safe
                                     \/ in = {} /\ i = 1}
           entered == Entering(w, in)
           n == Cardinality(entered)
<1>1. DOMAIN w = 1 .. Len(w) /\ Len(w) \in Nat
  BY LenProperties
<1>2. head \subseteq 1 .. Len(w) /\ IsFiniteSet(head)
  <2>1. head \subseteq 1 .. Len(w)
    BY <1>1
  <2>2. IsFiniteSet(1 .. Len(w))
    BY <1>1, FS_Interval
  <2> HIDE DEF head
  <2>3. QED
    BY <2>1, <2>2, FS_Subset
<1>3. entered = {w[i] : i \in head}
  BY DEF Entering
<1>4. \A k \in head : 1 .. k \subseteq head
  BY <1>1
<1> HIDE DEF head, entered
<1>5. n = Cardinality(head) /\ n \in Nat
  <2> DEFINE f == [i \in head |-> w[i]]
  <2>1. f \in [head -> entered] /\ \A a, b \in head : f[a] = f[b] => a = b
    BY <1>1, <1>2, <1>3 DEF NoRepeat
  <2>2. \A t \in entered : \E i \in head : f[i] = t
    BY <1>3
  <2>3. f \in Bijection(head, entered)
    BY <2>1, <2>2, Fun_IsBij
  <2>4. ExistsBijection(head, entered)
    BY <2>3, Fun_ExistsBij
  <2>5. QED
    BY <1>2, <2>4, FS_Bijection, FS_CardinalityType
<1> HIDE DEF n
<1>6. head \subseteq 1 .. n
  <2>1. SUFFICES ASSUME NEW k \in head PROVE k \in 1 .. n
    OBVIOUS
  <2>2. k \in Nat /\ 1 <= k
    BY <1>1, <1>2
  <2>3. Cardinality(1 .. k) = k
    BY <2>2, FS_Interval
  <2>4. Cardinality(1 .. k) <= Cardinality(head)
    BY <1>2, <1>4, FS_Subset
  <2>5. QED
    BY <1>5, <2>2, <2>3, <2>4
<1>7. head = 1 .. n
  <2>1. IsFiniteSet(1 .. n) /\ Cardinality(1 .. n) = n
    BY <1>5, FS_Interval
  <2>2. QED
    BY <1>5, <1>6, <2>1, FS_Subset
<1>8. n <= Len(w)
  <2>1. CASE n = 0
    BY <1>1, <2>1
  <2>2. CASE n # 0
    <3>1. n \in 1 .. n
      BY <1>5, <2>2
    <3>2. n \in 1 .. Len(w)
      BY <1>2, <1>7, <3>1
    <3>3. QED
      BY <1>1, <3>2
  <2>3. QED
    BY <2>1, <2>2
<1> DEFINE rest == SubSeq(w, n + 1, Len(w))
<1>9. /\ Len(rest) = Len(w) - n
      /\ \A i \in 1 .. Len(w) - n : rest[i] = w[n + i]
      /\ DOMAIN rest = 1 .. Len(w) - n
  <2>1. \A i \in n + 1 .. Len(w) : w[i] \in Call
    BY <1>1, <1>5
  <2>2. /\ rest \in Seq(Call)
        /\ Len(rest) = IF n + 1 <= Len(w) THEN Len(w) - (n + 1) + 1 ELSE 0
        /\ \A i \in 1 .. Len(w) - (n + 1) + 1 : rest[i] = w[(n + 1) + i - 1]
    <3>1. n + 1 \in Int /\ Len(w) \in Int
      BY <1>1, <1>5
    <3> HIDE DEF rest
    <3>2. QED
      BY <2>1, <3>1, SubSeqProperties DEF rest
  <2> HIDE DEF rest
  <2>3. DOMAIN rest = 1 .. Len(rest)
    BY <2>2, LenProperties
  <2>4. Len(rest) = Len(w) - n
    BY <1>1, <1>5, <1>8, <2>2
  <2>5. \A i \in 1 .. Len(w) - n : rest[i] = w[n + i]
    <3>1. SUFFICES ASSUME NEW i \in 1 .. Len(w) - n PROVE rest[i] = w[n + i]
      OBVIOUS
    <3>2. i \in 1 .. Len(w) - (n + 1) + 1 /\ (n + 1) + i - 1 = n + i
      BY <1>1, <1>5
    <3>3. QED
      BY <2>2, <3>2
  <2>6. QED
    BY <2>3, <2>4, <2>5
<1>10. After(w, entered) = rest
  BY DEF After, n
<1> HIDE DEF rest
<1>11. \A i \in 1 .. Len(w) - n : n + i \in DOMAIN w /\ w[n + i] \notin entered
  <2>1. SUFFICES ASSUME NEW i \in 1 .. Len(w) - n, w[n + i] \in entered
                 PROVE  FALSE
    BY <1>1, <1>5, <1>8
  <2>2. n + i \in 1 .. Len(w) /\ n + i \notin 1 .. n
    BY <1>1, <1>5, <1>8
  <2>3. PICK k \in head : w[k] = w[n + i]
    BY <1>3, <2>1
  <2>4. QED
    BY <1>1, <1>2, <1>7, <2>2, <2>3 DEF NoRepeat
<1>12. NoRepeat(rest)
  <2>1. SUFFICES ASSUME NEW i \in 1 .. Len(w) - n, NEW j \in 1 .. Len(w) - n, w[n + i] = w[n + j]
                 PROVE  i = j
    BY <1>9 DEF NoRepeat
  <2>2. n + i = n + j
    BY <1>11, <2>1 DEF NoRepeat
  <2>3. QED
    BY <1>5, <1>1, <2>2
<1>13. QED
  BY <1>9, <1>10, <1>11, <1>12 DEF entered

LEMMA WithoutIsQueue ==
  ASSUME NEW w \in Seq(Call), NEW c
  PROVE  Without(w, c) \in Seq(Call)
<1>1. CASE c \in {w[i] : i \in DOMAIN w}
  <2> DEFINE at == CHOOSE i \in DOMAIN w : w[i] = c
  <2>1. at \in 1 .. Len(w)
    BY <1>1
  <2> HIDE DEF at
  <2>2. SubSeq(w, 1, at - 1) \in Seq(Call) /\ SubSeq(w, at + 1, Len(w)) \in Seq(Call)
    BY <2>1, SubSeqProperties
  <2>3. QED
    BY <1>1, <2>2 DEF Without, at
<1>2. CASE c \notin {w[i] : i \in DOMAIN w}
  BY <1>2 DEF Without
<1>3. QED
  BY <1>1, <1>2

LEMMA WithoutIsRest ==
  ASSUME NEW w \in Seq(Call), NoRepeat(w), NEW c
  PROVE  /\ NoRepeat(Without(w, c))
         /\ \A i \in DOMAIN Without(w, c) :
              Without(w, c)[i] # c /\ \E j \in DOMAIN w : Without(w, c)[i] = w[j]
<1>1. CASE c \in {w[i] : i \in DOMAIN w}
  <2> DEFINE at == CHOOSE i \in DOMAIN w : w[i] = c
             l == SubSeq(w, 1, at - 1)
             r == SubSeq(w, at + 1, Len(w))
  <2>1. at \in 1 .. Len(w) /\ w[at] = c /\ Len(w) \in Nat /\ DOMAIN w = 1 .. Len(w)
    BY <1>1, LenProperties
  <2>2. Without(w, c) = l \o r
    BY <1>1 DEF Without
  <2> HIDE DEF at
  <2>3. l \in Seq(Call) /\ Len(l) = at - 1 /\ \A i \in 1 .. at - 1 : l[i] = w[i]
    <3>1. at - 1 \in Int /\ \A i \in 1 .. at - 1 : w[i] \in Call
      BY <2>1
    <3>2. QED
      BY <2>1, <3>1, SubSeqProperties
  <2>4. r \in Seq(Call) /\ Len(r) = Len(w) - at /\ \A i \in 1 .. Len(w) - at : r[i] = w[at + i]
    <3>1. at + 1 \in Int /\ Len(w) \in Int /\ \A i \in at + 1 .. Len(w) : w[i] \in Call
      BY <2>1
    <3>2. /\ r \in Seq(Call)
          /\ Len(r) = IF at + 1 <= Len(w) THEN Len(w) - (at + 1) + 1 ELSE 0
          /\ \A i \in 1 .. Len(w) - (at + 1) + 1 : r[i] = w[(at + 1) + i - 1]
      BY <3>1, SubSeqProperties
    <3> HIDE DEF r
    <3>3. Len(r) = Len(w) - at
      <4>1. at \in Nat /\ at <= Len(w) /\ Len(w) \in Nat
        BY <2>1
      <4>2. Len(r) = IF at + 1 <= Len(w) THEN Len(w) - (at + 1) + 1 ELSE 0
        BY <3>2
      <4>3. (IF at + 1 <= Len(w) THEN Len(w) - (at + 1) + 1 ELSE 0) = Len(w) - at
        BY <4>1
      <4>4. QED
        BY <4>2, <4>3
    <3>4. ASSUME NEW i \in 1 .. Len(w) - at PROVE r[i] = w[at + i]
      <4>1. i \in 1 .. Len(w) - (at + 1) + 1 /\ (at + 1) + i - 1 = at + i
        BY <2>1
      <4>2. QED
        BY <3>2, <4>1
    <3>5. QED
      BY <3>2, <3>3, <3>4
  <2> HIDE DEF l, r
  <2> DEFINE k(i) == IF i < at THEN i ELSE i + 1
  <2>5. /\ DOMAIN (l \o r) = 1 .. Len(w) - 1
        /\ \A i \in 1 .. Len(w) - 1 : (l \o r)[i] = w[k(i)]
    <3>1. l \o r \in Seq(Call) /\ Len(l \o r) = Len(w) - 1
      <4>1. l \o r \in Seq(Call) /\ Len(l \o r) = Len(l) + Len(r)
        BY <2>3, <2>4, ConcatProperties
      <4>2. QED
        BY <2>1, <2>3, <2>4, <4>1
    <3>2. \A i \in 1 .. Len(w) - 1 : (l \o r)[i] = IF i <= at - 1 THEN l[i] ELSE r[i - (at - 1)]
      BY <2>1, <2>3, <2>4, ConcatProperties
    <3>3. SUFFICES ASSUME NEW i \in 1 .. Len(w) - 1 PROVE (l \o r)[i] = w[k(i)]
      BY <3>1, LenProperties
    <3>4. CASE i < at
      BY <2>1, <2>3, <3>2, <3>4
    <3>5. CASE ~(i < at)
      <4>1. i - (at - 1) \in 1 .. Len(w) - at /\ at + (i - (at - 1)) = i + 1
        BY <2>1, <3>5
      <4>2. ~(i <= at - 1)
        BY <2>1, <3>5
      <4>3. QED
        BY <2>4, <3>2, <3>5, <4>1, <4>2
    <3>6. QED
      BY <3>4, <3>5
  <2>6. \A i \in 1 .. Len(w) - 1 : k(i) \in 1 .. Len(w) /\ k(i) # at
    BY <2>1
  <2>7. \A i, j \in 1 .. Len(w) - 1 : k(i) = k(j) => i = j
    BY <2>1
  <2> HIDE DEF k
  <2> DEFINE v == l \o r
  <2>8. DOMAIN v = 1 .. Len(w) - 1 /\ \A i \in DOMAIN v : v[i] = w[k(i)]
    BY <2>5
  <2>9. \A i \in DOMAIN v : k(i) \in DOMAIN w /\ v[i] # c
    BY <2>1, <2>6, <2>8 DEF NoRepeat
  <2> HIDE DEF v
  <2>10. NoRepeat(v)
    <3>1. SUFFICES ASSUME NEW i \in DOMAIN v, NEW j \in DOMAIN v, v[i] = v[j] PROVE i = j
      BY DEF NoRepeat
    <3>2. k(i) = k(j)
      BY <2>8, <2>9, <3>1 DEF NoRepeat
    <3>3. QED
      BY <2>7, <2>8, <3>2
  <2>11. Without(w, c) = v
    BY <2>2 DEF v
  <2>12. QED
    BY <2>8, <2>9, <2>10, <2>11
<1>2. CASE c \notin {w[i] : i \in DOMAIN w}
  BY <1>2 DEF Without
<1>3. QED
  BY <1>1, <1>2

\* Any finite set of calls can be put in a row.
LEMMA TogetherIsQueue ==
  ASSUME NEW S \in SUBSET Call
  PROVE  Together(S) \in Seq(Call)
<1>1. IsFiniteSet(S)
  BY TreeAssumption, FS_Subset
<1>2. Cardinality(S) \in Nat /\ ExistsBijection(1 .. Cardinality(S), S)
  BY <1>1, FS_CardinalityType, FS_CountingElements
<1>3. PICK f \in [1 .. Cardinality(S) -> S] : \A x \in S : \E i \in 1 .. Cardinality(S) : f[i] = x
  BY <1>2 DEF ExistsBijection, Bijection, Surjection
<1>4. Together(S) \in [1 .. Cardinality(S) -> S]
  BY <1>3 DEF Together
<1>5. QED
  BY <1>2, <1>4

\* What the queue of leases does to the state, whatever was put into it.
LEMMA PumpEffect ==
  ASSUME NEW w \in Seq(Call), NEW in \in SUBSET Call,
         NEW ph \in [Call -> Phase], NEW ow \in [Call -> SUBSET Call],
         Pump(w, in, ph, ow)
  PROVE  /\ waiting' \in Seq(Call) /\ active' \in SUBSET Call
         /\ phase' \in [Call -> Phase] /\ owes' \in [Call -> SUBSET Call]
         /\ \A c \in Call : phase'[c] = ph[c] \/ (ph[c] = "asking" /\ phase'[c] = "running")
         /\ (\A u \in in \ Safe : in = {u}) => UnsafeRunsAlone'
<1> DEFINE entered == Entering(w, in)
<1>1. entered \subseteq Call
  BY EnteringWaited
<1>2. waiting' \in Seq(Call)
  BY AfterIsQueue DEF Pump
<1>3. /\ active' = in \cup entered
      /\ phase' = [c \in Call |-> IF c \in entered /\ ph[c] = "asking" THEN "running" ELSE ph[c]]
      /\ owes' = [c \in Call |-> ow[c] \ entered]
  BY DEF Pump
<1>4. phase' \in [Call -> Phase]
  BY <1>3 DEF Phase
<1>5. \A c \in Call : phase'[c] = ph[c] \/ (ph[c] = "asking" /\ phase'[c] = "running")
  BY <1>3
<1>6. ASSUME \A u \in in \ Safe : in = {u}
      PROVE  UnsafeRunsAlone'
  <2>1. SUFFICES ASSUME NEW u \in (in \cup entered) \ Safe
                 PROVE  in \cup entered = {u}
    BY <1>3 DEF UnsafeRunsAlone
  <2>2. CASE in \subseteq Safe
    <3>1. PICK i \in DOMAIN w : w[i] = u /\ in = {} /\ i = 1
      BY <2>1, <2>2 DEF Entering
    <3>2. \A x \in entered : x = w[1]
      <4>1. SUFFICES ASSUME NEW j \in DOMAIN w, \A k \in 1 .. j : w[k] \in Safe PROVE FALSE
        BY DEF Entering
      <4>2. 1 \in 1 .. j
        OBVIOUS
      <4>3. QED
        BY <2>1, <3>1, <4>1, <4>2
    <3>3. QED
      BY <2>1, <3>1, <3>2
  <2>3. CASE ~(in \subseteq Safe)
    <3>1. entered = {}
      BY <2>3 DEF Entering
    <3>2. QED
      BY <1>6, <2>1, <3>1
  <2>4. QED
    BY <2>2, <2>3
<1> HIDE DEF entered
<1>7. QED
  BY <1>1, <1>2, <1>3, <1>4, <1>5, <1>6

\* What a queue of siblings does to the state.
LEMMA PumpSiblingsEffect ==
  ASSUME NEW p \in Call, NEW w \in Seq(Call), NEW in \in SUBSET Call,
         NEW ph \in [Call -> Phase], siblings \in [Call -> Seq(Call)],
         PumpSiblings(p, w, in, ph)
  PROVE  /\ siblings' \in [Call -> Seq(Call)]
         /\ phase' \in [Call -> Phase]
         /\ siblings' = [siblings EXCEPT ![p] = After(w, Entering(w, in))]
         /\ \A c \in Call : phase'[c] = IF c \in Entering(w, in) THEN "admitted" ELSE ph[c]
BY AfterIsQueue DEF PumpSiblings, Phase

\* Nothing is above a call of the batch.
LEMMA RootsHaveNoneAbove ==
  ASSUME NEW c \in Call, Parent[c] = 0
  PROVE  Above[c] = {}
<1>1. SUFFICES ASSUME NEW a \in Above[c] PROVE FALSE
  OBVIOUS
<1>2. Parent[c] \in {} \cup {0} /\ \A x \in {} : Parent[x] \in {} \cup {0}
  OBVIOUS
<1>3. {} \in SUBSET Call
  OBVIOUS
<1>4. a \in {}
  BY <1>1, <1>2, <1>3 DEF Above
<1>5. QED
  BY <1>4

LEMMA AboveAreCalls ==
  ASSUME NEW c \in Call
  PROVE  Above[c] \subseteq Call
BY DEF Above

-----------------------------------------------------------------------------
(* Well-typed states, and an unsafe call that is alone.                    *)

\* A call that has suspended its callers and is not through with them.
OweingPhase == {"asking", "running", "closing", "returning"}

\* No lease is returned more often than it was suspended, and unless release
\* failed none stays suspended for nobody.
Paid == \A a \in Call : /\ Cardinality(Owing(a)) <= suspended[a]
                        /\ ~thrown => suspended[a] = Cardinality(Owing(a))

\* Only calls of a call wait among siblings.
SiblingsAreChildren == \A c \in Call : phase[c] = "sibling" => Parent[c] # 0

\* Only unsafe calls that suspended others have anything to return.
ReturningHaveSuspended == \A c \in Call : phase[c] = "returning" => Upgrades(c)

Safety == TypeOK /\ UnsafeRunsAlone /\ Paid /\ SiblingsAreChildren /\ ReturningHaveSuspended

LEMMA OwingIsFinite ==
  ASSUME NEW a
  PROVE  IsFiniteSet(Owing(a)) /\ Cardinality(Owing(a)) \in Nat
<1>1. Owing(a) \in SUBSET Call
  BY DEF Owing
<1>2. QED
  BY <1>1, TreeAssumption, FS_Subset, FS_CardinalityType

\* Only calls that own an admission suspend others, and those of a batch do not.
LEMMA UpgradesAreChildren ==
  ASSUME NEW c \in Call, Upgrades(c)
  PROVE  Parent[c] \in Call
BY RootsHaveNoneAbove, TreeAssumption DEF Upgrades

LEMMA InitSafe == Init => Safety
<1> USE DEF Safety
<1> SUFFICES ASSUME Init PROVE Safety
  OBVIOUS
<1>1. TypeOK
  BY EmptySeq DEF Init, TypeOK, Phase
<1>2. UnsafeRunsAlone
  BY DEF Init, UnsafeRunsAlone
<1>3. \A a \in Call : Owing(a) = {}
  BY DEF Init, Owing
<1>4. Cardinality({}) = 0
  BY FS_EmptySet
<1>5. Paid
  <2>1. SUFFICES ASSUME NEW a \in Call
                 PROVE  suspended[a] = 0 /\ Cardinality(Owing(a)) = 0
    BY DEF Paid
  <2>2. suspended[a] = 0
    BY DEF Init
  <2>3. Owing(a) = {}
    BY <1>3
  <2>4. QED
    BY <1>4, <2>2, <2>3
<1>6. SiblingsAreChildren
  BY DEF Init, SiblingsAreChildren
<1>7. ReturningHaveSuspended
  BY DEF Init, ReturningHaveSuspended
<1>8. QED
  BY <1>1, <1>2, <1>5, <1>6, <1>7

\* A call that returns its callers' leases has suspended each of them.
LEMMA ReturnsAreOwed ==
  ASSUME Safety, NEW c \in Call, phase[c] = "returning", NEW a \in Above[c]
  PROVE  a \in Call /\ suspended[a] >= 1
<1>1. a \in Call
  BY AboveAreCalls
<1>2. c \in Owing(a)
  BY DEF Safety, ReturningHaveSuspended, Owing
<1>3. Cardinality(Owing(a)) >= 1
  BY <1>2, OwingIsFinite, FS_EmptySet
<1>4. QED
  BY <1>1, <1>3, OwingIsFinite DEF Safety, Paid, TypeOK

LEMMA SafeStep ==
  ASSUME Safety, Next
  PROVE  TypeOK' /\ UnsafeRunsAlone'
<1> USE DEF Safety, TypeOK
<1>1. CASE Stop
  BY <1>1 DEF Stop, UnsafeRunsAlone
<1>2. ASSUME NEW c \in Call, StartRoot(c) PROVE TypeOK' /\ UnsafeRunsAlone'
  <2>1. /\ Append(waiting, c) \in Seq(Call)
        /\ [phase EXCEPT ![c] = "asking"] \in [Call -> Phase]
    BY AppendProperties DEF Phase
  <2>2. QED
    <3>1. Pump(Append(waiting, c), active, [phase EXCEPT ![c] = "asking"], owes)
      BY <1>2 DEF StartRoot
    <3>2. \A u \in active \ Safe : active = {u}
      BY DEF UnsafeRunsAlone
    <3>3. siblings' = siblings /\ suspended' = suspended /\ stopped' = stopped /\ thrown' = thrown
      BY <1>2 DEF StartRoot
    <3>4. QED
      BY <2>1, <3>1, <3>2, <3>3, PumpEffect
<1>3. ASSUME NEW c \in Call, SkipRoot(c) PROVE TypeOK' /\ UnsafeRunsAlone'
  BY <1>3 DEF SkipRoot, Phase, UnsafeRunsAlone
<1>4. ASSUME NEW c \in Call, StartChild(c) PROVE TypeOK' /\ UnsafeRunsAlone'
  <2>1. Parent[c] \in Call
    BY <1>4, TreeAssumption DEF StartChild, Roots
  <2>2. /\ Append(siblings[Parent[c]], c) \in Seq(Call)
        /\ InProgress(Parent[c]) \in SUBSET Call
        /\ [phase EXCEPT ![c] = "sibling"] \in [Call -> Phase]
    BY <2>1, AppendProperties DEF Phase, InProgress, Children
  <2>3. QED
    BY <1>4, <2>1, <2>2, PumpSiblingsEffect DEF StartChild, UnsafeRunsAlone
<1>5. ASSUME NEW c \in Call, CancelSibling(c) PROVE TypeOK' /\ UnsafeRunsAlone'
  <2>1. Parent[c] \in Call
    BY <1>5, TreeAssumption DEF CancelSibling, SiblingsAreChildren
  <2>2. /\ Without(siblings[Parent[c]], c) \in Seq(Call)
        /\ InProgress(Parent[c]) \in SUBSET Call
        /\ [phase EXCEPT ![c] = "over"] \in [Call -> Phase]
    BY <2>1, WithoutIsQueue DEF Phase, InProgress, Children
  <2>3. QED
    BY <1>5, <2>1, <2>2, PumpSiblingsEffect DEF CancelSibling, UnsafeRunsAlone
<1>6. ASSUME NEW c \in Call, CancelAsking(c) PROVE TypeOK' /\ UnsafeRunsAlone'
  <2>1. [phase EXCEPT ![c] = IF Upgrades(c) THEN "returning" ELSE "leaving"] \in [Call -> Phase]
    BY DEF Phase
  <2>2. Pump(Without(waiting, c), active,
             [phase EXCEPT ![c] = IF Upgrades(c) THEN "returning" ELSE "leaving"], owes)
    BY <1>6 DEF CancelAsking
  <2>3. /\ Without(waiting, c) \in Seq(Call) /\ \A u \in active \ Safe : active = {u}
        /\ UNCHANGED <<siblings, suspended, stopped, thrown>>
    BY <1>6, WithoutIsQueue DEF CancelAsking, UnsafeRunsAlone
  <2>4. QED
    BY <2>1, <2>2, <2>3, PumpEffect
<1>7. ASSUME NEW c \in Call, EnterInherited(c) PROVE TypeOK' /\ UnsafeRunsAlone'
  BY <1>7 DEF EnterInherited, Phase, UnsafeRunsAlone
<1>8. ASSUME NEW c \in Call, EnterSafe(c) PROVE TypeOK' /\ UnsafeRunsAlone'
  <2>1. CASE stopped
    BY <1>8, <2>1 DEF EnterSafe, Phase, UnsafeRunsAlone
  <2>2. CASE ~stopped
    <3>1. /\ Append(waiting, c) \in Seq(Call)
          /\ [phase EXCEPT ![c] = "asking"] \in [Call -> Phase]
      BY AppendProperties DEF Phase
    <3>2. QED
      <4>1. Pump(Append(waiting, c), active, [phase EXCEPT ![c] = "asking"], owes)
        BY <1>8, <2>2 DEF EnterSafe
      <4>2. \A u \in active \ Safe : active = {u}
        BY DEF UnsafeRunsAlone
      <4>3. siblings' = siblings /\ suspended' = suspended /\ stopped' = stopped /\ thrown' = thrown
        BY <1>8 DEF EnterSafe
      <4>4. QED
        BY <3>1, <4>1, <4>2, <4>3, PumpEffect
  <2>3. QED
    BY <2>1, <2>2
<1>9. ASSUME NEW c \in Call, EnterUnsafe(c) PROVE TypeOK' /\ UnsafeRunsAlone'
  <2> DEFINE left == active \ (Reached(c) \cap ToRelease(c))
  <2>1. suspended' \in [Call -> Nat] /\ thrown' \in BOOLEAN /\ siblings' = siblings /\ stopped' = stopped
    BY <1>9 DEF EnterUnsafe
  <2>2. left \in SUBSET Call /\ \A u \in left \ Safe : left = {u}
    BY DEF UnsafeRunsAlone
  <2>3. \A ph \in Phase : [phase EXCEPT ![c] = ph] \in [Call -> Phase]
    OBVIOUS
  <2>4. Append(waiting, c) \in Seq(Call)
    BY AppendProperties
  <2>5. \E w \in Seq(Call), ph \in {"asking", "returning", "leaving"} :
          Pump(w, left, [phase EXCEPT ![c] = ph], owes)
    BY <1>9, <2>4 DEF EnterUnsafe
  <2> HIDE DEF left
  <2>6. PICK w \in Seq(Call), ph \in Phase : Pump(w, left, [phase EXCEPT ![c] = ph], owes)
    BY <2>5 DEF Phase
  <2>7. QED
    BY <2>1, <2>2, <2>3, <2>6, PumpEffect
<1>10. ASSUME NEW c \in Call, Return(c) PROVE TypeOK' /\ UnsafeRunsAlone'
  BY <1>10 DEF Return, Phase, UnsafeRunsAlone
<1>11. ASSUME NEW c \in Call, Close(c) PROVE TypeOK' /\ UnsafeRunsAlone'
  <2> DEFINE ph == [phase EXCEPT ![c] = IF Upgrades(c) THEN "returning" ELSE "leaving"]
             left == active \ {c}
  <2>1. ph \in [Call -> Phase]
    BY DEF Phase
  <2>2. left \in SUBSET Call /\ \A u \in left \ Safe : left = {u}
    BY DEF UnsafeRunsAlone
  <2>3. /\ Pump(waiting, left, ph, owes)
        /\ siblings' = siblings /\ suspended' = suspended /\ stopped' = stopped /\ thrown' = thrown
    BY <1>11 DEF Close
  <2> HIDE DEF ph, left
  <2>4. QED
    BY <2>1, <2>2, <2>3, PumpEffect
<1>12. ASSUME NEW c \in Call, Resume(c) PROVE TypeOK' /\ UnsafeRunsAlone'
  <2> DEFINE back == {a \in Above[c] : suspended[a] = 1}
  <2>1. \A a \in Above[c] : a \in Call /\ suspended[a] >= 1
    BY <1>12, ReturnsAreOwed DEF Resume
  <2>2. suspended' \in [Call -> Nat]
    BY <1>12, <2>1 DEF Resume
  <2>3. waiting \o Together(back) \in Seq(Call)
    BY <2>1, TogetherIsQueue, ConcatProperties
  <2>4. [owes EXCEPT ![c] = Above[c]] \in [Call -> SUBSET Call]
    BY <2>1
  <2>5. Pump(waiting \o Together(back), active, [phase EXCEPT ![c] = "resuming"], [owes EXCEPT ![c] = Above[c]])
    BY <1>12 DEF Resume
  <2>6. [phase EXCEPT ![c] = "resuming"] \in [Call -> Phase]
    BY DEF Phase
  <2>7. \A u \in active \ Safe : active = {u}
    BY DEF UnsafeRunsAlone
  <2>8. siblings' = siblings /\ stopped' = stopped /\ thrown' = thrown
    BY <1>12 DEF Resume
  <2> DEFINE w == waiting \o Together(back)
             ph == [phase EXCEPT ![c] = "resuming"]
             ow == [owes EXCEPT ![c] = Above[c]]
  <2>9. /\ w \in Seq(Call) /\ active \in SUBSET Call
        /\ ph \in [Call -> Phase] /\ ow \in [Call -> SUBSET Call]
        /\ Pump(w, active, ph, ow)
    BY <2>3, <2>4, <2>5, <2>6
  <2> HIDE DEF back, w, ph, ow
  <2>10. /\ waiting' \in Seq(Call) /\ active' \in SUBSET Call
         /\ phase' \in [Call -> Phase] /\ owes' \in [Call -> SUBSET Call]
         /\ UnsafeRunsAlone'
    BY <2>7, <2>9, PumpEffect
  <2>11. QED
    BY <2>2, <2>8, <2>10
<1>13. ASSUME NEW c \in Call, Leave(c) PROVE TypeOK' /\ UnsafeRunsAlone'
  <2>1. [phase EXCEPT ![c] = "over"] \in [Call -> Phase]
    BY DEF Phase
  <2>2. CASE c \in Roots
    BY <1>13, <2>1, <2>2 DEF Leave, UnsafeRunsAlone
  <2>3. CASE c \notin Roots
    <3>1. Parent[c] \in Call
      BY <2>3, TreeAssumption DEF Roots
    <3>2. siblings[Parent[c]] \in Seq(Call) /\ InProgress(Parent[c]) \ {c} \in SUBSET Call
      BY <3>1 DEF InProgress, Children
    <3>3. QED
      BY <1>13, <2>1, <2>3, <3>1, <3>2, PumpSiblingsEffect DEF Leave, UnsafeRunsAlone
  <2>4. QED
    BY <2>2, <2>3
<1>14. QED
  BY <1>1, <1>2, <1>3, <1>4, <1>5, <1>6, <1>7, <1>8, <1>9, <1>10, <1>11, <1>12, <1>13 DEF Next

-----------------------------------------------------------------------------
(* The order in which a tree of calls begins and ends.                     *)

Working == {"running", "closing"}
Late == {"returning", "resuming", "leaving", "over"}

\* Who waits among the children of p is a child of p, and waits once.
QueuesHoldSiblings ==
  \A p \in Call :
    /\ NoRepeat(siblings[p])
    /\ \A i \in DOMAIN siblings[p] :
         phase[siblings[p][i]] = "sibling" /\ Parent[siblings[p][i]] = p

\* A call that was invoked has a caller that works, or has ended before it.
CallersWork ==
  \A d \in Call : phase[d] # "new" /\ Parent[d] # 0 =>
    \/ phase[Parent[d]] \in Working
    \/ phase[Parent[d]] \in Late /\ phase[d] = "over"

Order == QueuesHoldSiblings /\ CallersWork

\* The moves of a single call that keep callers at work.
LEMMA CallersKept ==
  ASSUME TypeOK, CallersWork, phase' \in [Call -> Phase],
         \A x \in Call : phase[x] # "new" => phase'[x] # "new",
         \A x \in Call : phase[x] = "new" /\ phase'[x] # "new" /\ Parent[x] # 0 =>
           phase[Parent[x]] = "running" /\ phase'[Parent[x]] = "running",
         \A x \in Call : phase[x] \in Working =>
           \/ phase'[x] \in Working
           \/ /\ phase'[x] \in Late
              /\ \A d \in Children(x) : phase[d] \in {"new", "over"},
         \A x \in Call : phase[x] \in Late => phase'[x] \in Late,
         \A x \in Call : phase[x] = "over" => phase'[x] = "over"
  PROVE  CallersWork'
<1>1. SUFFICES ASSUME NEW d \in Call, phase'[d] # "new", Parent[d] # 0
               PROVE  \/ phase'[Parent[d]] \in Working
                      \/ phase'[Parent[d]] \in Late /\ phase'[d] = "over"
  BY DEF CallersWork
<1>2. Parent[d] \in Call /\ d \in Children(Parent[d])
  BY <1>1, TreeAssumption DEF Children
<1>3. CASE phase[d] = "new"
  BY <1>1, <1>2, <1>3 DEF Working
<1>4. CASE phase[d] # "new"
  <2>1. CASE phase[Parent[d]] \in Working
    BY <1>2, <1>4, <2>1
  <2>2. CASE phase[Parent[d]] \in Late /\ phase[d] = "over"
    BY <1>2, <2>2
  <2>3. QED
    BY <1>1, <1>4, <2>1, <2>2 DEF CallersWork
<1>5. QED
  BY <1>3, <1>4

\* The calls that c invoked have ended.
ChildrenEnded(c) == \A d \in Children(c) : phase[d] \in {"new", "over"}

\* A step moves call c to phase q, before any queue is looked at.
Moves(c, q, ph) == ph = [phase EXCEPT ![c] = q]

\* The calls in w wait among the children of p.
WaitUnder(p, w, ph) == \A i \in DOMAIN w : ph[w[i]] = "sibling" /\ Parent[w[i]] = p

\* What the queues have made of ph after the step.
Settles(ph) ==
  \A x \in Call :
    \/ phase'[x] = ph[x]
    \/ ph[x] = "asking" /\ phase'[x] = "running"
    \/ ph[x] = "sibling" /\ phase'[x] = "admitted"

\* A step that moves call c to phase q and perhaps admits leases.
LEMMA LeaseMove ==
  ASSUME TypeOK, Order, siblings' = siblings, phase' \in [Call -> Phase],
         NEW c \in Call, NEW q \in Phase,
         \A x \in Call :
           \/ phase'[x] = [phase EXCEPT ![c] = q][x]
           \/ [phase EXCEPT ![c] = q][x] = "asking" /\ phase'[x] = "running",
         phase[c] \notin {"sibling", "over"}, q \notin {"new", "sibling"},
         phase[c] = "new" => Parent[c] = 0,
         phase[c] \in Working => \/ q \in Working
                                 \/ q \in Late /\ ChildrenEnded(c),
         phase[c] \in Late => q \in Late
  PROVE  Order'
<1> USE DEF TypeOK, Order
<1>1. \A x \in Call : x # c => phase'[x] = phase[x] \/ (phase[x] = "asking" /\ phase'[x] = "running")
  OBVIOUS
<1>2. phase'[c] = q \/ (q = "asking" /\ phase'[c] = "running")
  OBVIOUS
<1>3. QueuesHoldSiblings'
  <2>1. \A x \in Call : phase[x] = "sibling" => phase'[x] = "sibling"
    BY <1>1
  <2>2. \A p \in Call : \A i \in DOMAIN siblings[p] : siblings[p][i] \in Call
    BY ElementOfSeq, LenProperties
  <2>3. QED
    BY <2>1, <2>2 DEF QueuesHoldSiblings
<1>4. CallersWork'
  BY <1>1, <1>2, CallersKept DEF Working, Late, ChildrenEnded
<1>5. QED
  BY <1>3, <1>4

\* A step that moves call c to phase q and lets children of p begin.
LEMMA SiblingMove ==
  ASSUME TypeOK, Order, NEW p \in Call, NEW c \in Call, NEW q \in Phase, Parent[c] = p,
         NEW ph, Moves(c, q, ph),
         NEW w \in Seq(Call), NoRepeat(w), NEW in \in SUBSET Call,
         PumpSiblings(p, w, in, ph),
         WaitUnder(p, w, ph),
         phase[c] # "over", q # "new",
         phase[c] = "new" => phase[p] = "running",
         phase[c] \notin Working,
         phase[c] \in Late => q \in Late
  PROVE  Order' /\ Settles(ph)
<1> DEFINE entered == Entering(w, in)
<1> USE DEF TypeOK, Order, Moves, WaitUnder
<1>1. ph \in [Call -> Phase] /\ c # p
  BY TreeAssumption
<1>2. /\ siblings' = [siblings EXCEPT ![p] = After(w, entered)]
      /\ phase' \in [Call -> Phase]
      /\ \A x \in Call : phase'[x] = IF x \in entered THEN "admitted" ELSE ph[x]
  <2>1. /\ siblings' = [siblings EXCEPT ![p] = After(w, entered)]
        /\ phase' = [x \in Call |-> IF x \in entered THEN "admitted" ELSE ph[x]]
    BY DEF PumpSiblings
  <2> HIDE DEF entered
  <2>2. QED
    BY <1>1, <2>1 DEF Phase
<1>3. \A x \in entered : ph[x] = "sibling" /\ Parent[x] = p
  <2>1. \A i \in DOMAIN w : ph[w[i]] = "sibling" /\ Parent[w[i]] = p
    OBVIOUS
  <2>2. \A x \in entered : \E i \in DOMAIN w : w[i] = x
    BY EnteringWaited
  <2> HIDE DEF entered
  <2>3. QED
    BY <2>1, <2>2
<1>4. \A x \in Call : phase'[x] = ph[x] \/ (ph[x] = "sibling" /\ phase'[x] = "admitted")
  BY <1>2, <1>3
<1>5. QueuesHoldSiblings'
  <2>1. SUFFICES ASSUME NEW r \in Call
                 PROVE  /\ NoRepeat(siblings'[r])
                        /\ \A i \in DOMAIN siblings'[r] :
                             phase'[siblings'[r][i]] = "sibling" /\ Parent[siblings'[r][i]] = r
    BY DEF QueuesHoldSiblings, NoRepeat
  <2>2. CASE r = p
    <3>1. siblings'[r] = After(w, entered)
      BY <1>2, <2>2
    <3>2. \A i \in DOMAIN siblings'[r] : \E j \in DOMAIN w : siblings'[r][i] = w[j] /\ w[j] \notin entered
      <4>1. \A i \in DOMAIN After(w, entered) :
              \E j \in DOMAIN w : After(w, entered)[i] = w[j] /\ w[j] \notin entered
        BY AfterIsRest
      <4> HIDE DEF entered
      <4>2. QED
        BY <3>1, <4>1
    <3>3. \A j \in DOMAIN w : w[j] \in Call
      BY ElementOfSeq, LenProperties
    <3>4. \A i \in DOMAIN siblings'[r] :
            phase'[siblings'[r][i]] = "sibling" /\ Parent[siblings'[r][i]] = r
      <4>1. SUFFICES ASSUME NEW i \in DOMAIN siblings'[r]
                     PROVE  phase'[siblings'[r][i]] = "sibling" /\ Parent[siblings'[r][i]] = r
        OBVIOUS
      <4>2. PICK j \in DOMAIN w : siblings'[r][i] = w[j] /\ w[j] \notin entered
        BY <3>2
      <4>3. ph[w[j]] = "sibling" /\ Parent[w[j]] = p
        OBVIOUS
      <4>4. phase'[w[j]] = ph[w[j]]
        BY <1>2, <3>3, <4>2
      <4> HIDE DEF entered
      <4>5. QED
        BY <2>2, <4>2, <4>3, <4>4
    <3>5. NoRepeat(siblings'[r])
      BY <3>1, AfterIsRest
    <3>6. QED
      BY <3>4, <3>5
  <2>3. CASE r # p
    <3>1. siblings'[r] = siblings[r]
      BY <1>2, <2>3
    <3>2. \A i \in DOMAIN siblings[r] : siblings[r][i] \in Call
      BY ElementOfSeq, LenProperties
    <3>3. \A i \in DOMAIN siblings[r] : phase[siblings[r][i]] = "sibling" /\ Parent[siblings[r][i]] = r
      BY DEF QueuesHoldSiblings
    <3>4. \A i \in DOMAIN siblings[r] : siblings[r][i] # c /\ siblings[r][i] \notin entered
      BY <1>3, <2>3, <3>3
    <3>5. NoRepeat(siblings[r])
      BY DEF QueuesHoldSiblings
    <3> HIDE DEF entered
    <3>6. \A i \in DOMAIN siblings[r] : phase'[siblings[r][i]] = "sibling"
      BY <1>2, <3>2, <3>3, <3>4
    <3>7. QED
      BY <3>1, <3>3, <3>5, <3>6
  <2>4. QED
    BY <2>2, <2>3
<1>6. CallersWork'
  <2>1. \A x \in Call : x # c => phase'[x] = phase[x] \/ (phase[x] = "sibling" /\ phase'[x] = "admitted")
    BY <1>4
  <2>2. phase'[c] = q \/ (q = "sibling" /\ phase'[c] = "admitted")
    BY <1>4
  <2> HIDE DEF entered
  <2>3. "sibling" \notin Working \cup Late /\ "sibling" # "over" /\ "sibling" # "running"
    BY DEF Working, Late
  <2>4. phase' \in [Call -> Phase] /\ \A x \in Call : phase[x] # "new" => phase'[x] # "new"
    BY <1>2, <2>1, <2>2
  <2>5. ASSUME NEW x \in Call, phase[x] = "new", phase'[x] # "new", Parent[x] # 0
        PROVE  phase[Parent[x]] = "running" /\ phase'[Parent[x]] = "running"
    <3>1. x = c /\ Parent[x] = p /\ phase[p] = "running"
      BY <2>1, <2>5
    <3>2. QED
      BY <1>1, <2>1, <2>3, <3>1
  <2>6. ASSUME NEW x \in Call, phase[x] \in Working PROVE phase'[x] \in Working
    BY <2>1, <2>3, <2>6
  <2>7. ASSUME NEW x \in Call
        PROVE  /\ phase[x] \in Late => phase'[x] \in Late
               /\ phase[x] = "over" => phase'[x] = "over"
    BY <2>1, <2>2, <2>3
  <2>8. QED
    BY <2>4, <2>5, <2>6, <2>7, CallersKept
<1>7. Settles(ph)
  BY <1>4 DEF Settles
<1>8. QED
  BY <1>5, <1>6, <1>7

LEMMA WhoWaits ==
  ASSUME TypeOK, Order, NEW p \in Call
  PROVE  /\ siblings[p] \in Seq(Call) /\ NoRepeat(siblings[p])
         /\ \A i \in DOMAIN siblings[p] :
              /\ siblings[p][i] \in Call /\ Parent[siblings[p][i]] = p
              /\ phase[siblings[p][i]] = "sibling"
<1>1. siblings[p] \in Seq(Call)
  BY DEF TypeOK
<1>2. \A i \in DOMAIN siblings[p] : siblings[p][i] \in Call
  BY <1>1, ElementOfSeq, LenProperties
<1>3. QED
  BY <1>1, <1>2 DEF Order, QueuesHoldSiblings

LEMMA StartChildMoves ==
  ASSUME TypeOK, TypeOK', SiblingsAreChildren, Order, NEW c \in Call, StartChild(c)
  PROVE  Order' /\ \E ph : Moves(c, "sibling", ph) /\ Settles(ph)
<1>0. phase \in [Call -> Phase] /\ phase' \in [Call -> Phase] /\ siblings \in [Call -> Seq(Call)]
  BY DEF TypeOK
<1> DEFINE p == Parent[c]
           old == siblings[p]
           w == Append(old, c)
           n == Len(old)
           in == InProgress(p)
           ph == [phase EXCEPT ![c] = "sibling"]
<1>1. /\ p \in Call /\ phase[c] = "new" /\ phase[p] = "running" /\ c # p /\ Parent[c] = p
      /\ PumpSiblings(p, w, in, ph)
  BY TreeAssumption DEF StartChild, Roots
<1>2. /\ old \in Seq(Call) /\ NoRepeat(old)
      /\ \A i \in DOMAIN old : old[i] \in Call /\ Parent[old[i]] = p /\ phase[old[i]] = "sibling"
  BY <1>1, WhoWaits
<1> HIDE DEF p, old
<1>3. w \in Seq(Call) /\ Len(w) = n + 1 /\ w[n + 1] = c /\ \A i \in 1 .. n : w[i] = old[i]
  BY <1>2, AppendProperties
<1>4. DOMAIN old = 1 .. n /\ n \in Nat
  BY <1>2, LenProperties
<1>5. DOMAIN w = 1 .. n + 1
  BY <1>3, LenProperties
<1> HIDE DEF w, n
<1>6. \A i \in DOMAIN w : i = n + 1 \/ i \in DOMAIN old
  <2>1. n \in Nat
    BY <1>4
  <2>2. \A i \in 1 .. n + 1 : i = n + 1 \/ i \in 1 .. n
    BY <2>1
  <2>3. QED
    BY <1>4, <1>5, <2>2
<1>7. \A i \in DOMAIN old : w[i] = old[i] /\ old[i] # c
  BY <1>1, <1>2, <1>3, <1>4
<1>8. NoRepeat(w)
  BY <1>2, <1>3, <1>6, <1>7 DEF NoRepeat
<1>9. WaitUnder(p, w, ph)
  <2>1. ASSUME NEW i \in DOMAIN w PROVE ph[w[i]] = "sibling" /\ Parent[w[i]] = p
    <3>1. CASE i = n + 1
      <4>1. w[i] = c
        BY <1>3, <3>1
      <4>2. ph[c] = "sibling"
        BY <1>0
      <4>3. QED
        BY <1>1, <4>1, <4>2
    <3>2. CASE i \in DOMAIN old
      <4>1. w[i] = old[i] /\ old[i] # c
        BY <1>7, <3>2
      <4>2. old[i] \in Call /\ phase[old[i]] = "sibling" /\ Parent[old[i]] = p
        BY <1>2, <3>2
      <4>3. ph[old[i]] = phase[old[i]]
        BY <1>0, <4>1, <4>2
      <4>4. QED
        BY <4>1, <4>2, <4>3
    <3>3. QED
      BY <1>6, <3>1, <3>2
  <2>2. QED
    BY <2>1 DEF WaitUnder
<1>10. in \in SUBSET Call
  BY <1>0 DEF InProgress, Children
<1>11. Moves(c, "sibling", ph)
  BY DEF Moves
<1> HIDE DEF in, ph
<1>12. QED
  BY <1>1, <1>3, <1>8, <1>9, <1>10, <1>11, SiblingMove DEF Working, Late, Phase

LEMMA CancelSiblingMoves ==
  ASSUME TypeOK, TypeOK', SiblingsAreChildren, Order, NEW c \in Call, CancelSibling(c)
  PROVE  Order' /\ \E ph : Moves(c, "over", ph) /\ Settles(ph)
<1>0. phase \in [Call -> Phase] /\ phase' \in [Call -> Phase] /\ siblings \in [Call -> Seq(Call)]
  BY DEF TypeOK
<1> DEFINE p == Parent[c]
           old == siblings[p]
           w == Without(old, c)
           in == InProgress(p)
           ph == [phase EXCEPT ![c] = "over"]
<1>1. /\ p \in Call /\ phase[c] = "sibling" /\ Parent[c] = p
      /\ PumpSiblings(p, w, in, ph)
  BY TreeAssumption DEF CancelSibling, SiblingsAreChildren
<1>2. /\ old \in Seq(Call) /\ NoRepeat(old)
      /\ \A i \in DOMAIN old : old[i] \in Call /\ Parent[old[i]] = p /\ phase[old[i]] = "sibling"
  BY <1>1, WhoWaits
<1> HIDE DEF p, old
<1>3. /\ w \in Seq(Call) /\ NoRepeat(w)
      /\ \A i \in DOMAIN w : w[i] # c /\ \E j \in DOMAIN old : w[i] = old[j]
  BY <1>2, WithoutIsQueue, WithoutIsRest
<1> HIDE DEF w
<1>4. WaitUnder(p, w, ph)
  BY <1>2, <1>3 DEF WaitUnder
<1>5. in \in SUBSET Call
  BY <1>0 DEF InProgress, Children
<1>6. Moves(c, "over", ph)
  BY DEF Moves
<1> HIDE DEF in, ph
<1>7. QED
  BY <1>1, <1>3, <1>4, <1>5, <1>6, SiblingMove DEF Working, Late, Phase

LEMMA LeaveMoves ==
  ASSUME TypeOK, TypeOK', SiblingsAreChildren, Order, NEW c \in Call, Leave(c)
  PROVE  Order' /\ \E ph : Moves(c, "over", ph) /\ Settles(ph)
<1>0. phase \in [Call -> Phase] /\ phase' \in [Call -> Phase] /\ siblings \in [Call -> Seq(Call)]
  BY DEF TypeOK
<1>1. phase[c] \in {"leaving", "resuming"}
  BY DEF Leave
<1>2. CASE c \in Roots
  <2>1. siblings' = siblings /\ phase' = [phase EXCEPT ![c] = "over"] /\ phase' \in [Call -> Phase]
    BY <1>0, <1>2 DEF Leave, Phase
  <2>2. QED
    <3>1. Order'
      BY <1>1, <2>1, LeaseMove DEF Working, Late, Phase
    <3> DEFINE ph == [phase EXCEPT ![c] = "over"]
    <3>2. Moves(c, "over", ph) /\ Settles(ph)
      BY <2>1 DEF Moves, Settles
    <3> HIDE DEF ph
    <3>3. QED
      BY <3>1, <3>2
<1>3. CASE c \notin Roots
  <2> DEFINE p == Parent[c]
             old == siblings[p]
             in == InProgress(p) \ {c}
             ph == [phase EXCEPT ![c] = "over"]
  <2>1. /\ p \in Call /\ Parent[c] = p
        /\ PumpSiblings(p, old, in, ph)
    BY <1>3, TreeAssumption DEF Leave, Roots
  <2>2. /\ old \in Seq(Call) /\ NoRepeat(old)
        /\ \A i \in DOMAIN old : old[i] \in Call /\ Parent[old[i]] = p /\ phase[old[i]] = "sibling"
    BY <2>1, WhoWaits
  <2> HIDE DEF p, old
  <2>3. WaitUnder(p, old, ph)
    BY <1>1, <2>2 DEF WaitUnder
  <2>4. in \in SUBSET Call
    BY <1>0 DEF InProgress, Children
  <2>5. Moves(c, "over", ph)
    BY DEF Moves
  <2> HIDE DEF in, ph
  <2>6. QED
    BY <1>1, <2>1, <2>2, <2>3, <2>4, <2>5, SiblingMove DEF Working, Late, Phase
<1>4. QED
  BY <1>2, <1>3

\* What a pump of the lease queue does to the calls: those it admits run.
LEMMA PumpStarts ==
  ASSUME NEW w, NEW in, NEW ph, NEW ow, Pump(w, in, ph, ow)
  PROVE  \A x \in Call : phase'[x] = ph[x] \/ (ph[x] = "asking" /\ phase'[x] = "running")
<1>1. phase' = [c \in Call |-> IF c \in Entering(w, in) /\ ph[c] = "asking" THEN "running" ELSE ph[c]]
  BY DEF Pump
<1>2. QED
  BY <1>1

LEMMA OrderStep ==
  ASSUME TypeOK, TypeOK', SiblingsAreChildren, Order, Next
  PROVE  Order'
<1>0. /\ phase \in [Call -> Phase] /\ phase' \in [Call -> Phase]
      /\ waiting \in Seq(Call) /\ active \in SUBSET Call /\ owes \in [Call -> SUBSET Call]
      /\ siblings \in [Call -> Seq(Call)]
  BY DEF TypeOK
<1>1. CASE Stop
  BY <1>1 DEF Stop, Order, QueuesHoldSiblings, CallersWork, NoRepeat
<1>2. ASSUME NEW c \in Call, StartRoot(c) PROVE Order'
  <2>1. Pump(Append(waiting, c), active, [phase EXCEPT ![c] = "asking"], owes)
    BY <1>2 DEF StartRoot
  <2>2. Append(waiting, c) \in Seq(Call) /\ [phase EXCEPT ![c] = "asking"] \in [Call -> Phase]
    BY <1>0, AppendProperties DEF Phase
  <2>3. /\ phase' \in [Call -> Phase]
        /\ \A x \in Call :
             \/ phase'[x] = [phase EXCEPT ![c] = "asking"][x]
             \/ [phase EXCEPT ![c] = "asking"][x] = "asking" /\ phase'[x] = "running"
    BY <1>0, <2>1, PumpStarts
  <2>4. siblings' = siblings /\ phase[c] = "new" /\ Parent[c] = 0
    BY <1>2 DEF StartRoot, Roots
  <2>5. QED
    BY <2>3, <2>4, LeaseMove DEF Working, Late, Phase
<1>3. ASSUME NEW c \in Call, SkipRoot(c) PROVE Order'
  <2>1. siblings' = siblings /\ phase[c] = "new" /\ Parent[c] = 0 /\ phase' = [phase EXCEPT ![c] = "over"]
    BY <1>3 DEF SkipRoot, Roots
  <2>2. phase' \in [Call -> Phase]
    BY <1>0, <2>1 DEF Phase
  <2>3. QED
    BY <2>1, <2>2, LeaseMove DEF Working, Late, Phase
<1>4. ASSUME NEW c \in Call, StartChild(c) PROVE Order'
  BY <1>4, StartChildMoves
<1>5. ASSUME NEW c \in Call, CancelSibling(c) PROVE Order'
  BY <1>5, CancelSiblingMoves
<1>6. ASSUME NEW c \in Call, CancelAsking(c) PROVE Order'
  <2> DEFINE q == IF Upgrades(c) THEN "returning" ELSE "leaving"
             ph == [phase EXCEPT ![c] = q]
  <2>1. /\ siblings' = siblings /\ phase[c] = "asking"
        /\ Pump(Without(waiting, c), active, ph, owes)
    BY <1>6 DEF CancelAsking
  <2>2. q \in {"returning", "leaving"}
    OBVIOUS
  <2> HIDE DEF q
  <2>3. q \in Phase /\ ph \in [Call -> Phase]
    BY <1>0, <2>2 DEF Phase
  <2>4. /\ phase' \in [Call -> Phase]
        /\ \A x \in Call : phase'[x] = ph[x] \/ (ph[x] = "asking" /\ phase'[x] = "running")
    BY <1>0, <2>1, PumpStarts
  <2>5. QED
    BY <2>1, <2>2, <2>3, <2>4, LeaseMove DEF Working, Late
<1>7. ASSUME NEW c \in Call, EnterInherited(c) PROVE Order'
  <2>1. siblings' = siblings /\ phase[c] = "admitted" /\ phase' = [phase EXCEPT ![c] = "running"]
    BY <1>7 DEF EnterInherited
  <2>2. phase' \in [Call -> Phase]
    BY <1>0, <2>1 DEF Phase
  <2>3. QED
    BY <2>1, <2>2, LeaseMove DEF Working, Late, Phase
<1>8. ASSUME NEW c \in Call, EnterSafe(c) PROVE Order'
  <2>1. siblings' = siblings /\ phase[c] = "admitted"
    BY <1>8 DEF EnterSafe
  <2>2. CASE stopped
    <3>1. phase' = [phase EXCEPT ![c] = "leaving"] /\ phase' \in [Call -> Phase]
      BY <1>0, <1>8, <2>2 DEF EnterSafe, Phase
    <3>2. QED
      BY <2>1, <3>1, LeaseMove DEF Working, Late, Phase
  <2>3. CASE ~stopped
    <3>1. Pump(Append(waiting, c), active, [phase EXCEPT ![c] = "asking"], owes)
      BY <1>8, <2>3 DEF EnterSafe
    <3>2. Append(waiting, c) \in Seq(Call) /\ [phase EXCEPT ![c] = "asking"] \in [Call -> Phase]
      BY <1>0, AppendProperties DEF Phase
    <3>3. /\ phase' \in [Call -> Phase]
          /\ \A x \in Call :
               \/ phase'[x] = [phase EXCEPT ![c] = "asking"][x]
               \/ [phase EXCEPT ![c] = "asking"][x] = "asking" /\ phase'[x] = "running"
      BY <1>0, <3>1, PumpStarts
    <3>4. QED
      BY <2>1, <3>3, LeaseMove DEF Working, Late, Phase
  <2>4. QED
    BY <2>2, <2>3
<1>9. ASSUME NEW c \in Call, EnterUnsafe(c) PROVE Order'
  <2> DEFINE left == active \ (Reached(c) \cap ToRelease(c))
  <2>1. siblings' = siblings /\ phase[c] = "admitted"
    BY <1>9 DEF EnterUnsafe
  <2>2. \E w \in Seq(Call), q \in {"asking", "returning", "leaving"} :
          Pump(w, left, [phase EXCEPT ![c] = q], owes)
    BY <1>0, <1>9, AppendProperties DEF EnterUnsafe
  <2>3. left \in SUBSET Call
    BY <1>0
  <2> HIDE DEF left
  <2>4. PICK w \in Seq(Call), q \in {"asking", "returning", "leaving"} :
          Pump(w, left, [phase EXCEPT ![c] = q], owes)
    BY <2>2
  <2> DEFINE ph == [phase EXCEPT ![c] = q]
  <2>5. q \in Phase /\ ph \in [Call -> Phase]
    BY <1>0 DEF Phase
  <2>6. /\ phase' \in [Call -> Phase]
        /\ \A x \in Call : phase'[x] = ph[x] \/ (ph[x] = "asking" /\ phase'[x] = "running")
    BY <1>0, <2>4, PumpStarts
  <2>7. QED
    BY <2>1, <2>5, <2>6, LeaseMove DEF Working, Late
<1>10. ASSUME NEW c \in Call, Return(c) PROVE Order'
  <2>1. siblings' = siblings /\ phase[c] = "running" /\ phase' = [phase EXCEPT ![c] = "closing"]
    BY <1>10 DEF Return
  <2>2. phase' \in [Call -> Phase]
    BY <1>0, <2>1 DEF Phase
  <2>3. QED
    BY <2>1, <2>2, LeaseMove DEF Working, Late, Phase
<1>11. ASSUME NEW c \in Call, Close(c) PROVE Order'
  <2> DEFINE q == IF Upgrades(c) THEN "returning" ELSE "leaving"
             ph == [phase EXCEPT ![c] = q]
  <2>1. /\ siblings' = siblings /\ phase[c] = "closing"
        /\ ChildrenEnded(c)
        /\ Pump(waiting, active \ {c}, ph, owes)
    BY <1>11 DEF Close, Closes, ChildrenEnded
  <2>2. q \in {"returning", "leaving"}
    OBVIOUS
  <2> HIDE DEF q
  <2>3. q \in Phase /\ ph \in [Call -> Phase] /\ active \ {c} \in SUBSET Call
    BY <1>0, <2>2 DEF Phase
  <2> DEFINE in == active \ {c}
  <2>4. Pump(waiting, in, ph, owes) /\ in \in SUBSET Call
    BY <1>0, <2>1
  <2> HIDE DEF in
  <2>5. \A x \in Call : phase'[x] = ph[x] \/ (ph[x] = "asking" /\ phase'[x] = "running")
    BY <2>4, PumpStarts
  <2>6. /\ phase[c] \notin {"sibling", "over", "new"} /\ q \notin {"new", "sibling"}
        /\ phase[c] \notin Late /\ q \in Late
    BY <2>1, <2>2 DEF Late
  <2>7. QED
    BY <1>0, <2>1, <2>3, <2>5, <2>6, LeaseMove
<1>12. ASSUME NEW c \in Call, Resume(c) PROVE Order'
  <2> DEFINE ph == [phase EXCEPT ![c] = "resuming"]
  <2>1. siblings' = siblings /\ phase[c] = "returning"
    BY <1>12 DEF Resume
  <2>2. PICK w, ow : Pump(w, active, ph, ow)
    BY <1>12 DEF Resume
  <2> HIDE DEF ph
  <2>3. \A x \in Call : phase'[x] = ph[x] \/ (ph[x] = "asking" /\ phase'[x] = "running")
    BY <2>2 DEF Pump
  <2>4. QED
    BY <1>0, <2>1, <2>3, LeaseMove DEF ph, Working, Late, Phase
<1>13. ASSUME NEW c \in Call, Leave(c) PROVE Order'
  BY <1>13, LeaveMoves
<1>14. QED
  BY <1>1, <1>2, <1>3, <1>4, <1>5, <1>6, <1>7, <1>8, <1>9, <1>10, <1>11, <1>12, <1>13 DEF Next

-----------------------------------------------------------------------------
(* Who owes what.                                                          *)

\* A step that suspends nothing keeps the accounts, if no call that suspended
\* others passes between owing and not owing.
LEMMA AccountsKept ==
  ASSUME TypeOK, Paid, suspended' = suspended, thrown' = thrown,
         \A u \in Call : Upgrades(u) => (phase'[u] \in OweingPhase <=> phase[u] \in OweingPhase)
  PROVE  Paid'
<1>1. ASSUME NEW a PROVE Owing(a)' = Owing(a)
  BY DEF Owing, OweingPhase, Upgrades, Owns
<1>2. QED
  BY <1>1 DEF Paid

Accounts == Paid /\ SiblingsAreChildren /\ ReturningHaveSuspended

LEMMA QuietMove ==
  ASSUME TypeOK, Accounts, suspended' = suspended, thrown' = thrown,
         NEW c \in Call, NEW q, NEW ph, Moves(c, q, ph), Settles(ph),
         q = "sibling" => Parent[c] # 0, q = "returning" => Upgrades(c),
         Upgrades(c) => (q \in OweingPhase <=> phase[c] \in OweingPhase)
  PROVE  Accounts'
<1>1. \A x \in Call : ph[x] = IF x = c THEN q ELSE phase[x]
  BY DEF Moves, TypeOK
<1>2. \A x \in Call : \/ phase'[x] = ph[x]
                      \/ ph[x] = "asking" /\ phase'[x] = "running"
                      \/ ph[x] = "sibling" /\ phase'[x] = "admitted"
  BY DEF Settles
<1>3. \A u \in Call : Upgrades(u) => (phase'[u] \in OweingPhase <=> phase[u] \in OweingPhase)
  BY <1>1, <1>2 DEF OweingPhase
<1>4. Paid'
  BY <1>3, AccountsKept DEF Accounts
<1>5. SiblingsAreChildren'
  BY <1>1, <1>2 DEF Accounts, SiblingsAreChildren
<1>6. ReturningHaveSuspended'
  <2>1. SUFFICES ASSUME NEW x \in Call, phase'[x] = "returning" PROVE Upgrades(x)
    BY DEF ReturningHaveSuspended, Upgrades, Owns
  <2>2. QED
    BY <1>1, <1>2, <2>1 DEF Accounts, ReturningHaveSuspended
<1>7. QED
  BY <1>4, <1>5, <1>6 DEF Accounts

\* The queue of leases only ever lets calls begin.
LEMMA PumpSettles ==
  ASSUME NEW w, NEW in, NEW ph, NEW ow, Pump(w, in, ph, ow)
  PROVE  Settles(ph)
BY PumpStarts DEF Settles

\* Who owes a lease after call c has moved to phase q.
LEMMA OwingAfter ==
  ASSUME TypeOK, NEW c \in Call, Upgrades(c), NEW q, NEW ph, Moves(c, q, ph), Settles(ph),
         NEW a \in Call
  PROVE  /\ a \in Above[c] /\ q \in OweingPhase => Owing(a)' = Owing(a) \cup {c}
         /\ a \in Above[c] /\ q \notin OweingPhase => Owing(a)' = Owing(a) \ {c}
         /\ a \notin Above[c] => Owing(a)' = Owing(a)
<1>1. \A x \in Call : ph[x] = IF x = c THEN q ELSE phase[x]
  BY DEF Moves, TypeOK
<1>2. \A x \in Call : x # c => (phase'[x] \in OweingPhase <=> phase[x] \in OweingPhase)
  BY <1>1 DEF Settles, OweingPhase
<1>3. phase'[c] \in OweingPhase <=> q \in OweingPhase
  BY <1>1 DEF Settles, OweingPhase
<1>4. /\ Owing(a) = {u \in Call : Upgrades(u) /\ a \in Above[u] /\ phase[u] \in OweingPhase}
      /\ Owing(a)' = {u \in Call : Upgrades(u) /\ a \in Above[u] /\ phase'[u] \in OweingPhase}
  BY DEF Owing, OweingPhase, Upgrades, Owns
<1>5. QED
  BY <1>2, <1>3, <1>4

LEMMA AccountsStep ==
  ASSUME TypeOK, TypeOK', Accounts, Order, Next
  PROVE  Accounts'
<1>0. phase \in [Call -> Phase] /\ suspended \in [Call -> Nat] /\ SiblingsAreChildren
  BY DEF TypeOK, Accounts
<1>1. CASE Stop
  <2>1. phase' = phase /\ suspended' = suspended /\ thrown' = thrown
    BY <1>1 DEF Stop
  <2>2. Paid'
    BY <2>1, AccountsKept DEF Accounts
  <2>3. QED
    BY <2>1, <2>2 DEF Accounts, SiblingsAreChildren, ReturningHaveSuspended, Upgrades, Owns
<1>2. ASSUME NEW c \in Call, StartRoot(c) PROVE Accounts'
  <2> DEFINE ph == [phase EXCEPT ![c] = "asking"]
  <2>1. Pump(Append(waiting, c), active, ph, owes) /\ suspended' = suspended /\ thrown' = thrown
    BY <1>2 DEF StartRoot
  <2>2. Moves(c, "asking", ph) /\ Settles(ph)
    BY <2>1, PumpSettles DEF Moves
  <2>3. ~Upgrades(c)
    BY <1>2, UpgradesAreChildren, TreeAssumption DEF StartRoot, Roots
  <2> HIDE DEF ph
  <2>4. QED
    BY <2>1, <2>2, <2>3, QuietMove
<1>3. ASSUME NEW c \in Call, SkipRoot(c) PROVE Accounts'
  <2> DEFINE ph == [phase EXCEPT ![c] = "over"]
  <2>1. phase' = ph /\ phase[c] = "new" /\ suspended' = suspended /\ thrown' = thrown
    BY <1>3 DEF SkipRoot
  <2>2. Moves(c, "over", ph) /\ Settles(ph)
    BY <2>1 DEF Moves, Settles
  <2> HIDE DEF ph
  <2>3. QED
    BY <2>1, <2>2, QuietMove DEF OweingPhase
<1>4. ASSUME NEW c \in Call, StartChild(c) PROVE Accounts'
  <2>1. PICK ph : Moves(c, "sibling", ph) /\ Settles(ph)
    BY <1>0, <1>4, StartChildMoves
  <2>2. phase[c] = "new" /\ Parent[c] # 0 /\ suspended' = suspended /\ thrown' = thrown
    BY <1>4 DEF StartChild, Roots
  <2>3. QED
    BY <2>1, <2>2, QuietMove DEF OweingPhase
<1>5. ASSUME NEW c \in Call, CancelSibling(c) PROVE Accounts'
  <2>1. PICK ph : Moves(c, "over", ph) /\ Settles(ph)
    BY <1>0, <1>5, CancelSiblingMoves
  <2>2. phase[c] = "sibling" /\ suspended' = suspended /\ thrown' = thrown
    BY <1>5 DEF CancelSibling
  <2>3. QED
    BY <2>1, <2>2, QuietMove DEF OweingPhase
<1>6. ASSUME NEW c \in Call, CancelAsking(c) PROVE Accounts'
  <2> DEFINE q == IF Upgrades(c) THEN "returning" ELSE "leaving"
             ph == [phase EXCEPT ![c] = q]
  <2>1. /\ Pump(Without(waiting, c), active, ph, owes) /\ phase[c] = "asking"
        /\ suspended' = suspended /\ thrown' = thrown
    BY <1>6 DEF CancelAsking
  <2>2. Moves(c, q, ph) /\ Settles(ph)
    BY <2>1, PumpSettles DEF Moves
  <2>3. q = IF Upgrades(c) THEN "returning" ELSE "leaving"
    OBVIOUS
  <2> HIDE DEF ph, q
  <2>4. QED
    BY <2>1, <2>2, <2>3, QuietMove DEF OweingPhase
<1>7. ASSUME NEW c \in Call, EnterInherited(c) PROVE Accounts'
  <2> DEFINE ph == [phase EXCEPT ![c] = "running"]
  <2>1. phase' = ph /\ ~Upgrades(c) /\ suspended' = suspended /\ thrown' = thrown
    BY <1>7 DEF EnterInherited, Upgrades
  <2>2. Moves(c, "running", ph) /\ Settles(ph)
    BY <2>1 DEF Moves, Settles
  <2> HIDE DEF ph
  <2>3. QED
    BY <2>1, <2>2, QuietMove
<1>8. ASSUME NEW c \in Call, EnterSafe(c) PROVE Accounts'
  <2> DEFINE q == IF stopped THEN "leaving" ELSE "asking"
             ph == [phase EXCEPT ![c] = q]
  <2>1. ~Upgrades(c) /\ suspended' = suspended /\ thrown' = thrown
    BY <1>8 DEF EnterSafe, Upgrades
  <2>2. Settles(ph)
    <3>1. CASE stopped
      BY <1>8, <3>1 DEF EnterSafe, Settles
    <3>2. CASE ~stopped
      BY <1>8, <3>2, PumpSettles DEF EnterSafe
    <3>3. QED
      BY <3>1, <3>2
  <2>3. Moves(c, q, ph) /\ q \notin {"sibling", "returning"}
    BY DEF Moves
  <2> HIDE DEF ph, q
  <2>4. QED
    BY <2>1, <2>2, <2>3, QuietMove
<1>9. ASSUME NEW c \in Call, EnterUnsafe(c) PROVE Accounts'
  <2>1. phase[c] = "admitted" /\ Upgrades(c)
    BY <1>9 DEF EnterUnsafe
  <2>2. PICK w, in, q : /\ Pump(w, in, [phase EXCEPT ![c] = q], owes)
                        /\ IF Failing(c) = {} THEN q \in {"asking", "returning"} ELSE q = "leaving"
    BY <1>9 DEF EnterUnsafe
  <2> DEFINE ph == [phase EXCEPT ![c] = q]
  <2>3. Moves(c, q, ph) /\ Settles(ph)
    BY <2>2, PumpSettles DEF Moves
  <2>4. /\ \A a \in Call : suspended'[a] = suspended[a] + IF a \in Reached(c) THEN 1 ELSE 0
        /\ thrown' = (thrown \/ Failing(c) # {})
    BY <1>9 DEF EnterUnsafe
  <2> HIDE DEF ph
  <2>5. ASSUME NEW a \in Call
        PROVE  /\ Cardinality(Owing(a)') <= suspended'[a]
               /\ ~thrown' => suspended'[a] = Cardinality(Owing(a)')
    <3>1. /\ Cardinality(Owing(a)) \in Nat /\ IsFiniteSet(Owing(a)) /\ suspended[a] \in Nat
          /\ Cardinality(Owing(a)) <= suspended[a]
      BY <1>0, OwingIsFinite DEF Accounts, Paid
    <3>0. ~thrown => suspended[a] = Cardinality(Owing(a))
      BY DEF Accounts, Paid
    <3>2. c \notin Owing(a)
      BY <2>1 DEF Owing
    <3>3. CASE Failing(c) = {}
      <4>1. a \in Reached(c) <=> a \in Above[c]
        BY <3>3, AboveAreCalls DEF Reached
      <4>2. CASE a \in Above[c]
        <5>1. Owing(a)' = Owing(a) \cup {c}
          BY <2>1, <2>2, <2>3, <3>3, <4>2, OwingAfter DEF OweingPhase
        <5>2. Cardinality(Owing(a) \cup {c}) = Cardinality(Owing(a)) + 1
          BY <3>1, <3>2, FS_AddElement
        <5>3. suspended'[a] = suspended[a] + 1
          BY <2>4, <4>1, <4>2
        <5>4. thrown' = thrown
          BY <2>4, <3>3 DEF TypeOK
        <5>5. Cardinality(Owing(a)') = Cardinality(Owing(a)) + 1
          BY <5>1, <5>2
        <5>6. Cardinality(Owing(a)') <= suspended'[a]
          BY <3>1, <5>3, <5>5
        <5>7. suspended[a] = Cardinality(Owing(a)) => suspended'[a] = Cardinality(Owing(a)')
          BY <5>3, <5>5
        <5>8. QED
          BY <3>0, <5>4, <5>6, <5>7, Zenon
      <4>3. CASE a \notin Above[c]
        <5>1. Owing(a)' = Owing(a)
          BY <2>1, <2>3, <4>3, OwingAfter
        <5>2. suspended'[a] = suspended[a]
          BY <1>0, <2>4, <4>1, <4>3
        <5>3. thrown' = thrown
          BY <2>4, <3>3 DEF TypeOK
        <5>4. Cardinality(Owing(a)') <= suspended'[a]
          BY <3>1, <5>1, <5>2
        <5>5. suspended[a] = Cardinality(Owing(a)) => suspended'[a] = Cardinality(Owing(a)')
          BY <5>1, <5>2
        <5>6. QED
          BY <3>0, <5>3, <5>4, <5>5, Zenon
      <4>4. QED
        BY <4>2, <4>3
    <3>4. CASE Failing(c) # {}
      <4>1. Owing(a)' = Owing(a)
        <5>1. Owing(a)' = Owing(a) \ {c} \/ Owing(a)' = Owing(a)
          BY <2>1, <2>2, <2>3, <3>4, OwingAfter DEF OweingPhase
        <5>2. QED
          BY <3>2, <5>1
      <4>2. suspended'[a] >= suspended[a]
        BY <2>4, <3>1
      <4>3. thrown'
        BY <2>4, <3>4
      <4>4. suspended'[a] \in Nat
        BY <2>4, <3>1
      <4>5. Cardinality(Owing(a)') <= suspended'[a]
        BY <3>1, <4>1, <4>2, <4>4
      <4>6. QED
        BY <4>3, <4>5, Zenon
    <3>5. QED
      BY <3>3, <3>4
  <2>6. Paid'
    BY <2>5 DEF Paid
  <2>7. \A x \in Call : ph[x] = IF x = c THEN q ELSE phase[x]
    BY <1>0, <2>3 DEF Moves
  <2>8. q \in {"asking", "returning", "leaving"}
    BY <2>2
  <2>9. SiblingsAreChildren'
    BY <1>0, <2>3, <2>7, <2>8 DEF Settles, SiblingsAreChildren
  <2>10. ReturningHaveSuspended'
    <3>1. SUFFICES ASSUME NEW x \in Call, phase'[x] = "returning" PROVE Upgrades(x)
      BY DEF ReturningHaveSuspended, Upgrades, Owns
    <3>2. QED
      BY <2>1, <2>3, <2>7, <2>8, <3>1 DEF Settles, Accounts, ReturningHaveSuspended
  <2>11. QED
    BY <2>6, <2>9, <2>10 DEF Accounts
<1>10. ASSUME NEW c \in Call, Return(c) PROVE Accounts'
  <2> DEFINE ph == [phase EXCEPT ![c] = "closing"]
  <2>1. phase' = ph /\ phase[c] = "running" /\ suspended' = suspended /\ thrown' = thrown
    BY <1>10 DEF Return
  <2>2. Moves(c, "closing", ph) /\ Settles(ph)
    BY <2>1 DEF Moves, Settles
  <2> HIDE DEF ph
  <2>3. QED
    BY <2>1, <2>2, QuietMove DEF OweingPhase
<1>11. ASSUME NEW c \in Call, Close(c) PROVE Accounts'
  <2> DEFINE q == IF Upgrades(c) THEN "returning" ELSE "leaving"
             ph == [phase EXCEPT ![c] = q]
  <2>1. /\ Pump(waiting, active \ {c}, ph, owes) /\ phase[c] = "closing"
        /\ suspended' = suspended /\ thrown' = thrown
    BY <1>11 DEF Close
  <2>2. Moves(c, q, ph) /\ Settles(ph)
    BY <2>1, PumpSettles DEF Moves
  <2>3. q = IF Upgrades(c) THEN "returning" ELSE "leaving"
    OBVIOUS
  <2> HIDE DEF ph, q
  <2>4. QED
    BY <2>1, <2>2, <2>3, QuietMove DEF OweingPhase
<1>12. ASSUME NEW c \in Call, Resume(c) PROVE Accounts'
  <2>1. phase[c] = "returning" /\ Upgrades(c)
    BY <1>12 DEF Resume, Accounts, ReturningHaveSuspended
  <2> DEFINE ph == [phase EXCEPT ![c] = "resuming"]
  <2>2. /\ \E w, ow : Pump(w, active, ph, ow)
        /\ \A a \in Call : suspended'[a] = suspended[a] - IF a \in Above[c] THEN 1 ELSE 0
        /\ thrown' = thrown
    BY <1>12 DEF Resume
  <2>3. Moves(c, "resuming", ph) /\ Settles(ph)
    BY <2>2, PumpSettles DEF Moves
  <2> HIDE DEF ph
  <2>4. ASSUME NEW a \in Call
        PROVE  /\ Cardinality(Owing(a)') <= suspended'[a]
               /\ ~thrown' => suspended'[a] = Cardinality(Owing(a)')
    <3>1. /\ Cardinality(Owing(a)) \in Nat /\ IsFiniteSet(Owing(a)) /\ suspended[a] \in Nat
          /\ Cardinality(Owing(a)) <= suspended[a]
      BY <1>0, OwingIsFinite DEF Accounts, Paid
    <3>0. ~thrown => suspended[a] = Cardinality(Owing(a))
      BY DEF Accounts, Paid
    <3>2. CASE a \in Above[c]
      <4>1. c \in Owing(a)
        BY <2>1, <3>2 DEF Owing
      <4>2. Owing(a)' = Owing(a) \ {c}
        BY <2>1, <2>3, <3>2, OwingAfter DEF OweingPhase
      <4>3. Cardinality(Owing(a) \ {c}) = Cardinality(Owing(a)) - 1
        BY <3>1, <4>1, FS_RemoveElement
      <4>4. suspended'[a] = suspended[a] - 1
        BY <2>2, <3>2
      <4>5. Cardinality(Owing(a)') = Cardinality(Owing(a)) - 1
        BY <4>2, <4>3
      <4>6. Cardinality(Owing(a)') <= suspended'[a]
        BY <3>1, <4>4, <4>5
      <4>7. suspended[a] = Cardinality(Owing(a)) => suspended'[a] = Cardinality(Owing(a)')
        BY <4>4, <4>5
      <4>8. thrown' = thrown
        BY <2>2
      <4>9. QED
        BY <3>0, <4>6, <4>7, <4>8, Zenon
    <3>3. CASE a \notin Above[c]
      <4>1. Owing(a)' = Owing(a)
        BY <2>1, <2>3, <3>3, OwingAfter
      <4>2. suspended'[a] = suspended[a]
        BY <2>2, <3>1, <3>3
      <4>3. Cardinality(Owing(a)') <= suspended'[a]
        BY <3>1, <4>1, <4>2
      <4>4. suspended[a] = Cardinality(Owing(a)) => suspended'[a] = Cardinality(Owing(a)')
        BY <4>1, <4>2
      <4>5. thrown' = thrown
        BY <2>2
      <4>6. QED
        BY <3>0, <4>3, <4>4, <4>5, Zenon
    <3>4. QED
      BY <3>2, <3>3
  <2>5. Paid'
    BY <2>4 DEF Paid
  <2>6. \A x \in Call : ph[x] = IF x = c THEN "resuming" ELSE phase[x]
    BY <1>0, <2>3 DEF Moves
  <2>7. SiblingsAreChildren'
    BY <1>0, <2>3, <2>6 DEF Settles, SiblingsAreChildren
  <2>8. ReturningHaveSuspended'
    <3>1. SUFFICES ASSUME NEW x \in Call, phase'[x] = "returning" PROVE Upgrades(x)
      BY DEF ReturningHaveSuspended, Upgrades, Owns
    <3>2. QED
      BY <2>3, <2>6, <3>1 DEF Settles, Accounts, ReturningHaveSuspended
  <2>9. QED
    BY <2>5, <2>7, <2>8 DEF Accounts
<1>13. ASSUME NEW c \in Call, Leave(c) PROVE Accounts'
  <2>1. PICK ph : Moves(c, "over", ph) /\ Settles(ph)
    BY <1>0, <1>13, LeaveMoves
  <2>2. phase[c] \in {"leaving", "resuming"} /\ suspended' = suspended /\ thrown' = thrown
    BY <1>13 DEF Leave
  <2>3. QED
    BY <2>1, <2>2, QuietMove DEF OweingPhase
<1>14. QED
  BY <1>1, <1>2, <1>3, <1>4, <1>5, <1>6, <1>7, <1>8, <1>9, <1>10, <1>11, <1>12, <1>13 DEF Next

-----------------------------------------------------------------------------
(* What holds of every behaviour, for every tree of calls.                 *)

Inv == Safety /\ Order

LEMMA InvStep == Inv /\ [Next]_vars => Inv'
<1>1. SUFFICES ASSUME Inv, [Next]_vars PROVE Inv'
  OBVIOUS
<1>2. CASE Next
  <2>1. TypeOK' /\ UnsafeRunsAlone'
    BY <1>1, <1>2, SafeStep DEF Inv
  <2>2. Order'
    BY <1>1, <1>2, <2>1, OrderStep DEF Inv, Safety
  <2>3. Accounts'
    BY <1>1, <1>2, <2>1, AccountsStep DEF Inv, Safety, Accounts
  <2>4. QED
    BY <2>1, <2>2, <2>3 DEF Inv, Safety, Accounts
<1>3. CASE UNCHANGED vars
  <2>1. TypeOK' /\ UnsafeRunsAlone'
    BY <1>1, <1>3 DEF vars, Inv, Safety, TypeOK, UnsafeRunsAlone
  <2>2. Order'
    BY <1>1, <1>3 DEF vars, Inv, Order, QueuesHoldSiblings, CallersWork, NoRepeat
  <2>3. phase' = phase /\ suspended' = suspended /\ thrown' = thrown
    BY <1>3 DEF vars
  <2>4. Paid'
    BY <1>1, <2>3, AccountsKept DEF Inv, Safety
  <2>5. SiblingsAreChildren' /\ ReturningHaveSuspended'
    BY <1>1, <2>3 DEF Inv, Safety, SiblingsAreChildren, ReturningHaveSuspended, Upgrades, Owns
  <2>6. QED
    BY <2>1, <2>2, <2>4, <2>5 DEF Inv, Safety
<1>4. QED
  BY <1>1, <1>2, <1>3

LEMMA Inductive == Init /\ [][Next]_vars => []Inv
<1>1. Init => Inv
  <2>1. Init => Order
    BY EmptySeq DEF Init, Order, QueuesHoldSiblings, CallersWork, NoRepeat
  <2>2. QED
    BY <2>1, InitSafe DEF Inv
<1>2. QED
  BY <1>1, InvStep, PTL

\* Every state of the scheduler is well typed; in particular no lease's
\* suspendCount ever falls below zero.
THEOREM TypeCorrect == Spec => []TypeOK
<1>1. Inv => TypeOK
  BY DEF Inv, Safety
<1>2. QED
  BY <1>1, Inductive, PTL DEF Spec

\* pump: whatever the tree, an unsafe call that was admitted is the only one.
THEOREM UnsafeIsAlone == Spec => []UnsafeRunsAlone
<1>1. Inv => UnsafeRunsAlone
  BY DEF Inv, Safety
<1>2. QED
  BY <1>1, Inductive, PTL DEF Spec

\* Whoever is above a call that was invoked and has not ended is at work.
LEMMA CallersAreWorking ==
  ASSUME Inv, NEW d \in Call, NEW c \in Above[d], phase[d] \notin {"new", "over"}
  PROVE  c \in Call /\ phase[c] \in Working
<1> DEFINE S == {x \in Call : phase[x] \in Working}
<1>1. \A x \in Call : phase[x] \notin {"new", "over"} => Parent[x] \in S \cup {0}
  BY TreeAssumption DEF Inv, Order, CallersWork
<1>2. \A x \in S : Parent[x] \in S \cup {0}
  BY <1>1 DEF Working
<1>3. S \in SUBSET Call /\ Parent[d] \in S \cup {0}
  BY <1>1
<1> HIDE DEF S
<1>4. c \in S
  BY <1>2, <1>3 DEF Above
<1>5. QED
  BY <1>4 DEF S

\* close: whatever the tree and whoever is cancelled, a call that has given its
\* lease back has nothing running below it.
THEOREM NothingOutlives == Spec => []NothingOutlivesItsCaller
<1>1. Inv => NothingOutlivesItsCaller
  BY CallersAreWorking DEF NothingOutlivesItsCaller, Working
<1>2. QED
  BY <1>1, Inductive, PTL DEF Spec

\* suspend and resume: until release has failed, every lease is suspended as
\* often as it is owed, whatever the tree.
THEOREM SuspensionsStayOwed == Spec => []SuspensionsAreOwed
<1>1. Inv => SuspensionsAreOwed
  BY DEF Inv, Safety, Paid, NeverThrows, SuspensionsAreOwed
<1>2. QED
  BY <1>1, Inductive, PTL DEF Spec

-----------------------------------------------------------------------------
(* Control never comes back to a call without its lease.                   *)

\* The call c waits for its lease: an unsafe call below it has asked for it again.
AwaitsIn(c, ph, ow) == \E u \in Call : ph[u] = "resuming" /\ Upgrades(u) /\ c \in Above[u] /\ c \in ow[u]

HeldIn(in, su, ph, ow) ==
  \A c \in Call : Owns(c) /\ ph[c] \in Working => c \in in \/ su[c] > 0 \/ AwaitsIn(c, ph, ow)

\* A call that works and owns its lease has it, or has it suspended, or somebody
\* below it does not return before the lease is back.
Held == HeldIn(active, suspended, phase, owes)

\* What pump admits has its lease, and is owed it no more.
LEMMA HeldPump ==
  ASSUME NEW w, NEW in, NEW ph, NEW ow, Pump(w, in, ph, ow), HeldIn(in, suspended', ph, ow) PROVE Held'
<1> DEFINE entered == Entering(w, in)
<1>1. /\ active' = in \cup entered
      /\ \A c \in Call : phase'[c] = IF c \in entered /\ ph[c] = "asking" THEN "running" ELSE ph[c]
      /\ \A c \in Call : owes'[c] = ow[c] \ entered
  BY DEF Pump
<1> HIDE DEF entered
<1>2. ASSUME NEW c \in Call, Owns(c), phase'[c] \in Working
      PROVE c \in active' \/ suspended'[c] > 0 \/ AwaitsIn(c, phase', owes')
  <2>1. CASE c \in entered
    BY <1>1, <2>1
  <2>2. CASE c \notin entered
    <3>1. c \in in \/ suspended'[c] > 0 \/ AwaitsIn(c, ph, ow)
      BY <1>1, <1>2, <2>2 DEF HeldIn
    <3>2. AwaitsIn(c, ph, ow) => AwaitsIn(c, phase', owes')
      BY <1>1, <2>2 DEF AwaitsIn
    <3>3. QED
      BY <1>1, <3>1, <3>2
  <2>3. QED
    BY <2>1, <2>2
<1>3. QED
  BY <1>2 DEF Held, HeldIn, AwaitsIn, Owns, Upgrades

\* A step without the queue of leases, in which no owner begins, and nobody that
\* still owes a lease goes on.
LEMMA HeldQuiet ==
  ASSUME Held, active' = active, suspended' = suspended, owes' = owes,
         \A x \in Call : Owns(x) /\ phase'[x] \in Working => phase[x] \in Working,
         \A u \in Call : phase[u] = "resuming" => phase'[u] = "resuming" \/ owes[u] = {}
  PROVE  Held'
<1>1. ASSUME NEW c \in Call, AwaitsIn(c, phase, owes) PROVE AwaitsIn(c, phase', owes')
  BY <1>1 DEF AwaitsIn
<1>2. QED
  BY <1>1 DEF Held, HeldIn, AwaitsIn, Owns, Upgrades

LEMMA HeldStep ==
  ASSUME TypeOK, TypeOK', SiblingsAreChildren, ReturningHaveSuspended, Order, Held, Next
  PROVE  Held'
<1>0. /\ phase \in [Call -> Phase] /\ phase' \in [Call -> Phase]
      /\ suspended \in [Call -> Nat] /\ suspended' \in [Call -> Nat] /\ owes \in [Call -> SUBSET Call]
  BY DEF TypeOK
\* Where one call asks, or leaves, and nothing is suspended or given back.
<1>a. ASSUME NEW c \in Call, NEW w, NEW q, q \notin Working, phase[c] # "resuming", suspended' = suspended,
             Pump(w, active, [phase EXCEPT ![c] = q], owes)
      PROVE  Held'
  <2> DEFINE ph == [phase EXCEPT ![c] = q]
  <2>1. \A x \in Call : ph[x] = IF x = c THEN q ELSE phase[x]
    BY <1>0
  <2> HIDE DEF ph
  <2>2. HeldIn(active, suspended', ph, owes)
    BY <1>a, <2>1 DEF Held, HeldIn, AwaitsIn
  <2>3. QED
    BY <1>a, <2>2, HeldPump DEF ph
<1>1. CASE Stop
  BY <1>1, HeldQuiet DEF Stop
<1>2. ASSUME NEW c \in Call, StartRoot(c) PROVE Held'
  BY <1>2, <1>a DEF StartRoot, Working
<1>3. ASSUME NEW c \in Call, SkipRoot(c) PROVE Held'
  BY <1>0, <1>3, HeldQuiet DEF SkipRoot, Working
<1>4. ASSUME NEW c \in Call, StartChild(c) \/ CancelSibling(c) \/ Leave(c) PROVE Held'
  <2>1. PICK q, ph : q \in {"sibling", "over"} /\ Moves(c, q, ph) /\ Settles(ph)
    BY <1>0, <1>4, StartChildMoves, CancelSiblingMoves, LeaveMoves
  <2>2. \A u \in Call : phase[u] = "resuming" /\ u # c => phase'[u] = "resuming"
    BY <1>0, <2>1 DEF Moves, Settles
  <2>3. phase[c] = "resuming" => owes[c] = {}
    BY <1>4 DEF StartChild, CancelSibling, Leave
  <2>4. \A x \in Call : phase'[x] \in Working => phase[x] \in Working
    BY <1>0, <1>4 DEF StartChild, CancelSibling, Leave, PumpSiblings, Working
  <2>5. active' = active /\ suspended' = suspended /\ owes' = owes
    BY <1>4 DEF StartChild, CancelSibling, Leave
  <2>6. QED
    BY <2>2, <2>3, <2>4, <2>5, HeldQuiet
<1>5. ASSUME NEW c \in Call, CancelAsking(c) PROVE Held'
  <2> DEFINE q == IF Upgrades(c) THEN "returning" ELSE "leaving"
  <2>1. q \notin Working
    BY DEF Working
  <2>2. /\ phase[c] # "resuming" /\ suspended' = suspended
        /\ Pump(Without(waiting, c), active, [phase EXCEPT ![c] = q], owes)
    BY <1>5 DEF CancelAsking
  <2> HIDE DEF q
  <2>3. QED
    BY <2>1, <2>2, <1>a
<1>6. ASSUME NEW c \in Call, EnterInherited(c) \/ Return(c) PROVE Held'
  BY <1>0, <1>6, HeldQuiet DEF EnterInherited, Return, Working
<1>7. ASSUME NEW c \in Call, EnterSafe(c) PROVE Held'
  <2>1. CASE stopped
    BY <1>0, <1>7, <2>1, HeldQuiet DEF EnterSafe, Working
  <2>2. CASE ~stopped
    BY <1>7, <2>2, <1>a DEF EnterSafe, Working
  <2>3. QED
    BY <2>1, <2>2
\* Whose lease is released has it suspended from then on.
<1>8. ASSUME NEW c \in Call, EnterUnsafe(c) PROVE Held'
  <2> DEFINE left == active \ (Reached(c) \cap ToRelease(c))
  <2>0. \E w, q : /\ Pump(w, left, [phase EXCEPT ![c] = q], owes)
                  /\ q \in {"asking", "returning", "leaving"}
    BY <1>8 DEF EnterUnsafe
  <2>1. PICK w, q : /\ Pump(w, left, [phase EXCEPT ![c] = q], owes)
                    /\ q \in {"asking", "returning", "leaving"}
    BY <2>0
  <2>2. /\ phase[c] = "admitted"
        /\ \A a \in Call : suspended'[a] = suspended[a] + IF a \in Reached(c) THEN 1 ELSE 0
    BY <1>8 DEF EnterUnsafe
  <2> DEFINE ph == [phase EXCEPT ![c] = q]
  <2>3. \A x \in Call : ph[x] = IF x = c THEN q ELSE phase[x]
    BY <1>0
  <2>4. \A a \in Call : /\ a \in active => a \in left \/ suspended'[a] > 0
                        /\ suspended[a] > 0 => suspended'[a] > 0
    BY <1>0, <2>2
  <2> HIDE DEF ph, left
  <2>5. HeldIn(left, suspended', ph, owes)
    <3>1. ASSUME NEW x \in Call, Owns(x), ph[x] \in Working
          PROVE  x \in left \/ suspended'[x] > 0 \/ AwaitsIn(x, ph, owes)
      <4>1. phase[x] \in Working
        BY <2>1, <2>3, <3>1 DEF Working
      <4>2. x \in active \/ suspended[x] > 0 \/ AwaitsIn(x, phase, owes)
        BY <3>1, <4>1 DEF Held, HeldIn
      <4>3. AwaitsIn(x, phase, owes) => AwaitsIn(x, ph, owes)
        BY <2>2, <2>3 DEF AwaitsIn
      <4>4. QED
        BY <2>4, <4>2, <4>3
    <3>2. QED
      BY <3>1 DEF HeldIn
  <2>6. QED
    BY <2>1, <2>5, HeldPump DEF ph
<1>9. ASSUME NEW c \in Call, Close(c) PROVE Held'
  <2> DEFINE q == IF Upgrades(c) THEN "returning" ELSE "leaving"
             ph == [phase EXCEPT ![c] = q]
  <2>1. /\ phase[c] = "closing" /\ suspended' = suspended
        /\ Pump(waiting, active \ {c}, ph, owes)
    BY <1>9 DEF Close
  <2>2. q \notin Working /\ \A x \in Call : ph[x] = IF x = c THEN q ELSE phase[x]
    BY <1>0 DEF Working
  <2> HIDE DEF ph, q
  <2>3. HeldIn(active \ {c}, suspended', ph, owes)
    BY <2>1, <2>2 DEF Held, HeldIn, AwaitsIn
  <2>4. QED
    BY <2>1, <2>3, HeldPump
\* Whose lease is given back is waited for.
<1>10. ASSUME NEW c \in Call, Resume(c) PROVE Held'
  <2> DEFINE ph == [phase EXCEPT ![c] = "resuming"]
             ow == [owes EXCEPT ![c] = Above[c]]
  <2>1. PICK w : Pump(w, active, ph, ow)
    BY <1>10 DEF Resume
  <2>2. /\ phase[c] = "returning" /\ Upgrades(c)
        /\ \A a \in Call : suspended'[a] = suspended[a] - IF a \in Above[c] THEN 1 ELSE 0
    BY <1>10 DEF Resume, ReturningHaveSuspended
  <2>3. \A x \in Call : /\ ph[x] = IF x = c THEN "resuming" ELSE phase[x]
                        /\ ow[x] = IF x = c THEN Above[c] ELSE owes[x]
    BY <1>0
  <2>4. \A a \in Call : a \in Above[c] \/ suspended'[a] = suspended[a]
    BY <1>0, <2>2
  <2> HIDE DEF ph, ow
  <2>5. HeldIn(active, suspended', ph, ow)
    <3>1. ASSUME NEW x \in Call, Owns(x), ph[x] \in Working
          PROVE  x \in active \/ suspended'[x] > 0 \/ AwaitsIn(x, ph, ow)
      <4>1. phase[x] \in Working
        BY <2>3, <3>1 DEF Working
      <4>2. x \in active \/ suspended[x] > 0 \/ AwaitsIn(x, phase, owes)
        BY <3>1, <4>1 DEF Held, HeldIn
      <4>3. AwaitsIn(x, phase, owes) => AwaitsIn(x, ph, ow)
        BY <2>2, <2>3 DEF AwaitsIn
      <4>4. x \in Above[c] => AwaitsIn(x, ph, ow)
        BY <2>2, <2>3 DEF AwaitsIn
      <4>5. QED
        BY <2>4, <4>2, <4>3, <4>4
    <3>2. QED
      BY <3>1 DEF HeldIn
  <2>6. QED
    BY <2>1, <2>5, HeldPump
<1>11. QED
  BY <1>1, <1>2, <1>3, <1>4, <1>5, <1>6, <1>7, <1>8, <1>9, <1>10 DEF Next

\* The calls above a call above c are above c, and come before it.
LEMMA AboveTransitive ==
  ASSUME NEW c \in Call, NEW a \in Above[c] PROVE Above[a] \subseteq Above[c]
<1> SUFFICES ASSUME NEW x \in Above[a], NEW S \in SUBSET Call,
                    Parent[c] \in S \cup {0}, \A y \in S : Parent[y] \in S \cup {0}
             PROVE  x \in S
  BY AboveAreCalls DEF Above
<1>1. a \in S /\ a \in Call
  BY DEF Above
<1>2. QED
  BY <1>1 DEF Above

LEMMA AboveIsBefore ==
  ASSUME NEW c \in Call, NEW a \in Above[c] PROVE a # c
<1> DEFINE S == {x \in Call : x < c}
<1>1. Parent[c] \in S \cup {0} /\ \A y \in S : Parent[y] \in S \cup {0}
  <2>1. ASSUME NEW y \in Call, y <= c PROVE Parent[y] \in S \cup {0}
    <3>1. Parent[y] \in Call \cup {0} /\ Parent[y] < y
      BY TreeAssumption
    <3>2. CASE Parent[y] \in Call
      <4>1. Parent[y] \in Nat /\ y \in Nat /\ c \in Nat
        BY <3>2, TreeAssumption
      <4>2. Parent[y] < c
        BY <2>1, <3>1, <4>1
      <4>3. QED
        BY <3>2, <4>2
    <3>3. QED
      BY <3>1, <3>2
  <2>2. c <= c /\ \A y \in S : y \in Call /\ y <= c
    BY TreeAssumption
  <2>3. QED
    BY <2>1, <2>2
<1>2. S \in SUBSET Call /\ c \notin S
  BY TreeAssumption
<1> HIDE DEF S
<1>3. a \in S
  BY <1>1, <1>2 DEF Above
<1>4. QED
  BY <1>2, <1>3

\* A call that does not own its lease is below an unsafe call that does.
LEMMA OwnerAbove ==
  ASSUME NEW c \in Call, ~Owns(c) PROVE \E a \in Above[c] : a \notin Safe /\ Owns(a)
<1> DEFINE T == {Above[a] : a \in Above[c] \ Safe}
<1>1. T \subseteq FiniteSubsetsOf(Call) /\ T # {}
  <2>1. T \subseteq SUBSET Call /\ T # {}
    BY AboveAreCalls DEF Owns
  <2>2. FiniteSubsetsOf(Call) = SUBSET Call
    BY TreeAssumption, FS_FiniteSubsetsOfFinite
  <2>3. QED
    BY <2>1, <2>2
<1> HIDE DEF T
<1>2. PICK m \in T : \A y \in T : <<y, m>> \notin StrictSubsetOrdering(Call)
  BY <1>1, FS_StrictSubsetOrderingWellFounded, WFMin
<1>3. PICK a \in Above[c] \ Safe : m = Above[a]
  BY DEF T
<1>4. a \in Call /\ Above[a] \subseteq Above[c]
  BY <1>3, AboveAreCalls, AboveTransitive
<1>5. ASSUME NEW b \in Above[a], b \notin Safe PROVE FALSE
  <2>1. b \in Call /\ b \in Above[c] \ Safe /\ Above[b] \subseteq Above[a]
    BY <1>4, <1>5, AboveAreCalls, AboveTransitive
  <2>2. b \notin Above[b]
    BY <2>1, AboveIsBefore
  <2>3. Above[b] \in T
    BY <2>1 DEF T
  <2>4. <<Above[b], Above[a]>> \in StrictSubsetOrdering(Call)
    BY <1>4, <2>1, <2>2, AboveAreCalls DEF StrictSubsetOrdering
  <2>5. QED
    BY <1>2, <1>3, <2>3, <2>4
<1>6. QED
  BY <1>3, <1>5 DEF Owns

LEMMA HeldAlways == Spec => [](Inv /\ Held)
<1>1. Init => Held
  BY DEF Init, Held, HeldIn, Working
<1>2. Inv /\ Held /\ [Next]_vars => Held'
  <2> SUFFICES ASSUME Inv, Held, [Next]_vars, Inv' PROVE Held'
    BY InvStep
  <2>1. CASE Next
    BY <2>1, HeldStep DEF Inv, Safety
  <2>2. CASE UNCHANGED vars
    BY <2>2, HeldQuiet DEF vars
  <2>3. QED
    BY <2>1, <2>2
<1>3. QED
  BY <1>1, <1>2, Inductive, PTL DEF Spec

\* The call whose lease a call runs on: its own, or that of an unsafe call above.
LEMMA Lender ==
  ASSUME Inv, NEW c \in Call, phase[c] \in Working
  PROVE  \E a \in Above[c] \cup {c} : /\ a \in Call /\ Owns(a) /\ phase[a] \in Working
                                      /\ a # c => a \notin Safe
<1>1. CASE Owns(c)
  BY <1>1
<1>2. CASE ~Owns(c)
  <2>1. PICK a \in Above[c] : a \notin Safe /\ Owns(a)
    BY <1>2, OwnerAbove
  <2>2. a \in Call /\ phase[a] \in Working
    BY AboveAreCalls, CallersAreWorking DEF Working
  <2>3. QED
    BY <2>1, <2>2
<1>3. QED
  BY <1>1, <1>2

\* suspend and resume: until release has failed, and whatever the tree, a call
\* that works while nobody below it is between suspending and returning leases
\* has its own, or runs on that of an unsafe call above it.
THEOREM LeaseStaysHeld == Spec => []LeaseHeldWhileWorking
<1>1. Inv /\ Held => LeaseHeldWhileWorking
  <2> SUFFICES ASSUME Inv, Held, NeverThrows, NEW c \in Call, phase[c] \in Working,
                      \A u \in Call : Upgrades(u) /\ c \in Above[u] =>
                        phase[u] \notin {"asking", "running", "closing", "returning", "resuming"}
               PROVE  \E a \in Above[c] \cup {c} : a \in active
    BY DEF LeaseHeldWhileWorking, Working
  <2>1. PICK a \in Above[c] \cup {c} : /\ a \in Call /\ Owns(a) /\ phase[a] \in Working
                                       /\ a # c => a \notin Safe
    BY Lender
  <2>2. ASSUME NEW u \in Call, Upgrades(u), a \in Above[u]
        PROVE  phase[u] \notin {"asking", "running", "closing", "returning", "resuming"}
    BY <2>1, <2>2 DEF Upgrades, Owns
  <2>3. Owing(a) = {}
    BY <2>2 DEF Owing
  <2>4. suspended[a] = 0
    BY <2>1, <2>3, FS_EmptySet DEF Inv, Safety, Paid, NeverThrows
  <2>5. ~AwaitsIn(a, phase, owes)
    BY <2>2 DEF AwaitsIn
  <2>6. QED
    BY <2>1, <2>4, <2>5 DEF Held, HeldIn
<1>2. QED
  BY <1>1, HeldAlways, PTL

\* So the lease speaks for the calls: until release has failed, whatever works beside an
\* admitted unsafe call is a call that it invoked itself.
THEOREM UnsafeExcludes == Spec => []UnsafeWorksAlone
<1>1. UnsafeRunsAlone /\ LeaseHeldWhileWorking => UnsafeWorksAlone
  <2> SUFFICES ASSUME UnsafeRunsAlone, LeaseHeldWhileWorking, NeverThrows, NEW u \in active \ Safe, NEW c \in Call,
                      phase[c] \in {"running", "closing"},
                      \A v \in Call : Upgrades(v) /\ c \in Above[v] =>
                        phase[v] \notin {"asking", "running", "closing", "returning", "resuming"}
               PROVE  c = u \/ u \in Above[c]
    BY DEF UnsafeWorksAlone
  <2>1. PICK a \in Above[c] \cup {c} : a \in active
    BY DEF LeaseHeldWhileWorking
  <2>2. a = u
    BY <2>1 DEF UnsafeRunsAlone
  <2>3. QED
    BY <2>1, <2>2
<1>2. QED
  BY <1>1, UnsafeIsAlone, LeaseStaysHeld, PTL

-----------------------------------------------------------------------------
(* The batch.                                                              *)

\* A call of the batch neither begins nor comes back after its end.
Stays(r) == (phase'[r] = "new" <=> phase[r] = "new") /\ (phase[r] = "over" => phase'[r] = "over")

\* A step that moves one call, and lets those it admits run.
LEMMA OthersStay ==
  ASSUME TypeOK, NEW c \in Call, NEW q \in Phase,
         \A x \in Call : \/ phase'[x] = [phase EXCEPT ![c] = q][x]
                         \/ [phase EXCEPT ![c] = q][x] = "asking" /\ phase'[x] = "running"
  PROVE  /\ \A r \in Call \ {c} : Stays(r)
         /\ phase[c] \notin {"new", "over"} /\ q # "new" => Stays(c)
BY DEF TypeOK, Stays

\* A queue of siblings moves no call of the batch.
LEMMA SiblingsAside ==
  ASSUME TypeOK, NEW p \in Call, NEW w \in Seq(Call), NEW in \in SUBSET Call,
         NEW c \in Call \ Roots, NEW q \in Phase,
         PumpSiblings(p, w, in, [phase EXCEPT ![c] = q]),
         \A i \in DOMAIN w : w[i] \notin Roots
  PROVE  \A r \in Roots : Stays(r)
<1>1. [phase EXCEPT ![c] = q] \in [Call -> Phase] /\ siblings \in [Call -> Seq(Call)]
  BY DEF TypeOK
<1>2. \A x \in Call : phase'[x] = IF x \in Entering(w, in) THEN "admitted"
                                                         ELSE [phase EXCEPT ![c] = q][x]
  BY <1>1 DEF PumpSiblings
<1>3. \A r \in Roots : r \in Call /\ r # c /\ r \notin Entering(w, in)
  BY EnteringWaited DEF Roots
<1>4. \A r \in Roots : phase'[r] = phase[r]
  BY <1>2, <1>3 DEF TypeOK
<1>5. QED
  BY <1>4 DEF Stays

LEMMA BatchStays ==
  ASSUME TypeOK, SiblingsAreChildren, QueuesHoldSiblings, Next,
         \A c \in Call : ~StartRoot(c) /\ ~SkipRoot(c)
  PROVE  \A r \in Roots : Stays(r)
<1>0. /\ phase \in [Call -> Phase] /\ siblings \in [Call -> Seq(Call)]
      /\ \A c \in Call : c \in Roots <=> Parent[c] = 0
  BY DEF TypeOK, Roots
<1>1. \A p \in Call \ {0} : \A i \in DOMAIN siblings[p] : siblings[p][i] \notin Roots
  BY TreeAssumption DEF QueuesHoldSiblings, Roots
<1>2. ASSUME NEW c \in Call, StartChild(c) PROVE \A r \in Roots : Stays(r)
  <2> DEFINE w == Append(siblings[Parent[c]], c)
  <2>1. c \notin Roots /\ Parent[c] \in Call /\ Parent[c] # 0
    BY <1>0, <1>2, TreeAssumption DEF StartChild
  <2>2. PumpSiblings(Parent[c], w, InProgress(Parent[c]), [phase EXCEPT ![c] = "sibling"])
    BY <1>2 DEF StartChild
  <2>3. w \in Seq(Call) /\ \A i \in DOMAIN w : w[i] \notin Roots
    BY <1>0, <1>1, <2>1, AppendProperties
  <2>4. InProgress(Parent[c]) \in SUBSET Call
    BY DEF InProgress, Children
  <2> HIDE DEF w
  <2>5. QED
    BY <2>1, <2>2, <2>3, <2>4, SiblingsAside DEF Phase
<1>3. ASSUME NEW c \in Call, CancelSibling(c) PROVE \A r \in Roots : Stays(r)
  <2> DEFINE w == Without(siblings[Parent[c]], c)
  <2>1. Parent[c] # 0 /\ Parent[c] \in Call /\ c \notin Roots
    BY <1>0, <1>3, TreeAssumption DEF CancelSibling, SiblingsAreChildren
  <2>2. PumpSiblings(Parent[c], w, InProgress(Parent[c]), [phase EXCEPT ![c] = "over"])
    BY <1>3 DEF CancelSibling
  <2>3. siblings[Parent[c]] \in Seq(Call) /\ NoRepeat(siblings[Parent[c]])
    BY <1>0, <2>1 DEF QueuesHoldSiblings
  <2>4. w \in Seq(Call) /\ \A i \in DOMAIN w : \E j \in DOMAIN siblings[Parent[c]] : w[i] = siblings[Parent[c]][j]
    BY <2>3, WithoutIsQueue, WithoutIsRest
  <2>5. \A i \in DOMAIN w : w[i] \notin Roots
    BY <1>1, <2>1, <2>4
  <2>6. InProgress(Parent[c]) \in SUBSET Call
    BY DEF InProgress, Children
  <2> HIDE DEF w
  <2>7. QED
    BY <2>1, <2>2, <2>4, <2>5, <2>6, SiblingsAside DEF Phase
<1>4. ASSUME NEW c \in Call, Leave(c) PROVE \A r \in Roots : Stays(r)
  <2>1. CASE c \in Roots
    BY <1>0, <1>4, <2>1 DEF Leave, Stays, Roots
  <2>2. CASE c \notin Roots
    <3>1. Parent[c] \in Call /\ Parent[c] # 0
      BY <1>0, <2>2, TreeAssumption
    <3>2. PumpSiblings(Parent[c], siblings[Parent[c]], InProgress(Parent[c]) \ {c}, [phase EXCEPT ![c] = "over"])
      BY <1>4, <2>2 DEF Leave
    <3>3. InProgress(Parent[c]) \ {c} \in SUBSET Call
      BY DEF InProgress, Children
    <3>4. siblings[Parent[c]] \in Seq(Call) /\ \A i \in DOMAIN siblings[Parent[c]] : siblings[Parent[c]][i] \notin Roots
      BY <1>0, <1>1, <3>1
    <3>5. QED
      BY <2>2, <3>1, <3>2, <3>3, <3>4, SiblingsAside DEF Phase
  <2>3. QED
    BY <2>1, <2>2
<1>5. ASSUME NEW c \in Call,
             \/ CancelAsking(c) \/ EnterInherited(c) \/ EnterSafe(c) \/ EnterUnsafe(c)
             \/ Return(c) \/ Close(c) \/ Resume(c)
      PROVE  \A r \in Roots : Stays(r)
  <2>1. phase[c] \notin {"new", "over"}
    BY <1>5 DEF CancelAsking, EnterInherited, EnterSafe, EnterUnsafe, Return, Close, Resume
  <2>2. \E q \in Phase \ {"new"} : \/ phase' = [phase EXCEPT ![c] = q]
                                   \/ \E w, in, ow : Pump(w, in, [phase EXCEPT ![c] = q], ow)
    <3> USE DEF Phase
    <3>1. CASE CancelAsking(c) \/ Close(c)
      BY <3>1 DEF CancelAsking, Close
    <3>2. CASE EnterInherited(c) \/ Return(c)
      BY <3>2 DEF EnterInherited, Return
    <3>3. CASE EnterSafe(c)
      BY <3>3 DEF EnterSafe
    <3>4. CASE EnterUnsafe(c)
      BY <3>4 DEF EnterUnsafe
    <3>5. CASE Resume(c)
      BY <3>5 DEF Resume
    <3>6. QED
      BY <1>5, <3>1, <3>2, <3>3, <3>4, <3>5
  <2>3. PICK q \in Phase \ {"new"} : \/ phase' = [phase EXCEPT ![c] = q]
                                     \/ \E w, in, ow : Pump(w, in, [phase EXCEPT ![c] = q], ow)
    BY <2>2
  <2>4. \A x \in Call : \/ phase'[x] = [phase EXCEPT ![c] = q][x]
                        \/ [phase EXCEPT ![c] = q][x] = "asking" /\ phase'[x] = "running"
    <3>1. CASE phase' = [phase EXCEPT ![c] = q]
      BY <3>1
    <3>2. CASE \E w, in, ow : Pump(w, in, [phase EXCEPT ![c] = q], ow)
      <4>1. PICK w, in, ow : Pump(w, in, [phase EXCEPT ![c] = q], ow)
        BY <3>2
      <4> DEFINE ph == [phase EXCEPT ![c] = q]
      <4>2. Pump(w, in, ph, ow)
        BY <4>1
      <4> HIDE DEF ph
      <4>3. \A x \in Call : phase'[x] = ph[x] \/ (ph[x] = "asking" /\ phase'[x] = "running")
        BY <4>2, PumpStarts
      <4>4. QED
        BY <4>3 DEF ph
    <3>3. QED
      BY <2>3, <3>1, <3>2
  <2>5. \A r \in Call : Stays(r)
    BY <2>1, <2>4, OthersStay
  <2>6. QED
    BY <2>5 DEF Roots
<1>6. CASE Stop
  BY <1>6 DEF Stop, Stays
<1>7. QED
  BY <1>2, <1>3, <1>4, <1>5, <1>6 DEF Next

\* A call of the batch begins, or is skipped.
LEMMA BatchBegins ==
  ASSUME TypeOK, NEW c \in Call, StartRoot(c) \/ SkipRoot(c)
  PROVE  /\ c \in Roots /\ phase[c] = "new" /\ phase'[c] # "new" /\ MyTurn(c)
         /\ \A r \in Roots \ {c} : Stays(r)
<1>1. c \in Roots /\ phase[c] = "new" /\ MyTurn(c)
  BY DEF StartRoot, SkipRoot
<1>2. PICK q \in {"asking", "over"} : \/ phase' = [phase EXCEPT ![c] = q]
                                      \/ \E w, in, ow : Pump(w, in, [phase EXCEPT ![c] = q], ow)
  BY DEF StartRoot, SkipRoot
<1>3. q \in Phase
  BY DEF Phase
<1>4. \A x \in Call : \/ phase'[x] = [phase EXCEPT ![c] = q][x]
                      \/ [phase EXCEPT ![c] = q][x] = "asking" /\ phase'[x] = "running"
  <2>1. CASE phase' = [phase EXCEPT ![c] = q]
    BY <2>1
  <2>2. CASE \E w, in, ow : Pump(w, in, [phase EXCEPT ![c] = q], ow)
    <3>1. PICK w, in, ow : Pump(w, in, [phase EXCEPT ![c] = q], ow)
      BY <2>2
    <3> DEFINE ph == [phase EXCEPT ![c] = q]
    <3>2. Pump(w, in, ph, ow)
      BY <3>1
    <3> HIDE DEF ph
    <3>3. \A x \in Call : phase'[x] = ph[x] \/ (ph[x] = "asking" /\ phase'[x] = "running")
      BY <3>2, PumpStarts
    <3>4. QED
      BY <3>3 DEF ph
  <2>3. QED
    BY <1>2, <2>1, <2>2
<1>5. \A r \in Call \ {c} : Stays(r)
  BY <1>3, <1>4, OthersStay
<1>6. phase'[c] # "new"
  <2>1. phase \in [Call -> Phase]
    BY DEF TypeOK
  <2>2. [phase EXCEPT ![c] = q][c] = q
    BY <2>1
  <2>3. phase'[c] = q \/ phase'[c] = "running"
    BY <1>4, <2>2
  <2>4. QED
    BY <1>2, <2>3
<1>7. QED
  BY <1>1, <1>5, <1>6 DEF Roots

LEMMA BatchStep == ASSUME Inv, BatchInOrder, [Next]_vars PROVE BatchInOrder'
<1>0. TypeOK /\ SiblingsAreChildren /\ QueuesHoldSiblings
  BY DEF Inv, Safety, Order
<1>1. IsFiniteSet(Roots) /\ IsFiniteSet(UnderWay) /\ Roots \subseteq Nat
  <2>1. Roots \subseteq Call /\ UnderWay \subseteq Call
    BY DEF Roots, UnderWay
  <2>2. QED
    BY <2>1, TreeAssumption, FS_Subset
<1>2. Cardinality(UnderWay) \in Nat /\ MaxParallel \in Nat
  BY <1>1, FS_CardinalityType, TreeAssumption
<1>3. ASSUME \A r \in Roots : Stays(r) PROVE BatchInOrder'
  <2>1. \A r, c \in Roots : r < c /\ phase'[c] # "new" =>
          phase'[r] # "new" /\ ({r, c} \subseteq Safe \/ phase'[r] = "over")
    BY <1>3 DEF BatchInOrder, Stays
  <2>2. UnderWay' \subseteq UnderWay
    BY <1>3 DEF UnderWay, Stays
  <2>3. Cardinality(UnderWay') <= Cardinality(UnderWay) /\ Cardinality(UnderWay') \in Nat
    BY <1>1, <2>2, FS_Subset, FS_CardinalityType
  <2>4. QED
    BY <1>2, <2>1, <2>3 DEF BatchInOrder
<1>4. ASSUME NEW c \in Call, StartRoot(c) \/ SkipRoot(c) PROVE BatchInOrder'
  <2>1. /\ c \in Roots /\ phase[c] = "new" /\ phase'[c] # "new" /\ MyTurn(c)
        /\ \A r \in Roots \ {c} : Stays(r)
    BY <1>0, <1>4, BatchBegins
  <2>2. ASSUME NEW r \in Roots, NEW d \in Roots, r < d, phase'[d] # "new"
        PROVE  phase'[r] # "new" /\ ({r, d} \subseteq Safe \/ phase'[r] = "over")
    <3>0. r \in Nat /\ d \in Nat /\ r # d
      BY <1>1, <2>2
    <3>1. CASE d = c
      <4>1. phase[r] # "new" /\ ({r, c} \subseteq Safe \/ phase[r] = "over")
        BY <2>1, <2>2, <3>1 DEF MyTurn
      <4>2. QED
        BY <2>1, <3>0, <3>1, <4>1 DEF Stays
    <3>2. CASE r = c
      <4>1. phase[d] = "new"
        BY <2>1, <2>2, <3>2 DEF BatchInOrder
      <4>2. QED
        BY <2>1, <2>2, <3>0, <3>2, <4>1 DEF Stays
    <3>3. CASE r # c /\ d # c
      <4>1. Stays(r) /\ Stays(d)
        BY <2>1, <3>3
      <4>2. QED
        BY <2>2, <4>1 DEF BatchInOrder, Stays
    <3>4. QED
      BY <3>1, <3>2, <3>3
  <2>3. UnderWay' \subseteq UnderWay \cup {c}
    BY <2>1 DEF UnderWay, Stays
  <2>4. /\ IsFiniteSet(UnderWay \cup {c})
        /\ Cardinality(UnderWay \cup {c}) <= Cardinality(UnderWay) + 1
    <3>1. IsFiniteSet(UnderWay \cup {c})
      BY <1>1, FS_AddElement
    <3>2. Cardinality(UnderWay \cup {c}) = IF c \in UnderWay THEN Cardinality(UnderWay)
                                                             ELSE Cardinality(UnderWay) + 1
      <4> DEFINE U == UnderWay
      <4>1. IsFiniteSet(U)
        BY <1>1
      <4> HIDE DEF U
      <4>2. Cardinality(U \cup {c}) = IF c \in U THEN Cardinality(U) ELSE Cardinality(U) + 1
        BY <4>1, FS_AddElement
      <4>3. QED
        BY <4>2 DEF U
    <3>3. QED
      BY <1>2, <3>1, <3>2
  <2>5. Cardinality(UnderWay') <= Cardinality(UnderWay \cup {c}) /\ Cardinality(UnderWay') \in Nat
    BY <2>3, <2>4, FS_Subset, FS_CardinalityType
  <2>6. Cardinality(UnderWay) < MaxParallel
    BY <2>1 DEF MyTurn, UnderWay
  <2>7. Cardinality(UnderWay \cup {c}) \in Nat
    BY <2>4, FS_CardinalityType
  <2>8. Cardinality(UnderWay') <= MaxParallel
    BY <1>2, <2>4, <2>5, <2>6, <2>7
  <2>9. QED
    BY <2>2, <2>8 DEF BatchInOrder
<1>5. CASE UNCHANGED vars
  BY <1>3, <1>5 DEF vars, Stays
<1>6. CASE Next /\ \A c \in Call : ~StartRoot(c) /\ ~SkipRoot(c)
  BY <1>0, <1>3, <1>6, BatchStays
<1>7. QED
  BY <1>4, <1>5, <1>6

\* scheduleBatch starts the calls of a batch in order, and nothing takes one back.
LEMMA BatchStaysInOrder == Spec => [](Inv /\ BatchInOrder)
<1>1. Init => BatchInOrder
  <2> SUFFICES ASSUME Init PROVE BatchInOrder
    OBVIOUS
  <2>1. UnderWay = {}
    BY DEF Init, UnderWay, Roots
  <2>2. Cardinality(UnderWay) <= MaxParallel
    BY <2>1, FS_EmptySet, TreeAssumption
  <2>3. QED
    BY <2>2 DEF Init, BatchInOrder, Roots
<1>2. Inv /\ BatchInOrder /\ [Next]_vars => BatchInOrder'
  BY BatchStep
<1>3. QED
  BY <1>1, <1>2, Inductive, PTL DEF Spec

\* Every call is one of the batch or below one.
LEMMA RootAbove ==
  ASSUME NEW c \in Call PROVE \E r \in Roots : c \in InTree(r)
<1> DEFINE T == {Above[a] : a \in Above[c] \cup {c}}
<1>1. T \subseteq FiniteSubsetsOf(Call) /\ T # {}
  <2>1. T \subseteq SUBSET Call /\ T # {}
    BY AboveAreCalls
  <2>2. FiniteSubsetsOf(Call) = SUBSET Call
    BY TreeAssumption, FS_FiniteSubsetsOfFinite
  <2>3. QED
    BY <2>1, <2>2
<1> HIDE DEF T
<1>2. PICK m \in T : \A y \in T : <<y, m>> \notin StrictSubsetOrdering(Call)
  BY <1>1, FS_StrictSubsetOrderingWellFounded, WFMin
<1>3. PICK a \in Above[c] \cup {c} : m = Above[a]
  BY DEF T
<1>4. a \in Call /\ Above[a] \subseteq Above[c]
  BY <1>3, AboveAreCalls, AboveTransitive
<1>5. ASSUME Parent[a] # 0 PROVE FALSE
  <2>1. Parent[a] \in Call /\ Parent[a] \in Above[a]
    BY <1>4, <1>5, TreeAssumption DEF Above
  <2>2. Above[Parent[a]] \subseteq Above[a] /\ Parent[a] \notin Above[Parent[a]]
    BY <1>4, <2>1, AboveTransitive, AboveIsBefore
  <2>3. Above[Parent[a]] \in T
    BY <1>4, <2>1 DEF T
  <2>4. <<Above[Parent[a]], Above[a]>> \in StrictSubsetOrdering(Call)
    BY <1>4, <2>1, <2>2, AboveAreCalls DEF StrictSubsetOrdering
  <2>5. QED
    BY <1>2, <1>3, <2>3, <2>4
<1>6. a \in Roots /\ c \in InTree(a)
  BY <1>3, <1>4, <1>5 DEF Roots, InTree
<1>7. QED
  BY <1>6

\* scheduleBatch and close: however calls nest, suspend one another and are cancelled,
\* nothing outside the tree of an unsafe call of the batch is under way beside anything in it.
THEOREM BarrierStays == Spec => []BarrierHolds
<1>1. Inv /\ BatchInOrder => BarrierHolds
  <2> SUFFICES ASSUME Inv, BatchInOrder, NEW u \in Roots \ Safe,
                      NEW b \in InTree(u), NEW c \in Call \ InTree(u),
                      phase[b] \notin {"new", "over"}, phase[c] \notin {"new", "over"}
               PROVE  FALSE
    BY DEF BarrierHolds
  <2>1. phase[u] \notin {"new", "over"}
    BY CallersAreWorking DEF InTree, Working
  <2>2. PICK r \in Roots : c \in InTree(r)
    BY RootAbove
  <2>3. r # u /\ phase[r] \notin {"new", "over"}
    BY <2>2, CallersAreWorking DEF InTree, Working
  <2>4. r \in Nat /\ u \in Nat
    BY TreeAssumption DEF Roots
  <2>5. CASE r < u
    BY <2>1, <2>3, <2>5 DEF BatchInOrder
  <2>6. CASE u < r
    BY <2>1, <2>3, <2>6 DEF BatchInOrder
  <2>7. QED
    BY <2>3, <2>4, <2>5, <2>6
<1>2. QED
  BY <1>1, BatchStaysInOrder, PTL
=============================================================================
