-------------------------- MODULE TreeBudgetProofs --------------------------
(***************************************************************************)
(* What holds of TreeBudget for every tree of tasks, every set of calls    *)
(* and every quote: the columns of a scope are the sums they stand for, no *)
(* cap is overspent, and the callers close their books.                    *)
(***************************************************************************)
EXTENDS TreeBudget, FiniteSetTheorems, FunctionTheorems, TLAPS

-----------------------------------------------------------------------------
(* Sums over calls.                                                        *)

Cell(c, n) == {c} \X (1 .. n[c])

LEMMA CellSize ==
  ASSUME NEW c, NEW n, n[c] \in Nat
  PROVE  IsFiniteSet(Cell(c, n)) /\ Cardinality(Cell(c, n)) = n[c]
<1>1. IsFiniteSet({c}) /\ Cardinality({c}) = 1
  BY FS_Singleton
<1>2. IsFiniteSet(1 .. n[c]) /\ Cardinality(1 .. n[c]) = n[c]
  <2> DEFINE k == n[c]
  <2>1. k \in Int /\ 1 \in Int /\ k >= 0
    OBVIOUS
  <2> HIDE DEF k
  <2>2. IsFiniteSet(1 .. k) /\ Cardinality(1 .. k) = IF 1 > k THEN 0 ELSE k - 1 + 1
    BY <2>1, FS_Interval
  <2>3. Cardinality(1 .. k) = k
    BY <2>1, <2>2
  <2>4. QED
    BY <2>2, <2>3 DEF k
<1> DEFINE one == {c}
           units == 1 .. n[c]
<1>3. IsFiniteSet(one \X units) /\ Cardinality(one \X units) = Cardinality(one) * Cardinality(units)
  <2> HIDE DEF one, units
  <2>1. QED
    BY <1>1, <1>2, FS_Product DEF one, units
<1>4. Cardinality(one) * Cardinality(units) = n[c]
  BY <1>1, <1>2
<1>5. QED
  BY <1>3, <1>4 DEF Cell

\* The units of finitely many calls can be counted.
LEMMA UnitsFinite ==
  ASSUME NEW C \in SUBSET Call, NEW n, \A c \in C : n[c] \in Nat
  PROVE  /\ IsFiniteSet(UNION {{c} \X (1 .. n[c]) : c \in C})
         /\ Units(C, n) \in Nat
<1> DEFINE cells == {Cell(c, n) : c \in C}
           f == [c \in C |-> Cell(c, n)]
<1>1. IsFiniteSet(C)
  BY FS_Subset, CallAssumption
<1>2. f \in Surjection(C, cells)
  BY DEF Surjection
<1>3. IsFiniteSet(cells)
  <2> HIDE DEF f, cells
  <2>1. QED
    BY <1>1, <1>2, FS_Surjection
<1>4. \A T \in cells : IsFiniteSet(T)
  BY CellSize
<1>5. IsFiniteSet(UNION cells)
  <2> HIDE DEF cells
  <2>1. QED
    BY <1>3, <1>4, FS_UNION
<1>6. IsFiniteSet(UNION {{c} \X (1 .. n[c]) : c \in C})
  BY <1>5 DEF Cell
<1>7. QED
  BY <1>6, FS_CardinalityType DEF Units

\* A further call adds its amount to the sum.
LEMMA UnitsAdd ==
  ASSUME NEW C \in SUBSET Call, NEW d \in Call \ C, NEW n, \A c \in C \cup {d} : n[c] \in Nat
  PROVE  Units(C \cup {d}, n) = Units(C, n) + n[d]
<1> DEFINE S == UNION {{c} \X (1 .. n[c]) : c \in C}
           T == Cell(d, n)
<1>1. IsFiniteSet(S) /\ Units(C, n) = Cardinality(S) /\ Cardinality(S) \in Nat
  BY UnitsFinite DEF Units
<1>2. IsFiniteSet(T) /\ Cardinality(T) = n[d]
  BY CellSize
<1>3. S \cap T = {}
  BY DEF Cell
<1>4. UNION {{c} \X (1 .. n[c]) : c \in C \cup {d}} = S \cup T
  BY DEF Cell
<1>5. Cardinality(S \cup T) = Cardinality(S) + Cardinality(T) - Cardinality(S \cap T)
  <2> HIDE DEF S, T
  <2>1. QED
    BY <1>1, <1>2, FS_Union
<1>6. Cardinality(S \cap T) = 0
  <2> HIDE DEF S, T
  <2>1. QED
    BY <1>3, FS_EmptySet
<1>7. Units(C \cup {d}, n) = Cardinality(S \cup T)
  BY <1>4 DEF Units
<1> HIDE DEF S, T
<1>8. QED
  BY <1>1, <1>2, <1>5, <1>6, <1>7

\* Without one of its calls a sum is smaller by the call's amount.
LEMMA UnitsRemove ==
  ASSUME NEW C \in SUBSET Call, NEW d \in C, NEW n, \A c \in C : n[c] \in Nat
  PROVE  /\ Units(C \ {d}, n) = Units(C, n) - n[d]
         /\ n[d] <= Units(C, n)
<1>1. (C \ {d}) \cup {d} = C
  OBVIOUS
<1>2. Units(C, n) = Units(C \ {d}, n) + n[d]
  BY <1>1, UnitsAdd, C \ {d} \in SUBSET Call, d \in Call \ (C \ {d})
<1>3. Units(C \ {d}, n) \in Nat /\ n[d] \in Nat
  BY UnitsFinite, C \ {d} \in SUBSET Call
<1>4. QED
  BY <1>2, <1>3

\* A sum depends on the amounts of its own calls.
LEMMA UnitsSame ==
  ASSUME NEW C \in SUBSET Call, NEW n, NEW m, \A c \in C : n[c] = m[c]
  PROVE  Units(C, n) = Units(C, m)
<1>1. {{c} \X (1 .. n[c]) : c \in C} = {{c} \X (1 .. m[c]) : c \in C}
  OBVIOUS
<1>2. QED
  BY <1>1 DEF Units

LEMMA UnitsEmpty == ASSUME NEW n PROVE Units({}, n) = 0
<1>1. UNION {{c} \X (1 .. n[c]) : c \in {}} = {}
  OBVIOUS
<1>2. QED
  BY <1>1, FS_EmptySet DEF Units

-----------------------------------------------------------------------------
(* The store. Its transactions keep the columns equal to the sums, as long *)
(* as a reservation and its cost origin agree and a scope that a task      *)
(* spends from exists.                                                     *)

StoreType ==
  /\ chain \in [Task -> SUBSET Task]
  /\ cap \in [Task -> Nat] /\ settled \in [Task -> Nat] /\ held \in [Task -> Nat]
  /\ res \in [Call -> {"none", "held", "settled", "released", "unknown"}]
  /\ origin \in [Call -> Nat \cup {Unknown, Unset}]

Scopes ==
  /\ \A t \in Task : \A s \in chain[t] : s \in chain[s]
  /\ \A c \in Call : res[c] # "none" => Covers(c) # {}

Binding ==
  \A c \in Call :
    /\ res[c] \in {"none", "held", "released"} => origin[c] = Unset
    /\ res[c] = "settled" => origin[c] \in Nat
    /\ res[c] = "unknown" => origin[c] # Unset

Ledger == Scopes /\ Binding /\ HeldIsOwed /\ SettledIsSpent /\ CapHolds

\* What the sums range over.
LEMMA SumsAreFinite ==
  ASSUME StoreType, NEW s \in Task
  PROVE  /\ Holders(s) \in SUBSET Call /\ \A c \in Holders(s) : Quote[c] \in Nat
         /\ Charged(s) \in SUBSET Call /\ \A c \in Charged(s) : origin[c] \in Nat
         /\ Overrun(s) \in SUBSET Call /\ \A c \in Overrun(s) : Excess[c] \in Nat
<1>1. \A c \in Call : Quote[c] \in Nat
  BY CallAssumption
<1>2. Charged(s) \in SUBSET Call /\ \A c \in Charged(s) : origin[c] \in Nat
  BY DEF Charged, StoreType, Unknown, Unset
<1>3. Overrun(s) \in SUBSET Call /\ \A c \in Overrun(s) : Excess[c] \in Nat
  BY <1>1, <1>2 DEF Overrun, Excess
<1>4. QED
  BY <1>1, <1>2, <1>3 DEF Holders

\* A scope holds at least the quote of each call that it owes.
LEMMA HolderIsCovered ==
  ASSUME StoreType, HeldIsOwed, NEW s \in Task, NEW c \in Holders(s)
  PROVE  /\ held[s] >= Quote[c] /\ Quote[c] \in Nat
         /\ Units(Holders(s) \ {c}, Quote) = held[s] - Quote[c]
<1>1. Holders(s) \in SUBSET Call /\ \A d \in Holders(s) : Quote[d] \in Nat
  BY SumsAreFinite
<1>2. Units(Holders(s) \ {c}, Quote) = Units(Holders(s), Quote) - Quote[c] /\ Quote[c] <= Units(Holders(s), Quote)
  BY <1>1, UnitsRemove
<1>3. held[s] = Units(Holders(s), Quote) /\ held[s] \in Nat
  BY DEF HeldIsOwed, StoreType
<1>4. QED
  BY <1>1, <1>2, <1>3

\* reserve adds the quote to every scope, and only where it fits.
LEMMA HoldKeeps ==
  ASSUME StoreType, Ledger, NEW c \in Call, res[c] = "none", Covers(c) # {}, Fits(c),
         Hold(c), UNCHANGED <<chain, cap>>
  PROVE  StoreType' /\ Ledger'
<1>1. Quote[c] \in Nat /\ Covers(c) \subseteq Task
  BY CallAssumption DEF Covers, StoreType
<1>2. StoreType'
  BY <1>1 DEF StoreType, Hold, Add
<1>3. \A d \in Call : Covers(d)' = Covers(d)
  BY DEF Covers
<1>4. Scopes' /\ Binding'
  BY <1>3 DEF Ledger, Scopes, Binding, Hold, StoreType
<1>5. ASSUME NEW s \in Task
      PROVE  /\ Charged(s)' = Charged(s) /\ Overrun(s)' = Overrun(s) /\ Excess' = Excess
             /\ settled'[s] = settled[s] /\ cap'[s] = cap[s]
  BY <1>3 DEF Charged, Overrun, Excess, Hold
<1>6. ASSUME NEW s \in Covers(c)
      PROVE  held'[s] = held[s] + Quote[c] /\ Holders(s)' = Holders(s) \cup {c} /\ c \notin Holders(s)
  BY <1>1, <1>3 DEF Hold, Add, Holders, StoreType
<1>7. ASSUME NEW s \in Task \ Covers(c)
      PROVE  held'[s] = held[s] /\ Holders(s)' = Holders(s)
  BY <1>3 DEF Hold, Add, Holders, StoreType
<1>8. HeldIsOwed'
  <2> SUFFICES ASSUME NEW s \in Task PROVE held'[s] = Units(Holders(s)', Quote)
    BY DEF HeldIsOwed
  <2>1. held[s] = Units(Holders(s), Quote)
    BY DEF Ledger, HeldIsOwed
  <2>2. CASE s \in Covers(c)
    <3>1. Units(Holders(s) \cup {c}, Quote) = Units(Holders(s), Quote) + Quote[c]
      BY <1>1, <1>6, <2>2, SumsAreFinite, UnitsAdd
    <3>2. QED
      BY <1>6, <2>1, <2>2, <3>1
  <2>3. CASE s \notin Covers(c)
    BY <1>7, <2>1, <2>3
  <2>4. QED
    BY <2>2, <2>3
<1>9. SettledIsSpent'
  BY <1>5 DEF Ledger, SettledIsSpent, Hold
<1>10. CapHolds'
  <2> SUFFICES ASSUME NEW s \in Task, s \in chain[s]
               PROVE  settled'[s] + held'[s] <= cap'[s] + Units(Overrun(s)', Excess')
    BY DEF CapHolds
  <2>1. settled[s] + held[s] <= cap[s] + Units(Overrun(s), Excess)
    BY DEF Ledger, CapHolds
  <2>2. settled[s] \in Nat /\ held[s] \in Nat /\ cap[s] \in Nat /\ Units(Overrun(s), Excess) \in Nat
    BY SumsAreFinite, UnitsFinite DEF StoreType
  <2>3. CASE s \in Covers(c)
    BY <1>1, <1>5, <1>6, <2>2, <2>3 DEF Fits
  <2>4. CASE s \notin Covers(c)
    BY <1>5, <1>7, <2>1, <2>4
  <2>5. QED
    BY <2>3, <2>4
<1>11. QED
  BY <1>2, <1>4, <1>8, <1>9, <1>10 DEF Ledger

\* releaseReservation takes a held quote out of every scope, and no balance goes negative.
LEMMA GiveBackKeeps ==
  ASSUME StoreType, Ledger, NEW c \in Call, GiveBack(c), UNCHANGED <<chain, cap>>
  PROVE  StoreType' /\ Ledger'
<1>0. CASE res[c] # "held"
  BY <1>0 DEF GiveBack, storeVars, StoreType, Ledger, Scopes, Binding, HeldIsOwed, SettledIsSpent,
              CapHolds, Holders, Charged, Overrun, Excess, Covers
<1> SUFFICES ASSUME res[c] = "held" PROVE StoreType' /\ Ledger'
  BY <1>0
<1>1. Quote[c] \in Nat /\ Covers(c) \subseteq Task
  BY CallAssumption DEF Covers, StoreType
<1>3. \A d \in Call : Covers(d)' = Covers(d)
  BY DEF Covers
<1>4. Scopes' /\ Binding'
  BY <1>3 DEF Ledger, Scopes, Binding, GiveBack, StoreType
<1>5. ASSUME NEW s \in Task
      PROVE  /\ Charged(s)' = Charged(s) /\ Overrun(s)' = Overrun(s) /\ Excess' = Excess
             /\ settled'[s] = settled[s] /\ cap'[s] = cap[s]
  BY <1>3 DEF Charged, Overrun, Excess, GiveBack
<1>6. ASSUME NEW s \in Covers(c)
      PROVE  held'[s] = held[s] - Quote[c] /\ Holders(s)' = Holders(s) \ {c} /\ c \in Holders(s)
             /\ held[s] >= Quote[c]
  <2>1. c \in Holders(s)
    BY DEF Holders
  <2>2. held[s] >= Quote[c]
    BY <1>1, <2>1, HolderIsCovered DEF Ledger
  <2>3. held'[s] = held[s] - Quote[c]
    BY <1>1 DEF GiveBack, Add
  <2>4. Holders(s)' = Holders(s) \ {c}
    BY <1>3 DEF GiveBack, Holders, StoreType
  <2>5. QED
    BY <2>1, <2>2, <2>3, <2>4
<1>7. ASSUME NEW s \in Task \ Covers(c)
      PROVE  held'[s] = held[s] /\ Holders(s)' = Holders(s)
  BY <1>3 DEF GiveBack, Add, Holders, StoreType
<1>2. StoreType'
  <2>1. \A s \in Task : held'[s] \in Nat
    BY <1>1, <1>6, <1>7 DEF StoreType
  <2>2. held' = [s \in Task |-> held'[s]]
    BY DEF GiveBack, Add
  <2>3. held' \in [Task -> Nat]
    BY <2>1, <2>2
  <2>4. QED
    BY <2>3 DEF StoreType, GiveBack
<1>8. HeldIsOwed'
  <2> SUFFICES ASSUME NEW s \in Task PROVE held'[s] = Units(Holders(s)', Quote)
    BY DEF HeldIsOwed
  <2>1. CASE s \in Covers(c)
    <3>1. Units(Holders(s) \ {c}, Quote) = held[s] - Quote[c]
      BY <1>6, <2>1, HolderIsCovered DEF Ledger
    <3>2. QED
      BY <1>6, <2>1, <3>1
  <2>2. CASE s \notin Covers(c)
    BY <1>7, <2>2 DEF Ledger, HeldIsOwed
  <2>3. QED
    BY <2>1, <2>2
<1>9. SettledIsSpent'
  BY <1>5 DEF Ledger, SettledIsSpent, GiveBack
<1>10. CapHolds'
  <2> SUFFICES ASSUME NEW s \in Task, s \in chain[s]
               PROVE  settled'[s] + held'[s] <= cap'[s] + Units(Overrun(s)', Excess')
    BY DEF CapHolds
  <2>1. settled[s] + held[s] <= cap[s] + Units(Overrun(s), Excess)
    BY DEF Ledger, CapHolds
  <2>2. settled[s] \in Nat /\ held[s] \in Nat /\ cap[s] \in Nat /\ Units(Overrun(s), Excess) \in Nat
    BY SumsAreFinite, UnitsFinite DEF StoreType
  <2>3. CASE s \in Covers(c)
    BY <1>1, <1>5, <1>6, <2>1, <2>2, <2>3
  <2>4. CASE s \notin Covers(c)
    BY <1>5, <1>7, <2>1, <2>4
  <2>5. QED
    BY <2>3, <2>4
<1>11. QED
  BY <1>2, <1>4, <1>8, <1>9, <1>10 DEF Ledger

\* A held reservation has no cost origin yet, and its settlement is not refused:
\* settleOrigin's "held balance would go negative" is not reached.
LEMMA HeldIsCharged ==
  ASSUME StoreType, Ledger, NEW c \in Call, res[c] = "held"
  PROVE  origin[c] = Unset /\ ~Refuses(c)
<1>1. origin[c] = Unset
  BY DEF Ledger, Binding
<1>2. \A s \in Covers(c) : s \in Task /\ c \in Holders(s)
  BY CallAssumption DEF Holders, Covers, StoreType
<1>3. \A s \in Covers(c) : held[s] >= Quote[c] /\ held[s] \in Nat /\ Quote[c] \in Nat
  BY <1>2, HolderIsCovered DEF Ledger, StoreType
<1>4. QED
  BY <1>1, <1>3 DEF Refuses

\* A charge that takes effect: of a cost that was not reported, or of one that was.
LEMMA UnreportedKeeps ==
  ASSUME StoreType, Ledger, NEW c \in Call, res[c] = "held", actual[c] = Unknown,
         Charge(c), UNCHANGED <<chain, cap>>
  PROVE  StoreType' /\ Ledger'
<1>1. /\ origin' = [origin EXCEPT ![c] = Unknown] /\ res' = [res EXCEPT ![c] = "unknown"]
      /\ settled' = settled /\ held' = held
  BY HeldIsCharged DEF Charge
<1>2. StoreType'
  BY <1>1 DEF StoreType
<1>3. \A d \in Call : Covers(d)' = Covers(d)
  BY DEF Covers
<1>4. Scopes' /\ Binding'
  BY <1>1, <1>3 DEF Ledger, Scopes, Binding, StoreType, Unset, Unknown
<1>5. origin[c] = Unset
  BY HeldIsCharged
<1>6. ASSUME NEW s \in Task
      PROVE  Holders(s)' = Holders(s) /\ Charged(s)' = Charged(s) /\ Overrun(s)' = Overrun(s)
  <2>1. Holders(s)' = Holders(s)
    BY <1>1, <1>3 DEF Holders, StoreType
  <2>2. Charged(s)' = Charged(s)
    BY <1>1, <1>3, <1>5 DEF Charged, StoreType, Unset, Unknown
  <2>3. Overrun(s)' = Overrun(s)
    BY <1>1, <1>5, <2>2 DEF Overrun, Charged, StoreType, Unset, Unknown
  <2>4. QED
    BY <2>1, <2>2, <2>3
<1>7. ASSUME NEW s \in Task
      PROVE  /\ Units(Charged(s), origin') = Units(Charged(s), origin)
             /\ Units(Overrun(s), Excess') = Units(Overrun(s), Excess)
  <2>1. c \notin Charged(s)
    BY <1>5 DEF Charged, Unset
  <2>2. \A d \in Charged(s) : origin'[d] = origin[d]
    BY <1>1, <2>1 DEF StoreType, Charged
  <2>3. \A d \in Overrun(s) : Excess'[d] = Excess[d]
    BY <2>2 DEF Overrun, Excess, Charged
  <2>4. QED
    BY <2>2, <2>3, UnitsSame, SumsAreFinite
<1>8. QED
  BY <1>1, <1>2, <1>4, <1>6, <1>7 DEF Ledger, HeldIsOwed, SettledIsSpent, CapHolds

LEMMA ReportedKeeps ==
  ASSUME StoreType, Ledger, NEW c \in Call, res[c] = "held", actual[c] \in Nat,
         Charge(c), UNCHANGED <<chain, cap>>
  PROVE  StoreType' /\ Ledger'
<1>1. /\ origin' = [origin EXCEPT ![c] = actual[c]]
      /\ res' = [res EXCEPT ![c] = IF Overruns(c) THEN "unknown" ELSE "settled"]
      /\ settled' = Add(settled, c, actual[c]) /\ held' = Drop(held, c)
  BY HeldIsCharged DEF Charge, Unknown
<1>2. Quote[c] \in Nat /\ Covers(c) \subseteq Task /\ origin[c] = Unset
  BY CallAssumption, HeldIsCharged DEF Covers, StoreType
<1>3. StoreType'
  BY <1>1, <1>2 DEF StoreType, Add, Drop
<1>4. \A d \in Call : Covers(d)' = Covers(d)
  BY DEF Covers
<1>5. Scopes' /\ Binding'
  BY <1>1, <1>4 DEF Ledger, Scopes, Binding, StoreType, Unset
<1>6. ASSUME NEW s \in Task
      PROVE  /\ c \notin Charged(s) /\ c \notin Overrun(s)
             /\ Units(Charged(s), origin') = Units(Charged(s), origin)
             /\ Units(Overrun(s), Excess') = Units(Overrun(s), Excess)
  <2>1. c \notin Charged(s) /\ c \notin Overrun(s)
    BY <1>2 DEF Charged, Overrun, Unset
  <2>2. \A d \in Charged(s) : origin'[d] = origin[d]
    BY <1>1, <2>1 DEF StoreType, Charged
  <2>3. \A d \in Overrun(s) : Excess'[d] = Excess[d]
    BY <2>2 DEF Overrun, Excess, Charged
  <2>4. QED
    BY <2>1, <2>2, <2>3, UnitsSame, SumsAreFinite
<1>7. ASSUME NEW s \in Task \ Covers(c)
      PROVE  /\ held'[s] = held[s] /\ settled'[s] = settled[s]
             /\ Holders(s)' = Holders(s) /\ Charged(s)' = Charged(s) /\ Overrun(s)' = Overrun(s)
  <2>1. held'[s] = held[s] /\ settled'[s] = settled[s]
    BY <1>1 DEF Add, Drop
  <2>2. Holders(s)' = Holders(s)
    BY <1>1, <1>4 DEF Holders, StoreType
  <2>3. Charged(s)' = Charged(s)
    BY <1>1, <1>4 DEF Charged, StoreType
  <2>4. Overrun(s)' = Overrun(s)
    BY <1>1, <1>4 DEF Charged, Overrun, StoreType
  <2>5. QED
    BY <2>1, <2>2, <2>3, <2>4
<1>8. ASSUME NEW s \in Covers(c)
      PROVE  /\ held'[s] = held[s] - Quote[c] /\ settled'[s] = settled[s] + actual[c]
             /\ c \in Holders(s) /\ Holders(s)' = Holders(s) \ {c} /\ held[s] >= Quote[c]
             /\ Charged(s)' = Charged(s) \cup {c}
             /\ Overrun(s)' = IF Overruns(c) THEN Overrun(s) \cup {c} ELSE Overrun(s)
  <2>1. c \in Holders(s) /\ s \in Task
    BY <1>2 DEF Holders
  <2>2. held[s] >= Quote[c]
    BY <2>1, HolderIsCovered DEF Ledger
  <2>3. held'[s] = held[s] - Quote[c] /\ settled'[s] = settled[s] + actual[c]
    BY <1>1, <2>1, <2>2 DEF Add, Drop
  <2>4. Holders(s)' = Holders(s) \ {c}
    BY <1>1, <1>4 DEF Holders, StoreType, Unknown
  <2>5. Charged(s)' = Charged(s) \cup {c}
    BY <1>1, <1>4 DEF Charged, StoreType
  <2>6. Overrun(s)' = IF Overruns(c) THEN Overrun(s) \cup {c} ELSE Overrun(s)
    BY <1>1, <1>4, <1>6, <2>1, <2>5 DEF Overrun, Overruns, StoreType, Charged
  <2>7. QED
    BY <2>1, <2>2, <2>3, <2>4, <2>5, <2>6
<1>9. HeldIsOwed'
  <2> SUFFICES ASSUME NEW s \in Task PROVE held'[s] = Units(Holders(s)', Quote)
    BY DEF HeldIsOwed
  <2>1. CASE s \in Covers(c)
    BY <1>8, <2>1, HolderIsCovered DEF Ledger
  <2>2. CASE s \notin Covers(c)
    BY <1>7, <2>2 DEF Ledger, HeldIsOwed
  <2>3. QED
    BY <2>1, <2>2
<1>10. SettledIsSpent'
  <2> SUFFICES ASSUME NEW s \in Task PROVE settled'[s] = Units(Charged(s)', origin')
    BY DEF SettledIsSpent
  <2>1. settled[s] = Units(Charged(s), origin)
    BY DEF Ledger, SettledIsSpent
  <2>2. CASE s \in Covers(c)
    <3>1. \A d \in Charged(s) \cup {c} : origin'[d] \in Nat
      BY <1>1, SumsAreFinite DEF StoreType
    <3>2. Units(Charged(s) \cup {c}, origin') = Units(Charged(s), origin') + origin'[c]
      BY <1>6, <3>1, SumsAreFinite, UnitsAdd
    <3>3. origin'[c] = actual[c]
      BY <1>1 DEF StoreType
    <3>4. QED
      BY <1>6, <1>8, <2>1, <2>2, <3>2, <3>3
  <2>3. CASE s \notin Covers(c)
    BY <1>6, <1>7, <2>1, <2>3
  <2>4. QED
    BY <2>2, <2>3
<1>11. CapHolds'
  <2> SUFFICES ASSUME NEW s \in Task, s \in chain[s]
               PROVE  settled'[s] + held'[s] <= cap[s] + Units(Overrun(s)', Excess')
    BY DEF CapHolds
  <2>1. settled[s] + held[s] <= cap[s] + Units(Overrun(s), Excess)
    BY DEF Ledger, CapHolds
  <2>2. settled[s] \in Nat /\ held[s] \in Nat /\ cap[s] \in Nat /\ Units(Overrun(s), Excess) \in Nat
    BY SumsAreFinite, UnitsFinite DEF StoreType
  <2>3. CASE s \in Covers(c) /\ Overruns(c)
    <3>1. Excess'[c] = actual[c] - Quote[c] /\ Excess'[c] \in Nat
      BY <1>1, <1>2, <2>3 DEF Excess, Overruns, StoreType
    <3>2. \A d \in Overrun(s) : Excess'[d] = Excess[d]
      BY <1>1, <1>6 DEF Excess, StoreType, Overrun, Charged
    <3>3. \A d \in Overrun(s) \cup {c} : Excess'[d] \in Nat
      BY <3>1, <3>2, SumsAreFinite
    <3>4. Units(Overrun(s) \cup {c}, Excess') = Units(Overrun(s), Excess') + Excess'[c]
      BY <1>6, <3>3, SumsAreFinite, UnitsAdd
    <3>5. Units(Overrun(s)', Excess') = Units(Overrun(s), Excess) + (actual[c] - Quote[c])
      BY <1>6, <1>8, <2>3, <3>1, <3>4
    <3>6. held'[s] = held[s] - Quote[c] /\ settled'[s] = settled[s] + actual[c]
      BY <1>8, <2>3
    <3>7. QED
      BY <1>2, <2>1, <2>2, <3>5, <3>6
  <2>4. CASE s \in Covers(c) /\ ~Overruns(c)
    <3>1. actual[c] <= Quote[c]
      BY <1>2, <2>4 DEF Overruns
    <3>2. QED
      BY <1>2, <1>6, <1>8, <2>1, <2>2, <2>4, <3>1
  <2>5. CASE s \notin Covers(c)
    BY <1>6, <1>7, <2>1, <2>5
  <2>6. QED
    BY <2>3, <2>4, <2>5
<1>12. QED
  BY <1>3, <1>5, <1>9, <1>10, <1>11 DEF Ledger

\* settleOrigin keeps the books, whether it charges, refuses or finds its origin.
LEMMA ChargeKeeps ==
  ASSUME StoreType, Ledger, NEW c \in Call, res[c] # "none", actual[c] \in Nat \cup {Unknown},
         Charge(c), UNCHANGED <<chain, cap>>
  PROVE  StoreType' /\ Ledger'
<1>1. CASE res[c] = "held"
  BY <1>1, UnreportedKeeps, ReportedKeeps
<1>2. CASE res[c] # "held"
  <2>1. origin[c] # Unset \/ Refuses(c)
    BY <1>2 DEF Ledger, Binding, Refuses, StoreType
  <2>2. UNCHANGED storeVars
    BY <2>1 DEF Charge
  <2>3. QED
    BY <2>2 DEF storeVars, StoreType, Ledger, Scopes, Binding, HeldIsOwed, SettledIsSpent,
                CapHolds, Holders, Charged, Overrun, Excess, Covers
<1>3. QED
  BY <1>1, <1>2

\* createDelegatedChild opens an empty scope that nobody spent from before.
LEMMA CreateKeeps ==
  ASSUME StoreType, Ledger, NEW t \in Task, NEW k \in ChildCaps \cup {Unknown}, CreateChild(t, k)
  PROVE  StoreType' /\ Ledger'
<1>1. /\ t # Root /\ chain[t] = {} /\ Parent[t] \in Task
      /\ settled' = settled /\ held' = held /\ res' = res /\ origin' = origin
      /\ chain' = [chain EXCEPT ![t] = chain[Parent[t]] \cup (IF k = Unknown THEN {} ELSE {t})]
      /\ cap' = [cap EXCEPT ![t] = IF k = Unknown THEN 0 ELSE k]
  BY TreeAssumption DEF CreateChild, storeVars
<1>2. StoreType'
  BY <1>1, TreeAssumption DEF StoreType
<1>3. \A c \in Call : TaskOf[c] = t => res[c] = "none" /\ origin[c] = Unset
  BY <1>1 DEF Ledger, Scopes, Binding, Covers
<1>4. \A c \in Call : TaskOf[c] # t => Covers(c)' = Covers(c)
  BY <1>1, CallAssumption DEF Covers, StoreType
<1>5. \A s \in Task : t \notin chain[s]
  BY <1>1 DEF Ledger, Scopes
<1>6. Scopes'
  <2>1. ASSUME NEW u \in Task, NEW s \in chain'[u] PROVE s \in chain'[s]
    <3>1. CASE u # t
      <4>1. s \in chain[u] /\ s \in Task /\ s # t
        BY <1>1, <1>5, <3>1 DEF StoreType
      <4>2. s \in chain[s]
        BY <4>1 DEF Ledger, Scopes
      <4>3. QED
        BY <1>1, <4>1, <4>2 DEF StoreType
    <3>2. CASE u = t /\ s # t
      <4>1. s \in chain[Parent[t]] /\ s \in Task
        BY <1>1, <3>2 DEF StoreType
      <4>2. s \in chain[s]
        BY <1>1, <4>1 DEF Ledger, Scopes
      <4>3. QED
        BY <1>1, <3>2, <4>1, <4>2 DEF StoreType
    <3>3. CASE u = t /\ s = t
      BY <3>3
    <3>4. QED
      BY <3>1, <3>2, <3>3
  <2>2. \A c \in Call : res'[c] # "none" => Covers(c)' # {}
    BY <1>1, <1>3, <1>4 DEF Ledger, Scopes
  <2>3. QED
    BY <2>1, <2>2 DEF Scopes
<1>7. Binding'
  BY <1>1 DEF Ledger, Binding
<1>8. ASSUME NEW s \in Task
      PROVE  Holders(s)' = Holders(s) /\ Charged(s)' = Charged(s) /\ Overrun(s)' = Overrun(s)
  <2>1. \A c \in Call : c \in Holders(s)' <=> c \in Holders(s)
    BY <1>1, <1>3, <1>4 DEF Holders
  <2>2. \A c \in Call : c \in Charged(s)' <=> c \in Charged(s)
    BY <1>1, <1>3, <1>4 DEF Charged, Unset
  <2>3. Holders(s)' = Holders(s)
    BY <2>1 DEF Holders
  <2>4. Charged(s)' = Charged(s)
    BY <2>2 DEF Charged
  <2>5. QED
    BY <1>1, <2>3, <2>4 DEF Overrun
<1>9. HeldIsOwed' /\ SettledIsSpent'
  BY <1>1, <1>8 DEF Ledger, HeldIsOwed, SettledIsSpent
<1>10. CapHolds'
  <2> SUFFICES ASSUME NEW s \in Task, s \in chain'[s]
               PROVE  settled[s] + held[s] <= cap'[s] + Units(Overrun(s)', Excess')
    BY <1>1 DEF CapHolds
  <2>0. Excess' = Excess
    BY <1>1 DEF Excess
  <2>1. CASE s # t
    BY <1>1, <1>8, <2>0, <2>1 DEF Ledger, CapHolds, StoreType
  <2>2. CASE s = t
    <3>1. Holders(t) = {} /\ Charged(t) = {}
      BY <1>5, CallAssumption DEF Holders, Charged, Covers
    <3>2. settled[t] = 0 /\ held[t] = 0
      BY <3>1, UnitsEmpty DEF Ledger, HeldIsOwed, SettledIsSpent
    <3>3. cap'[t] \in Nat /\ Units(Overrun(t), Excess) \in Nat
      BY <1>2, SumsAreFinite, UnitsFinite DEF StoreType
    <3>4. QED
      BY <1>8, <2>0, <2>2, <3>2, <3>3
  <2>3. QED
    BY <2>1, <2>2
<1>11. QED
  BY <1>2, <1>6, <1>7, <1>9, <1>10 DEF Ledger

-----------------------------------------------------------------------------
(* The callers: what each place in a call says about its reservation.      *)

Done(c) == origin[c] = actual[c]

Stage(c) ==
  /\ pc[c] = "idle" => res[c] = "none"
  /\ pc[c] \in {"reserved", "sent", "answered", "deferred", "recorded", "again"} => res[c] = "held"
  /\ pc[c] \in {"idle", "reserved", "sent", "answered", "deferred"} => c \notin row
  /\ pc[c] \in {"idle", "reserved"} => c \notin sent
  /\ c \in row => c \in sent
  /\ pc[c] \in {"sent", "answered", "deferred", "recorded", "again", "peek"} => c \in sent
  /\ pc[c] \in {"again", "peek"} => Kind[c] = "core" /\ res[c] # "none"
  /\ pc[c] = "peek" => Done(c) \/ (res[c] = "held" /\ faults[c] > 0)
  /\ pc[c] = "again" => faults[c] > 0
  /\ pc[c] = "deferred" => faults[c] > 0
  /\ pc[c] = "refund" =>
       IF c \in sent THEN Kind[c] = "request" /\ (faults[c] > 0 \/ Done(c))
                     ELSE res[c] = "held"
  /\ res[c] = "released" => c \notin sent \/ (Kind[c] = "request" /\ faults[c] > 0)
  /\ pc[c] = "over" =>
       /\ faults[c] = 0 => IF c \in sent THEN Done(c) ELSE res[c] \in {"none", "released"}
       /\ Kind[c] = "core" /\ c \in row /\ faults[c] <= 1 => Done(c)

Stages == \A c \in Call : Stage(c)

LiveSpends == \A t \in Task : Live(t) => chain[t] # {}

\* The inductive invariant.
IInv == TypeOK /\ Ledger /\ LiveSpends /\ Stages

CallType ==
  /\ active \subseteq Task
  /\ pc \in [Call -> {"idle", "reserved", "sent", "answered", "deferred", "recorded",
                      "peek", "again", "refund", "over"}]
  /\ actual \in [Call -> Nat \cup {Unknown}]
  /\ sent \subseteq Call /\ row \subseteq Call
  /\ faults \in [Call -> 0..MaxFaults]

LEMMA Types == TypeOK <=> StoreType /\ CallType
  BY DEF TypeOK, StoreType, CallType

LEMMA TypesNext == TypeOK' <=> StoreType' /\ CallType'
  BY DEF TypeOK, StoreType, CallType

\* A step of call c leaves the other calls where they are.
Frame(c) ==
  /\ UNCHANGED treeVars
  /\ \A d \in Call \ {c} :
       /\ pc'[d] = pc[d] /\ res'[d] = res[d] /\ origin'[d] = origin[d]
       /\ actual'[d] = actual[d] /\ faults'[d] = faults[d]
       /\ d \in sent' <=> d \in sent
       /\ d \in row' <=> d \in row

LEMMA CallStep ==
  ASSUME IInv, NEW c \in Call, StoreType', CallType', Ledger', Frame(c), Stage(c)'
  PROVE  IInv'
<1>1. ASSUME NEW d \in Call \ {c} PROVE Stage(d)'
  <2>1. Stage(d)
    BY DEF IInv, Stages
  <2>2. /\ pc'[d] = pc[d] /\ res'[d] = res[d] /\ origin'[d] = origin[d]
        /\ actual'[d] = actual[d] /\ faults'[d] = faults[d]
        /\ d \in sent' <=> d \in sent
        /\ d \in row' <=> d \in row
    BY DEF Frame
  <2>3. QED
    BY <2>1, <2>2 DEF Stage, Done
<1>2. Stages'
  BY <1>1 DEF Stages
<1>3. LiveSpends'
  BY DEF IInv, LiveSpends, Live, Frame, treeVars
<1>4. QED
  BY <1>2, <1>3, TypesNext DEF IInv

\* The store is left alone.
LEMMA Unbooked ==
  ASSUME StoreType, Ledger, UNCHANGED <<chain, cap, storeVars>>
  PROVE  StoreType' /\ Ledger'
  BY DEF storeVars, StoreType, Ledger, Scopes, Binding, HeldIsOwed, SettledIsSpent,
         CapHolds, Holders, Charged, Overrun, Excess, Covers

\* A transaction on one reservation leaves the others alone.
LEMMA StoreFrame ==
  ASSUME StoreType, NEW c \in Call,
         UNCHANGED storeVars \/ Hold(c) \/ GiveBack(c) \/ Charge(c)
  PROVE  \A d \in Call \ {c} : res'[d] = res[d] /\ origin'[d] = origin[d]
  BY DEF StoreType, storeVars, Hold, GiveBack, Charge

\* What settling a call that holds its quote does.
LEMMA ChargeEffect ==
  ASSUME StoreType, Ledger, NEW c \in Call, res[c] = "held", actual[c] \in Nat \cup {Unknown},
         Charge(c)
  PROVE  origin'[c] = actual[c] /\ res'[c] \in {"settled", "unknown"}
<1>1. origin[c] = Unset /\ ~Refuses(c)
  BY HeldIsCharged
<1>2. QED
  BY <1>1 DEF Charge, StoreType

LEMMA InitOk == Init => IInv
<1> SUFFICES ASSUME Init PROVE IInv
  OBVIOUS
<1> USE TreeAssumption, CallAssumption
<1>1. TypeOK
  BY DEF Init, TypeOK, Unknown, Unset
<1>2. Scopes /\ Binding
  BY DEF Init, Scopes, Binding, Unset
<1>3. ASSUME NEW s \in Task PROVE Holders(s) = {} /\ Charged(s) = {} /\ Overrun(s) = {}
  BY DEF Init, Holders, Charged, Overrun, Unset
<1>4. HeldIsOwed /\ SettledIsSpent
  BY <1>3, UnitsEmpty DEF Init, HeldIsOwed, SettledIsSpent
<1>5. CapHolds
  <2>1. \A s \in Task : Units(Overrun(s), Excess) = 0
    BY <1>3, UnitsEmpty
  <2>2. \A s \in Task : settled[s] = 0 /\ held[s] = 0 /\ cap[s] \in Nat
    BY <1>1 DEF Init, TypeOK
  <2>3. QED
    BY <2>1, <2>2 DEF CapHolds
<1>6. Stages /\ LiveSpends
  BY DEF Init, Stages, Stage, LiveSpends, Live
<1>7. QED
  BY <1>1, <1>2, <1>4, <1>5, <1>6 DEF IInv, Ledger

-----------------------------------------------------------------------------
(* The steps. *)

\* What the invariant says of one call.
LEMMA AtCall ==
  ASSUME IInv, NEW c \in Call
  PROVE  /\ StoreType /\ CallType /\ Ledger /\ Stage(c)
         /\ actual[c] \in Nat \cup {Unknown} /\ faults[c] \in Nat
         /\ MaxFaults \in Nat /\ MaxFaults > 1
  BY Types, CallAssumption DEF IInv, Stages, CallType

\* A failure is counted.
LEMMA MeetsCounts ==
  ASSUME CallType, NEW c \in Call, Meets(c)
  PROVE  /\ faults' \in [Call -> 0..MaxFaults] /\ faults'[c] = faults[c] + 1 /\ faults[c] \in Nat
         /\ \A d \in Call \ {c} : faults'[d] = faults[d]
  BY CallAssumption DEF CallType, Meets

LEMMA ReserveOk == ASSUME IInv, NEW c \in Call, Reserve(c) PROVE IInv'
<1>1. /\ StoreType /\ CallType /\ Ledger /\ Stage(c)
  BY AtCall
<1>2. UNCHANGED <<chain, active, cap, actual, sent, row, faults>>
  BY DEF Reserve, Same, treeVars
<1>3. pc[c] = "idle" /\ res[c] = "none" /\ origin[c] = Unset
  BY <1>1 DEF Reserve, Goto, Stage, Ledger, Binding
<1>4. CASE Fits(c)
  <2>1. Hold(c) /\ Goto(c, "idle", "reserved")
    BY <1>4 DEF Reserve
  <2>2. Covers(c) # {}
    BY CallAssumption DEF IInv, LiveSpends, Reserve, Covers
  <2>3. StoreType' /\ Ledger'
    BY <1>1, <1>2, <1>3, <1>4, <2>1, <2>2, HoldKeeps
  <2>4. CallType' /\ Frame(c)
    BY <1>1, <1>2, <2>1, StoreFrame DEF CallType, Frame, Goto, treeVars
  <2>5. Stage(c)'
    BY <1>1, <1>2, <1>3, <2>1 DEF Stage, Goto, CallType, StoreType, Hold, Done
  <2>6. QED
    BY <2>3, <2>4, <2>5, CallStep
<1>5. CASE ~Fits(c)
  <2>1. UNCHANGED storeVars /\ Goto(c, "idle", "over")
    BY <1>5 DEF Reserve
  <2>2. StoreType' /\ Ledger'
    BY <1>1, <1>2, <2>1, Unbooked
  <2>3. CallType' /\ Frame(c)
    BY <1>1, <1>2, <2>1, StoreFrame DEF CallType, Frame, Goto, treeVars
  <2>4. Stage(c)'
    BY <1>1, <1>2, <1>3, <2>1 DEF Stage, Goto, CallType, storeVars, Done
  <2>5. QED
    BY <2>2, <2>3, <2>4, CallStep
<1>6. QED
  BY <1>4, <1>5

LEMMA ReserveLostOk == ASSUME IInv, NEW c \in Call, ReserveLost(c) PROVE IInv'
<1>1. /\ StoreType /\ CallType /\ Ledger /\ Stage(c)
  BY AtCall
<1>2. /\ UNCHANGED <<chain, active, cap, actual, sent, row>>
      /\ Hold(c) /\ Goto(c, "idle", "over") /\ Meets(c) /\ Fits(c)
  BY DEF ReserveLost, Same, treeVars
<1>3. pc[c] = "idle" /\ res[c] = "none" /\ c \notin row /\ c \notin sent
  BY <1>1, <1>2 DEF Goto, Stage
<1>4. Covers(c) # {}
  BY CallAssumption DEF IInv, LiveSpends, ReserveLost, Covers
<1>5. StoreType' /\ Ledger'
  BY <1>1, <1>2, <1>3, <1>4, HoldKeeps
<1>6. CallType' /\ Frame(c)
  BY <1>1, <1>2, StoreFrame, MeetsCounts DEF CallType, Frame, Goto, treeVars
<1>7. Stage(c)'
  <2>1. pc'[c] = "over" /\ res'[c] = "held" /\ faults'[c] > 0 /\ c \notin row' /\ c \notin sent'
    BY <1>1, <1>2, <1>3, MeetsCounts DEF Goto, CallType, StoreType, Hold
  <2>2. QED
    BY <2>1 DEF Stage
<1>8. QED
  BY <1>5, <1>6, <1>7, CallStep

LEMMA CallOffOk == ASSUME IInv, NEW c \in Call, CallOff(c) PROVE IInv'
<1>1. /\ StoreType /\ CallType /\ Ledger /\ Stage(c)
  BY AtCall
<1>2. UNCHANGED <<chain, active, cap, settled, held, res, origin, actual, sent, row, faults>>
  BY DEF CallOff, Same, treeVars, storeVars
<1>3. StoreType' /\ Ledger'
  BY <1>1, <1>2, Unbooked DEF storeVars
<1>4. CallType' /\ Frame(c)
  BY <1>1, <1>2 DEF CallOff, CallType, Frame, Goto, treeVars
<1>5. Stage(c)'
  BY <1>1, <1>2 DEF CallOff, Stage, Goto, CallType, Done
<1>6. QED
  BY <1>3, <1>4, <1>5, CallStep

LEMMA SendOk == ASSUME IInv, NEW c \in Call, Send(c) PROVE IInv'
<1>1. /\ StoreType /\ CallType /\ Ledger /\ Stage(c)
  BY AtCall
<1>2. UNCHANGED <<chain, active, cap, settled, held, res, origin, actual, row, faults>>
  BY DEF Send, Same, treeVars, storeVars
<1>3. StoreType' /\ Ledger'
  BY <1>1, <1>2, Unbooked DEF storeVars
<1>4. CallType' /\ Frame(c)
  BY <1>1, <1>2 DEF Send, CallType, Frame, Goto, treeVars
<1>5. Stage(c)'
  BY <1>1, <1>2 DEF Send, Stage, Goto, CallType, Done
<1>6. QED
  BY <1>3, <1>4, <1>5, CallStep

LEMMA AnswerOk == ASSUME IInv, NEW c \in Call, NEW a \in Actuals \cup {Unknown}, Answer(c, a) PROVE IInv'
<1>1. /\ StoreType /\ CallType /\ Ledger /\ Stage(c)
  BY AtCall
<1>2. UNCHANGED <<chain, active, cap, settled, held, res, origin, sent, row, faults>>
  BY DEF Answer, Same, treeVars, storeVars
<1>3. StoreType' /\ Ledger'
  BY <1>1, <1>2, Unbooked DEF storeVars
<1>4. CallType' /\ Frame(c)
  BY <1>1, <1>2, CallAssumption DEF Answer, CallType, Frame, Goto, treeVars
<1>5. Stage(c)'
  <2>1. pc[c] = "sent" /\ pc'[c] = "answered" /\ res'[c] = res[c]
    BY <1>1, <1>2 DEF Answer, Goto, CallType
  <2>2. QED
    BY <1>1, <1>2, <2>1 DEF Stage
<1>6. QED
  BY <1>3, <1>4, <1>5, CallStep

LEMMA AppendOk == ASSUME IInv, NEW c \in Call, Append(c) PROVE IInv'
<1>1. /\ StoreType /\ CallType /\ Ledger /\ Stage(c)
  BY AtCall
<1>2. UNCHANGED <<chain, active, cap, settled, held, res, origin, actual, sent, faults>>
  BY DEF Append, Same, treeVars, storeVars
<1>3. StoreType' /\ Ledger'
  BY <1>1, <1>2, Unbooked DEF storeVars
<1>4. CallType' /\ Frame(c)
  BY <1>1, <1>2 DEF Append, CallType, Frame, Goto, treeVars
<1>5. Stage(c)'
  BY <1>1, <1>2 DEF Append, Stage, Goto, CallType, Done
<1>6. QED
  BY <1>3, <1>4, <1>5, CallStep

LEMMA AppendFailsOk == ASSUME IInv, NEW c \in Call, AppendFails(c) PROVE IInv'
<1>1. /\ StoreType /\ CallType /\ Ledger /\ Stage(c)
  BY AtCall
<1>2. UNCHANGED <<chain, active, cap, settled, held, res, origin, actual, sent, row>>
  BY DEF AppendFails, Same, treeVars, storeVars
<1>3. StoreType' /\ Ledger'
  BY <1>1, <1>2, Unbooked DEF storeVars
<1>4. CallType' /\ Frame(c)
  <2>1. /\ pc' = [pc EXCEPT ![c] = CASE Kind[c] = "request" -> "refund"
                                     [] Kind[c] = "core" -> "over"
                                     [] Kind[c] = "turn" -> "deferred"]
        /\ Kind[c] \in Kinds /\ Meets(c)
    BY CallAssumption DEF AppendFails, Goto
  <2>2. pc' \in [Call -> {"idle", "reserved", "sent", "answered", "deferred", "recorded",
                          "peek", "again", "refund", "over"}]
    BY <1>1, <2>1 DEF CallType, Kinds
  <2>3. QED
    BY <1>1, <1>2, <2>1, <2>2, MeetsCounts DEF CallType, Frame, treeVars
<1>5. Stage(c)'
  <2>1. pc[c] = "answered" /\ faults'[c] > 0 /\ Kind[c] \in Kinds
    BY <1>1, CallAssumption, MeetsCounts DEF AppendFails, Goto
  <2>2. pc'[c] = CASE Kind[c] = "request" -> "refund"
                   [] Kind[c] = "core" -> "over"
                   [] Kind[c] = "turn" -> "deferred"
    BY <1>1 DEF AppendFails, Goto, CallType
  <2>3. QED
    BY <1>1, <1>2, <2>1, <2>2 DEF Stage, Kinds, Done
<1>6. QED
  BY <1>3, <1>4, <1>5, CallStep

LEMMA CloseTurnOk == ASSUME IInv, NEW c \in Call, CloseTurn(c) PROVE IInv'
<1>1. /\ StoreType /\ CallType /\ Ledger /\ Stage(c)
  BY AtCall
<1>2. UNCHANGED <<chain, active, cap, settled, held, res, origin, actual, sent, faults>>
  BY DEF CloseTurn, Same, treeVars, storeVars
<1>3. StoreType' /\ Ledger'
  BY <1>1, <1>2, Unbooked DEF storeVars
<1>4. CallType' /\ Frame(c)
  BY <1>1, <1>2 DEF CloseTurn, CallType, Frame, Goto, treeVars
<1>5. Stage(c)'
  BY <1>1, <1>2 DEF CloseTurn, Stage, Goto, CallType, Done
<1>6. QED
  BY <1>3, <1>4, <1>5, CallStep

LEMMA CloseTurnFailsOk == ASSUME IInv, NEW c \in Call, CloseTurnFails(c) PROVE IInv'
<1>1. /\ StoreType /\ CallType /\ Ledger /\ Stage(c)
  BY AtCall
<1>2. UNCHANGED <<chain, active, cap, settled, held, res, origin, actual, sent, row>>
  BY DEF CloseTurnFails, Same, treeVars, storeVars
<1>3. StoreType' /\ Ledger'
  BY <1>1, <1>2, Unbooked DEF storeVars
<1>4. CallType' /\ Frame(c)
  BY <1>1, <1>2, MeetsCounts DEF CloseTurnFails, CallType, Frame, Goto, treeVars
<1>5. Stage(c)'
  <2>1. pc[c] = "deferred" /\ pc'[c] = "over" /\ faults'[c] > 0
    BY <1>1, MeetsCounts DEF CloseTurnFails, Goto, CallType
  <2>2. QED
    BY <1>1, <1>2, <2>1 DEF Stage, Done
<1>6. QED
  BY <1>3, <1>4, <1>5, CallStep

LEMMA ReconcileOk == ASSUME IInv, NEW c \in Call, Reconcile(c) PROVE IInv'
<1>1. /\ StoreType /\ CallType /\ Ledger /\ Stage(c)
  BY AtCall
<1>2. UNCHANGED <<chain, active, cap, settled, held, res, origin, actual, sent, row, faults>>
  BY DEF Reconcile, Same, treeVars, storeVars
<1>3. StoreType' /\ Ledger'
  BY <1>1, <1>2, Unbooked DEF storeVars
<1>4. CallType' /\ Frame(c)
  BY <1>1, <1>2 DEF Reconcile, CallType, Frame, Goto, treeVars
<1>5. Stage(c)'
  <2>1. pc[c] = "peek" /\ pc'[c] = IF res[c] = "held" THEN "again" ELSE "over"
    BY <1>1 DEF Reconcile, Goto, CallType
  <2>2. res[c] = "held" => ~Done(c)
    BY <1>1, AtCall DEF Ledger, Binding, Done, Unset, Unknown
  <2>3. UNCHANGED Done(c)
    BY <1>2 DEF Done
  <2>4. QED
    BY <1>1, <1>2, <2>1, <2>2, <2>3 DEF Stage
<1>6. QED
  BY <1>3, <1>4, <1>5, CallStep

LEMMA ReconcileFailsOk == ASSUME IInv, NEW c \in Call, ReconcileFails(c) PROVE IInv'
<1>1. /\ StoreType /\ CallType /\ Ledger /\ Stage(c)
  BY AtCall
<1>2. UNCHANGED <<chain, active, cap, settled, held, res, origin, actual, sent, row>>
  BY DEF ReconcileFails, Same, treeVars, storeVars
<1>3. StoreType' /\ Ledger'
  BY <1>1, <1>2, Unbooked DEF storeVars
<1>4. CallType' /\ Frame(c)
  BY <1>1, <1>2, MeetsCounts DEF ReconcileFails, CallType, Frame, Goto, treeVars
<1>5. Stage(c)'
  <2>1. pc[c] = "peek" /\ pc'[c] = "over" /\ faults'[c] = faults[c] + 1 /\ faults[c] \in Nat
    BY <1>1, MeetsCounts DEF ReconcileFails, Goto, CallType
  <2>2. QED
    BY <1>1, <1>2, <2>1 DEF Stage, Done
<1>6. QED
  BY <1>3, <1>4, <1>5, CallStep

\* Settling, with or without an answer.
LEMMA SettleOk ==
  ASSUME IInv, NEW c \in Call, Settle(c) \/ SettleFails(c)
  PROVE  IInv'
<1>1. /\ StoreType /\ CallType /\ Ledger /\ Stage(c)
      /\ actual[c] \in Nat \cup {Unknown} /\ faults[c] \in Nat
  BY AtCall
<1>2. /\ UNCHANGED <<chain, active, cap, actual, sent, row>>
      /\ pc[c] \in {"recorded", "again"}
  BY DEF Settle, SettleFails, Same, treeVars
<1>3. /\ res[c] = "held" /\ c \in sent
      /\ pc[c] = "again" => Kind[c] = "core" /\ faults[c] > 0
  BY <1>1, <1>2 DEF Stage
<1>4. /\ UNCHANGED storeVars \/ Charge(c)
      /\ faults' \in [Call -> 0..MaxFaults] /\ \A d \in Call \ {c} : faults'[d] = faults[d]
      /\ faults'[c] \in {faults[c], faults[c] + 1}
      /\ faults'[c] = faults[c] => Charge(c)
  <2>1. CASE Settle(c)
    BY <1>1, <2>1 DEF Settle, CallType
  <2>2. CASE SettleFails(c)
    <3>1. (UNCHANGED storeVars \/ Charge(c)) /\ Meets(c)
      BY <2>2 DEF SettleFails
    <3>2. QED
      BY <1>1, <3>1, MeetsCounts
  <2>3. QED
    BY <2>1, <2>2
<1>5. StoreType' /\ Ledger'
  <2>1. CASE UNCHANGED storeVars
    BY <1>1, <1>2, <2>1, Unbooked
  <2>2. CASE Charge(c)
    BY <1>1, <1>2, <1>3, <2>2, ChargeKeeps
  <2>3. QED
    BY <1>4, <2>1, <2>2
<1>6. Done(c)' \/ (res'[c] = "held" /\ faults'[c] > 0)
  <2>1. CASE Charge(c)
    BY <1>1, <1>2, <1>3, <2>1, ChargeEffect DEF Done
  <2>2. CASE ~Charge(c)
    <3>1. faults'[c] = faults[c] + 1 /\ UNCHANGED storeVars
      BY <1>4, <2>2
    <3>2. QED
      BY <1>1, <1>3, <3>1 DEF storeVars
  <2>3. QED
    BY <2>1, <2>2
<1>7. res'[c] \in {"held", "settled", "unknown"}
  BY <1>1, <1>3, <1>4, ChargeEffect DEF storeVars
<1>8. PICK threw \in BOOLEAN : /\ Settled(c, threw)
                               /\ pc[c] = "again" /\ ~Charge(c) => faults'[c] > 1
                               /\ ~threw => Charge(c)
                               /\ ~Charge(c) => faults'[c] > 0
  <2>1. CASE Settle(c)
    BY <2>1 DEF Settle, ChargeThrows
  <2>2. CASE SettleFails(c)
    <3>1. Settled(c, TRUE) /\ faults'[c] = faults[c] + 1
      BY <1>1, <2>2, MeetsCounts DEF SettleFails
    <3>2. faults'[c] > 0 /\ (pc[c] = "again" => faults'[c] > 1)
      BY <1>1, <1>3, <3>1
    <3>3. QED
      BY <3>1, <3>2, TRUE \in BOOLEAN, Zenon
  <2>3. QED
    BY <2>1, <2>2
<1>9. /\ pc'[c] \in {"over", "refund", "peek"} /\ \A d \in Call \ {c} : pc'[d] = pc[d]
      /\ pc'[c] = "refund" => Kind[c] = "request"
      /\ pc'[c] = "peek" => Kind[c] = "core"
      /\ pc[c] = "recorded" /\ pc'[c] = "over" => Kind[c] # "core" \/ ~threw
      /\ pc' \in [Call -> {"idle", "reserved", "sent", "answered", "deferred", "recorded",
                          "peek", "again", "refund", "over"}]
  BY <1>1, <1>8 DEF Settled, Goto, CallType
<1>10. CallType' /\ Frame(c)
  BY <1>1, <1>2, <1>4, <1>9, StoreFrame DEF CallType, Frame, treeVars
<1>11. Stage(c)'
  <2>1. CASE pc'[c] = "over"
    <3>1. c \in sent' /\ (faults'[c] = 0 => Charge(c))
      BY <1>1, <1>2, <1>3, <1>8
    <3>2. Charge(c) => Done(c)'
      BY <1>1, <1>2, <1>3, ChargeEffect DEF Done
    <3>3. Kind[c] = "core" /\ faults'[c] <= 1 => Charge(c)
      BY <1>1, <1>2, <1>4, <1>8, <1>9, <2>1
    <3>4. QED
      BY <1>7, <2>1, <3>1, <3>2, <3>3 DEF Stage
  <2>2. CASE pc'[c] = "refund"
    BY <1>2, <1>3, <1>6, <1>7, <1>9, <2>2 DEF Stage
  <2>3. CASE pc'[c] = "peek"
    BY <1>2, <1>3, <1>6, <1>7, <1>9, <2>3 DEF Stage
  <2>4. QED
    BY <1>9, <2>1, <2>2, <2>3
<1>12. QED
  BY <1>5, <1>10, <1>11, CallStep

\* Releasing, with or without an answer.
LEMMA ReleaseOk ==
  ASSUME IInv, NEW c \in Call, Release(c) \/ ReleaseFails(c)
  PROVE  IInv'
<1>1. /\ StoreType /\ CallType /\ Ledger /\ Stage(c)
      /\ actual[c] \in Nat \cup {Unknown} /\ faults[c] \in Nat
  BY AtCall
<1>2. /\ UNCHANGED <<chain, active, cap, actual, sent, row>>
      /\ Goto(c, "refund", "over")
  BY DEF Release, ReleaseFails, Same, treeVars
<1>3. /\ UNCHANGED storeVars \/ GiveBack(c)
      /\ faults' \in [Call -> 0..MaxFaults] /\ \A d \in Call \ {c} : faults'[d] = faults[d]
      /\ faults'[c] \in {faults[c], faults[c] + 1}
      /\ faults'[c] = faults[c] => GiveBack(c)
  BY <1>1, MeetsCounts DEF Release, ReleaseFails, CallType
<1>4. StoreType' /\ Ledger'
  BY <1>1, <1>2, <1>3, Unbooked, GiveBackKeeps
<1>5. CallType' /\ Frame(c)
  BY <1>1, <1>2, <1>3, StoreFrame DEF CallType, Frame, treeVars, Goto
<1>6. /\ pc[c] = "refund" /\ pc'[c] = "over"
      /\ origin'[c] = origin[c] /\ (Done(c)' <=> Done(c))
      /\ res'[c] = res[c] \/ (res[c] = "held" /\ res'[c] = "released")
      /\ GiveBack(c) => res'[c] # "held"
  BY <1>1, <1>2, <1>3 DEF Goto, CallType, GiveBack, StoreType, storeVars, Done
<1>7. Stage(c)'
  <2>1. CASE c \in sent
    <3>1. Kind[c] = "request" /\ (faults[c] > 0 \/ Done(c))
      BY <1>1, <1>6, <2>1 DEF Stage
    <3>2. Done(c) => res[c] # "held"
      BY <1>1 DEF Ledger, Binding, Done, Unset, Unknown
    <3>3. res[c] = "released" => faults[c] > 0
      BY <1>1, <2>1 DEF Stage
    <3>4. faults'[c] = 0 => faults[c] = 0
      BY <1>1, <1>3
    <3>5. res'[c] = "released" => faults'[c] > 0
      BY <1>1, <1>3, <1>6, <3>1, <3>2, <3>3
    <3>6. QED
      BY <1>2, <1>6, <2>1, <3>1, <3>4, <3>5 DEF Stage
  <2>2. CASE c \notin sent
    <3>1. res[c] = "held" /\ (faults'[c] = 0 => GiveBack(c))
      BY <1>1, <1>3, <1>6, <2>2 DEF Stage
    <3>2. c \notin sent' /\ row' = row
      BY <1>2, <2>2
    <3>3. QED
      BY <1>1, <1>6, <2>2, <3>1, <3>2 DEF Stage
  <2>3. QED
    BY <2>1, <2>2
<1>8. QED
  BY <1>4, <1>5, <1>7, CallStep

\* A delegation touches no call.
LEMMA CreateChildOk ==
  ASSUME IInv, NEW t \in Task, NEW k \in ChildCaps \cup {Unknown}, CreateChild(t, k)
  PROVE  IInv'
<1>1. StoreType /\ CallType /\ Ledger
  BY Types DEF IInv
<1>2. StoreType' /\ Ledger'
  BY <1>1, CreateKeeps
<1>3. UNCHANGED <<res, origin, pc, actual, sent, row, faults>>
  BY DEF CreateChild, storeVars, callVars
<1>4. CallType' /\ Stages'
  BY <1>1, <1>3 DEF IInv, CallType, CreateChild, Stages, Stage, Done
<1>5. LiveSpends'
  <2>1. /\ chain[Parent[t]] # {} /\ t # Root /\ active' = active \cup {t}
        /\ chain' = [chain EXCEPT ![t] = chain[Parent[t]] \cup (IF k = Unknown THEN {} ELSE {t})]
    BY TreeAssumption DEF IInv, LiveSpends, CreateChild
  <2>2. QED
    BY <1>1, <2>1 DEF IInv, LiveSpends, Live, StoreType
<1>6. QED
  BY <1>2, <1>4, <1>5, TypesNext DEF IInv

\* A step that changes no more than which children are active.
LEMMA ActiveOk ==
  ASSUME IInv, \A t \in active' \ active : t \in Task /\ chain[t] # {},
         UNCHANGED <<chain, cap, storeVars, callVars>>
  PROVE  IInv'
<1>1. StoreType /\ CallType /\ Ledger
  BY Types DEF IInv
<1>2. StoreType' /\ Ledger'
  BY <1>1, Unbooked DEF storeVars
<1>3. CallType' /\ Stages' /\ LiveSpends'
  BY <1>1 DEF IInv, CallType, Stages, Stage, Done, LiveSpends, Live, storeVars, callVars
<1>4. QED
  BY <1>2, <1>3, TypesNext DEF IInv

LEMMA CrashOk == ASSUME IInv, Crash PROVE IInv'
<1>1. StoreType /\ CallType /\ Ledger /\ MaxFaults \in Nat /\ MaxFaults > 1
  BY Types, CallAssumption DEF IInv
<1>2. UNCHANGED <<chain, active, cap, settled, held, res, origin, actual, sent, row>>
  BY DEF Crash, Same, treeVars, storeVars
<1>3. StoreType' /\ Ledger'
  BY <1>1, <1>2, Unbooked DEF storeVars
<1>4. CallType'
  BY <1>1, <1>2 DEF Crash, CallType
<1>5. ASSUME NEW c \in Call PROVE Stage(c)'
  <2>1. Stage(c)
    BY DEF IInv, Stages
  <2>2. CASE c \notin Underway
    <3>1. pc'[c] = pc[c] /\ faults'[c] = faults[c]
      BY <2>2 DEF Crash
    <3>2. QED
      BY <1>2, <2>1, <3>1 DEF Stage, Done
  <2>3. CASE c \in Underway
    <3>1. pc'[c] = "over" /\ faults'[c] > 1
      BY <1>1, <2>3 DEF Crash
    <3>2. faults'[c] # 0 /\ ~(faults'[c] <= 1) /\ faults'[c] > 0
      BY <1>1, <2>3 DEF Crash
    <3>3. res[c] = "released" => c \notin sent' \/ (Kind[c] = "request" /\ faults'[c] > 0)
      BY <1>2, <2>1, <3>2 DEF Stage
    <3>4. c \in row' => c \in sent'
      BY <1>2, <2>1 DEF Stage
    <3>5. QED
      BY <1>2, <3>1, <3>2, <3>3, <3>4 DEF Stage
  <2>4. QED
    BY <2>2, <2>3
<1>6. LiveSpends'
  BY <1>2 DEF IInv, LiveSpends, Live
<1>7. QED
  BY <1>3, <1>4, <1>5, <1>6, TypesNext DEF IInv, Stages

LEMMA StepOk == ASSUME IInv, [Next]_vars PROVE IInv'
<1>1. ASSUME NEW c \in Call, Work(c) PROVE IInv'
  BY <1>1, ReserveOk, CallOffOk, SendOk, AnswerOk, AppendOk, CloseTurnOk, SettleOk,
     ReconcileOk, ReleaseOk DEF Work
<1>2. ASSUME NEW c \in Call, Fault(c) PROVE IInv'
  BY <1>2, ReserveLostOk, AppendFailsOk, CloseTurnFailsOk, SettleOk, ReconcileFailsOk,
     ReleaseOk DEF Fault
<1>3. ASSUME NEW t \in Task, RestChild(t) \/ ResumeChild(t) PROVE IInv'
  BY <1>3, ActiveOk DEF RestChild, ResumeChild
<1>4. ASSUME NEW t \in Task, NEW k \in ChildCaps \cup {Unknown}, CreateChild(t, k) PROVE IInv'
  BY <1>4, CreateChildOk
<1>5. CASE UNCHANGED vars
  BY <1>5, ActiveOk DEF vars, treeVars
<1>6. CASE Crash
  BY <1>6, CrashOk
<1>7. QED
  BY <1>1, <1>2, <1>3, <1>4, <1>5, <1>6 DEF Next

-----------------------------------------------------------------------------
(* The columns implement a list of the calls.                              *)

\* The fates, read off the store.
LEMMA FateValues ==
  ASSUME StoreType, Binding, NEW c \in Call
  PROVE  /\ Fate(c) = "new" <=> res[c] = "none"
         /\ Fate(c) = "freed" <=> res[c] = "released"
         /\ Fate(c) = "open" <=> res[c] = "held" \/ (res[c] = "unknown" /\ origin[c] = Unknown)
         /\ Fate(c) = "paid" <=> origin[c] \in Nat
<1>1. /\ res[c] \in {"none", "held", "settled", "released", "unknown"}
      /\ origin[c] \in Nat \cup {Unknown, Unset}
  BY DEF StoreType
<1>2. Unknown \notin Nat /\ Unset \notin Nat /\ Unknown # Unset
  BY DEF Unknown, Unset
<1>3. /\ res[c] \in {"none", "held", "released"} => origin[c] = Unset
      /\ res[c] = "settled" => origin[c] \in Nat
      /\ res[c] = "unknown" => origin[c] # Unset
  BY DEF Binding
<1>4. CASE res[c] \in {"none", "held", "released"}
  BY <1>2, <1>3, <1>4 DEF Fate
<1>5. CASE res[c] = "settled"
  BY <1>2, <1>3, <1>5 DEF Fate
<1>6. CASE res[c] = "unknown"
  BY <1>1, <1>2, <1>3, <1>6 DEF Fate
<1>7. QED
  BY <1>1, <1>4, <1>5, <1>6

\* The two columns of a scope are the load that the list gives.
LEMMA ColumnsAreLoad ==
  ASSUME StoreType, Ledger, NEW s \in Task
  PROVE  Books!Load(s) = settled[s] + held[s]
<1> DEFINE fates == [c \in Call |-> Fate(c)]
           costs == [c \in Call |-> CostOf(c)]
<1>1. Books!Below(s, "open") = Holders(s)
  BY FateValues DEF Books!Below, Holders, Covers, Ledger
<1>2. Books!Below(s, "paid") = Charged(s)
  <2>1. \A c \in Call : origin[c] >= 0 <=> origin[c] \in Nat
    BY DEF StoreType, Unknown, Unset
  <2>2. QED
    BY <2>1, FateValues DEF Books!Below, Charged, Covers, Ledger
<1>3. Books!Sum(Holders(s), Quote) = Units(Holders(s), Quote)
  BY DEF Books!Sum, Units, Books!Cardinality, Cardinality
<1>4. Books!Sum(Charged(s), costs) = Units(Charged(s), costs)
  BY DEF Books!Sum, Units, Books!Cardinality, Cardinality
<1>5. Units(Charged(s), costs) = Units(Charged(s), origin)
  <2>1. \A c \in Charged(s) : costs[c] = origin[c]
    BY SumsAreFinite DEF CostOf, Charged
  <2>2. QED
    BY <2>1, UnitsSame, SumsAreFinite
<1>6. held[s] = Units(Holders(s), Quote) /\ settled[s] = Units(Charged(s), origin)
  BY DEF Ledger, HeldIsOwed, SettledIsSpent
<1>7. Books!Load(s) = Books!Sum(Holders(s), Quote) + Books!Sum(Charged(s), costs)
  BY <1>1, <1>2 DEF Books!Load
<1>8. held[s] \in Nat /\ settled[s] \in Nat
  BY DEF StoreType
<1>9. QED
  BY <1>3, <1>4, <1>5, <1>6, <1>7, <1>8

\* So what fits by the columns fits by the list.
LEMMA RoomIsRoom ==
  ASSUME StoreType, Ledger, NEW S \in SUBSET Task, NEW n \in Nat
  PROVE  Books!HasRoom(S, n) <=> \A s \in S : settled[s] + held[s] + n <= cap[s]
<1>1. \A s \in S : Books!Load(s) = settled[s] + held[s]
  BY ColumnsAreLoad
<1>2. QED
  BY <1>1 DEF Books!HasRoom

\* A step of the books, or none.
BookStep == [Books!Next]_<<chain, cap, [c \in Call |-> Fate(c)], [c \in Call |-> CostOf(c)]>>

LEMMA BooksUntouched ==
  ASSUME UNCHANGED <<chain, cap, res, origin>>
  PROVE  BookStep
<1>1. \A c \in Call : Fate(c)' = Fate(c) /\ CostOf(c)' = CostOf(c)
  BY DEF Fate, CostOf
<1>2. QED
  BY <1>1 DEF BookStep

\* reserve opens a call.
LEMMA HoldOpens ==
  ASSUME StoreType, Ledger, NEW c \in Call, res[c] = "none", Covers(c) # {}, Fits(c),
         Hold(c), UNCHANGED <<chain, cap>>
  PROVE  BookStep
<1>1. origin' = origin /\ res' = [res EXCEPT ![c] = "held"]
  BY DEF Hold
<1>2. Fate(c) = "new" /\ Fate(c)' = "open"
  BY <1>1 DEF Fate, StoreType
<1>3. \A d \in Call \ {c} : Fate(d)' = Fate(d)
  BY <1>1 DEF Fate, StoreType
<1>4. \A d \in Call : CostOf(d)' = CostOf(d)
  BY <1>1 DEF CostOf
<1>5. Covers(c) \in SUBSET Task /\ Quote[c] \in Nat
  BY CallAssumption DEF Covers, StoreType
<1>6. Books!HasRoom(chain[TaskOf[c]], Quote[c])
  BY <1>5, RoomIsRoom DEF Fits, Covers
<1>7. [d \in Call |-> Fate(d)]' = [[d \in Call |-> Fate(d)] EXCEPT ![c] = "open"]
  BY <1>2, <1>3
<1>8. [d \in Call |-> CostOf(d)]' = [d \in Call |-> CostOf(d)]
  BY <1>4
<1>9. [d \in Call |-> Fate(d)][c] = "new" /\ chain[TaskOf[c]] # {}
  BY <1>2 DEF Covers
<1>10. Books!Open(c)
  BY <1>6, <1>7, <1>8, <1>9 DEF Books!Open
<1>11. QED
  BY <1>10 DEF BookStep, Books!Next

\* releaseReservation frees an open call, or finds nothing to give back.
LEMMA GiveBackFrees ==
  ASSUME StoreType, Ledger, NEW c \in Call, GiveBack(c), UNCHANGED <<chain, cap>>
  PROVE  BookStep
<1>1. CASE res[c] # "held"
  BY <1>1, BooksUntouched DEF GiveBack, storeVars
<1>2. CASE res[c] = "held"
  <2>1. origin' = origin /\ res' = [res EXCEPT ![c] = "released"]
    BY <1>2 DEF GiveBack
  <2>2. Fate(c) = "open" /\ Fate(c)' = "freed"
    BY <1>2, <2>1 DEF Fate, StoreType
  <2>3. \A d \in Call \ {c} : Fate(d)' = Fate(d)
    BY <2>1 DEF Fate, StoreType
  <2>4. \A d \in Call : CostOf(d)' = CostOf(d)
    BY <2>1 DEF CostOf
  <2>5. [d \in Call |-> Fate(d)]' = [[d \in Call |-> Fate(d)] EXCEPT ![c] = "freed"]
    BY <2>2, <2>3
  <2>6. [d \in Call |-> CostOf(d)]' = [d \in Call |-> CostOf(d)]
    BY <2>4
  <2>7. [d \in Call |-> Fate(d)][c] = "open"
    BY <2>2
  <2>8. Books!Free(c)
    BY <2>5, <2>6, <2>7 DEF Books!Free
  <2>9. QED
    BY <2>8 DEF BookStep, Books!Next
<1>3. QED
  BY <1>1, <1>2

\* settleOrigin pays an open call, or leaves the books as they are: it does so when the
\* call was settled or released before, and when the cost was not reported.
LEMMA ChargePays ==
  ASSUME StoreType, Ledger, NEW c \in Call, res[c] # "none", actual[c] \in Nat \cup {Unknown},
         Charge(c), UNCHANGED <<chain, cap>>
  PROVE  BookStep
<1>1. CASE res[c] # "held"
  <2>1. origin[c] # Unset \/ Refuses(c)
    BY <1>1 DEF Ledger, Binding, Refuses, StoreType
  <2>2. QED
    BY <2>1, BooksUntouched DEF Charge, storeVars
<1>2. ASSUME res[c] = "held"
      PROVE  /\ origin' = [origin EXCEPT ![c] = actual[c]]
             /\ res' = [res EXCEPT ![c] = IF actual[c] = Unknown \/ Overruns(c)
                                          THEN "unknown" ELSE "settled"]
             /\ origin[c] = Unset
             /\ \A d \in Call \ {c} : Fate(d)' = Fate(d) /\ CostOf(d)' = CostOf(d)
  <2>1. origin[c] = Unset /\ ~Refuses(c)
    BY <1>2, HeldIsCharged
  <2>2. /\ origin' = [origin EXCEPT ![c] = actual[c]]
        /\ res' = [res EXCEPT ![c] = IF actual[c] = Unknown \/ Overruns(c)
                                     THEN "unknown" ELSE "settled"]
    BY <2>1 DEF Charge
  <2>3. \A d \in Call \ {c} : res'[d] = res[d] /\ origin'[d] = origin[d]
    BY <2>2 DEF StoreType
  <2>4. \A d \in Call \ {c} : Fate(d)' = Fate(d) /\ CostOf(d)' = CostOf(d)
    BY <2>3 DEF Fate, CostOf
  <2>5. QED
    BY <2>1, <2>2, <2>4
<1>3. CASE res[c] = "held" /\ actual[c] = Unknown
  <2>1. res'[c] = "unknown" /\ origin'[c] = Unknown /\ origin[c] = Unset
    BY <1>2, <1>3 DEF StoreType
  <2>2. Fate(c)' = Fate(c) /\ CostOf(c)' = CostOf(c)
    BY <1>3, <2>1 DEF Fate, CostOf, Unknown, Unset
  <2>3. \A d \in Call : Fate(d)' = Fate(d) /\ CostOf(d)' = CostOf(d)
    BY <1>2, <1>3, <2>2
  <2>4. QED
    BY <2>3 DEF BookStep
<1>4. CASE res[c] = "held" /\ actual[c] \in Nat
  <2>1. origin'[c] = actual[c] /\ res'[c] \in {"unknown", "settled"}
    BY <1>2, <1>4 DEF StoreType
  <2>2. Fate(c) = "open" /\ Fate(c)' = "paid" /\ CostOf(c)' = actual[c]
    BY <1>4, <2>1 DEF Fate, CostOf, Unknown
  <2>3. \A d \in Call \ {c} : Fate(d)' = Fate(d) /\ CostOf(d)' = CostOf(d)
    BY <1>2, <1>4
  <2>4. [d \in Call |-> Fate(d)]' = [[d \in Call |-> Fate(d)] EXCEPT ![c] = "paid"]
    BY <2>2, <2>3
  <2>5. [d \in Call |-> CostOf(d)]' = [[d \in Call |-> CostOf(d)] EXCEPT ![c] = actual[c]]
    BY <2>2, <2>3
  <2>6. [d \in Call |-> Fate(d)][c] = "open"
    BY <2>2
  <2>7. Books!Pay(c, actual[c])
    BY <2>4, <2>5, <2>6 DEF Books!Pay
  <2>8. QED
    BY <1>4, <2>7 DEF BookStep, Books!Next
<1>5. QED
  BY <1>1, <1>3, <1>4

\* createDelegatedChild shares its parent's scopes, or grants what all of them have left.
LEMMA CreateGrants ==
  ASSUME StoreType, Ledger, NEW t \in Task, NEW k \in ChildCaps \cup {Unknown}, CreateChild(t, k)
  PROVE  BookStep
<1>1. /\ t # Root /\ chain[t] = {} /\ Parent[t] \in Task /\ chain[Parent[t]] \in SUBSET Task
      /\ res' = res /\ origin' = origin
      /\ chain' = [chain EXCEPT ![t] = chain[Parent[t]] \cup (IF k = Unknown THEN {} ELSE {t})]
      /\ cap' = [cap EXCEPT ![t] = IF k = Unknown THEN 0 ELSE k]
  BY TreeAssumption DEF CreateChild, storeVars, StoreType
<1>2. \A c \in Call : Fate(c)' = Fate(c) /\ CostOf(c)' = CostOf(c)
  BY <1>1 DEF Fate, CostOf
<1>3. /\ [d \in Call |-> Fate(d)]' = [d \in Call |-> Fate(d)]
      /\ [d \in Call |-> CostOf(d)]' = [d \in Call |-> CostOf(d)]
  BY <1>2
<1>4. CASE k = Unknown
  <2>1. chain' = [chain EXCEPT ![t] = chain[Parent[t]]] /\ cap' = [cap EXCEPT ![t] = 0]
    BY <1>1, <1>4
  <2>2. Books!Share(t)
    BY <1>1, <1>3, <2>1 DEF Books!Share
  <2>3. QED
    BY <2>2 DEF BookStep, Books!Next
<1>5. CASE k # Unknown
  <2>1. k \in Nat /\ \A s \in chain[Parent[t]] : k <= Remaining(s)
    BY <1>5, TreeAssumption DEF CreateChild
  <2>2. \A s \in chain[Parent[t]] : settled[s] + held[s] + k <= cap[s]
    BY <1>1, <2>1 DEF Remaining, StoreType
  <2>3. Books!HasRoom(chain[Parent[t]], k)
    BY <1>1, <2>1, <2>2, RoomIsRoom
  <2>4. /\ chain' = [chain EXCEPT ![t] = chain[Parent[t]] \cup {t}]
        /\ cap' = [cap EXCEPT ![t] = k]
    BY <1>1, <1>5
  <2>5. Books!Grant(t, k)
    BY <1>1, <1>3, <2>3, <2>4 DEF Books!Grant
  <2>6. QED
    BY <2>1, <2>5 DEF BookStep, Books!Next
<1>6. QED
  BY <1>4, <1>5

LEMMA CallBooks ==
  ASSUME IInv, NEW c \in Call, Work(c) \/ Fault(c)
  PROVE  BookStep
<1>1. /\ StoreType /\ CallType /\ Ledger /\ Stage(c) /\ actual[c] \in Nat \cup {Unknown}
  BY AtCall
<1>2. ASSUME Reserve(c) \/ ReserveLost(c) PROVE BookStep
  <2>1. /\ UNCHANGED <<chain, cap>> /\ pc[c] = "idle" /\ res[c] = "none"
        /\ (Fits(c) /\ Hold(c)) \/ UNCHANGED storeVars
    BY <1>1, <1>2 DEF Reserve, ReserveLost, Same, treeVars, Goto, Stage
  <2>2. Covers(c) # {}
    BY <1>2, CallAssumption DEF IInv, LiveSpends, Reserve, ReserveLost, Covers
  <2>3. QED
    BY <1>1, <2>1, <2>2, HoldOpens, BooksUntouched DEF storeVars
<1>3. ASSUME Settle(c) \/ SettleFails(c) PROVE BookStep
  <2>1. /\ UNCHANGED <<chain, cap>> /\ pc[c] \in {"recorded", "again"}
        /\ UNCHANGED storeVars \/ Charge(c)
    BY <1>3 DEF Settle, SettleFails, Same, treeVars
  <2>2. res[c] # "none"
    BY <1>1, <2>1 DEF Stage
  <2>3. QED
    BY <1>1, <2>1, <2>2, ChargePays, BooksUntouched DEF storeVars
<1>4. ASSUME Release(c) \/ ReleaseFails(c) PROVE BookStep
  <2>1. UNCHANGED <<chain, cap>> /\ (UNCHANGED storeVars \/ GiveBack(c))
    BY <1>4 DEF Release, ReleaseFails, Same, treeVars
  <2>2. QED
    BY <1>1, <2>1, GiveBackFrees, BooksUntouched DEF storeVars
<1>5. ASSUME \/ CallOff(c) \/ Send(c) \/ (\E a \in Actuals \cup {Unknown} : Answer(c, a))
             \/ Append(c) \/ CloseTurn(c) \/ Reconcile(c)
             \/ AppendFails(c) \/ CloseTurnFails(c) \/ ReconcileFails(c)
      PROVE  BookStep
  <2>1. UNCHANGED <<chain, cap, res, origin>>
    BY <1>5 DEF CallOff, Send, Answer, Append, CloseTurn, Reconcile, AppendFails, CloseTurnFails,
                ReconcileFails, Same, treeVars, storeVars
  <2>2. QED
    BY <2>1, BooksUntouched
<1>6. QED
  BY <1>2, <1>3, <1>4, <1>5 DEF Work, Fault

LEMMA StepBooks == ASSUME IInv, [Next]_vars PROVE BookStep
<1>1. StoreType /\ Ledger
  BY Types DEF IInv
<1>2. ASSUME NEW c \in Call, Work(c) \/ Fault(c) PROVE BookStep
  BY <1>2, CallBooks
<1>3. ASSUME NEW t \in Task, NEW k \in ChildCaps \cup {Unknown}, CreateChild(t, k) PROVE BookStep
  BY <1>1, <1>3, CreateGrants
<1>4. ASSUME NEW t \in Task, RestChild(t) \/ ResumeChild(t) PROVE BookStep
  BY <1>4, BooksUntouched DEF RestChild, ResumeChild, storeVars
<1>5. CASE Crash \/ UNCHANGED vars
  BY <1>5, BooksUntouched DEF Crash, Same, treeVars, storeVars, vars
<1>6. QED
  BY <1>2, <1>3, <1>4, <1>5 DEF Next

LEMMA InitBooks == Init => Books!Init
<1> SUFFICES ASSUME Init PROVE Books!Init
  OBVIOUS
<1>1. \A c \in Call : Fate(c) = "new" /\ CostOf(c) = 0
  BY DEF Init, Fate, CostOf, Unset
<1>2. QED
  BY <1>1 DEF Init, Books!Init

-----------------------------------------------------------------------------
(* The theorems.                                                           *)

LEMMA Invariance == Spec => []IInv
<1>1. QED
  BY InitOk, StepOk, PTL DEF Spec

\* Every column and every caller stays within its type, whatever the tree, the calls and
\* their quotes (the tables of child-control-sqlite.ts): no balance goes negative.
THEOREM TypeCorrect == Spec => []TypeOK
<1>1. IInv => TypeOK
  BY DEF IInv
<1>2. QED
  BY <1>1, Invariance, PTL

\* The held column of every scope is the quotes of the calls that may still spend it
\* (reserve, settleOrigin, releaseReservation), and its settled column the recorded costs
\* of the calls below it, each counted once (settleOrigin's cost origins).
THEOREM BooksAlwaysBalance == Spec => []BooksBalance
<1>1. IInv => BooksBalance
  BY DEF IInv, Ledger, BooksBalance
<1>2. QED
  BY <1>1, Invariance, PTL

\* No scope of any tree is overspent by more than its calls exceeded their quotes (fitsCap).
THEOREM CapsHold == Spec => []CapHolds
<1>1. IInv => CapHolds
  BY DEF IInv, Ledger
<1>2. QED
  BY <1>1, Invariance, PTL

\* A call that met no failure leaves its books closed, and a core call's reconciliation
\* repairs one failed settlement (session-side-call.ts, maintenance/budget.ts).  Only a
\* request whose own accounting failed gives back the hold of a call that was sent.
THEOREM BooksAlwaysClose == Spec => []BooksClose
<1>1. IInv => CallsAreClosed
  BY DEF IInv, Stages, Stage, Done, CallsAreClosed
<1>2. sent \subseteq Call /\ Stages => SentIsNotRefunded
  BY DEF Stages, Stage, SentIsNotRefunded
<1>3. IInv => BooksClose
  BY <1>1, <1>2 DEF IInv, TypeOK, BooksClose
<1>4. QED
  BY <1>3, Invariance, PTL

\* Columns that are added to and subtracted from (Drop's floor at zero included), settlements
\* that are lost, repeated or refused and callers that die do what BudgetTree says of a list of
\* all the calls: reserve and createDelegatedChild admit exactly what the costs of the paid and
\* the quotes of the open calls leave room for, and a call is paid once or given back once.
THEOREM BooksAreKept == Spec => BooksSpec
<1>1. IInv /\ [Next]_vars => BookStep
  BY StepBooks
<1>2. QED
  BY <1>1, Invariance, InitBooks, PTL DEF Spec, BooksSpec, Books!Spec, BookStep
=============================================================================
