----------------------------- MODULE TreeBudget -----------------------------
(* The budget a turn shares with the children it delegates to: the scopes,   *)
(* reservations and cost origins of the child-control store                 *)
(* (child-control-sqlite.ts), and the callers that hold a quote before a     *)
(* provider call and settle it against the cost row they append.             *)
(*                                                                           *)
(* Every store call is one transaction. It may also fail before it commits,  *)
(* or commit and lose its answer; a process may die between any two steps.   *)
EXTENDS Integers, FiniteSets

CONSTANTS
  Task,       \* the root turn and the children delegated below it
  Root,       \* the root turn
  Parent,     \* the delegating task of each child
  RootCap,    \* tree budget of the preset, in microcredits
  ChildCaps,  \* budgets a delegation may name
  MaxFanOut,  \* active children a parent, and a root, may have
  Call,       \* provider calls
  TaskOf,     \* the task whose scopes a call is held against
  Kind,       \* which caller makes the call
  Quote,      \* the conservative cost a call reserves
  Actuals,    \* costs a provider may report
  MaxFaults   \* failures one call may meet (a bound of the model)

Kinds == {"request", "core", "turn"}
Unknown == -1    \* a cost the provider did not report, and a child without a cap of its own
Unset == -2      \* no such cost origin

ASSUME TreeAssumption ==
  /\ Root \in Task /\ Parent \in [Task \ {Root} -> Task]
  /\ RootCap \in Nat /\ ChildCaps \subseteq Nat /\ MaxFanOut \in Nat
ASSUME CallAssumption ==
  /\ IsFiniteSet(Call) /\ TaskOf \in [Call -> Task] /\ Kind \in [Call -> Kinds]
  /\ Quote \in [Call -> Nat] /\ Actuals \subseteq Nat /\ MaxFaults \in Nat \ {0, 1}

VARIABLES
  chain,    \* ancestorScopeIds of a task: the scopes it spends from, {} before it exists
  active,   \* the children in an active state
  cap, settled, held,   \* the columns of a budget scope
  res,      \* status of a call's reservation, "none" before it has one
  origin,   \* the cost origin a call was settled with
  pc,       \* where the caller is
  actual,   \* the cost the provider reported
  sent,     \* calls that reached the provider
  row,      \* calls whose cost row is in the ledger
  faults    \* failures each call has met

treeVars == <<chain, active, cap>>
storeVars == <<settled, held, res, origin>>
callVars == <<pc, actual, sent, row, faults>>
vars == <<treeVars, storeVars, callVars>>

Covers(c) == chain[TaskOf[c]]
\* The turn, or a child that has not ended: what calls and delegations come from.
Live(t) == t = Root \/ t \in active
Underway == {c \in Call : pc[c] \notin {"idle", "over"}}

Init ==
  /\ chain = [t \in Task |-> IF t = Root THEN {Root} ELSE {}]
  /\ active = {}
  /\ cap = [s \in Task |-> IF s = Root THEN RootCap ELSE 0]
  /\ settled = [s \in Task |-> 0] /\ held = [s \in Task |-> 0]
  /\ res = [c \in Call |-> "none"] /\ origin = [c \in Call |-> Unset]
  /\ pc = [c \in Call |-> "idle"] /\ actual = [c \in Call |-> Unknown]
  /\ sent = {} /\ row = {}
  /\ faults = [c \in Call |-> 0]

-----------------------------------------------------------------------------
(* Delegation. *)

Remaining(s) == cap[s] - settled[s] - held[s]

\* Whether the fan-out of its parent and of the root leaves room for a child.
Admits(t) ==
  /\ Cardinality({u \in active : Parent[u] = Parent[t]}) < MaxFanOut
  /\ Cardinality(active) < MaxFanOut

\* createDelegatedChild: below the fan-out, with a cap that fits into what every
\* ancestor scope has left. A child without a cap spends from its parent's scopes.
CreateChild(t, k) ==
  /\ t \in Task \ {Root} /\ chain[t] = {} /\ Live(Parent[t]) /\ Admits(t)
  /\ k = Unknown \/ \A s \in chain[Parent[t]] : k <= Remaining(s)
  /\ chain' = [chain EXCEPT ![t] = chain[Parent[t]] \cup (IF k = Unknown THEN {} ELSE {t})]
  /\ cap' = [cap EXCEPT ![t] = IF k = Unknown THEN 0 ELSE k]
  /\ active' = active \cup {t}
  /\ UNCHANGED <<storeVars, callVars>>

\* A run of the child ends and its session rests: it is idle or interrupted, or it has
\* completed, failed or been cancelled, and is then a child that is never resumed. Its
\* scope and what is left of its reservations stay.
RestChild(t) ==
  /\ t \in active /\ \A c \in Underway : TaskOf[c] # t
  /\ active' = active \ {t}
  /\ UNCHANGED <<chain, cap, storeVars, callVars>>

\* casState: an idle or interrupted child becomes active again, below the fan-out.
ResumeChild(t) ==
  /\ t \in Task \ ({Root} \cup active) /\ chain[t] # {} /\ Admits(t)
  /\ active' = active \cup {t}
  /\ UNCHANGED <<chain, cap, storeVars, callVars>>

-----------------------------------------------------------------------------
(* The store's transactions on one call's reservation. *)

Add(balance, c, amount) ==
  [s \in Task |-> IF s \in Covers(c) THEN balance[s] + amount ELSE balance[s]]

\* settleOrigin, for a cost above the quote: `held >= q ? held - q : 0`; below it, the
\* subtraction behind the check of Refuses.
Drop(balance, c) ==
  [s \in Task |-> IF s \notin Covers(c) THEN balance[s]
                  ELSE IF balance[s] >= Quote[c] THEN balance[s] - Quote[c] ELSE 0]

\* Variant: what is held does not count.
FitsSettled(c) == \A s \in Covers(c) : settled[s] + Quote[c] <= cap[s]
Fits(c) == \A s \in Covers(c) : settled[s] + held[s] + Quote[c] <= cap[s]

Hold(c) ==
  /\ held' = Add(held, c, Quote[c])
  /\ res' = [res EXCEPT ![c] = "held"]
  /\ UNCHANGED <<settled, origin>>

\* Variant: whatever became of the reservation.
GiveBackAlways(c) ==
  /\ held' = Add(held, c, -Quote[c])
  /\ res' = [res EXCEPT ![c] = "released"]
  /\ UNCHANGED <<settled, origin>>
\* releaseReservation gives back a hold, once; it subtracts without a look at the balance.
GiveBack(c) ==
  IF res[c] = "held"
  THEN /\ held' = Add(held, c, -Quote[c])
       /\ res' = [res EXCEPT ![c] = "released"]
       /\ UNCHANGED <<settled, origin>>
  ELSE UNCHANGED storeVars

Overruns(c) == actual[c] > Quote[c]
\* "permit already consumed" or "held balance would go negative".
Refuses(c) ==
  \/ res[c] \in {"settled", "released"}
  \/ actual[c] # Unknown /\ ~Overruns(c) /\ \E s \in Covers(c) : held[s] < Quote[c]

\* Variant: a missing cost is charged as it stands.
ChargeUnreported(c) ==
  /\ origin' = [origin EXCEPT ![c] = actual[c]]
  /\ res' = [res EXCEPT ![c] = "settled"]
  /\ settled' = Add(settled, c, actual[c])
  /\ held' = Drop(held, c)
\* settleOrigin: a settled origin is left alone. An unreported cost keeps its hold;
\* a cost above the quote is charged in full and marks the reservation.
Charge(c) ==
  IF origin[c] # Unset \/ Refuses(c) THEN UNCHANGED storeVars
  ELSE /\ origin' = [origin EXCEPT ![c] = actual[c]]
       /\ res' = [res EXCEPT ![c] = IF actual[c] = Unknown \/ Overruns(c)
                                    THEN "unknown" ELSE "settled"]
       /\ settled' = IF actual[c] = Unknown THEN settled ELSE Add(settled, c, actual[c])
       /\ held' = IF actual[c] = Unknown THEN held ELSE Drop(held, c)

\* Whether settleOrigin throws: refused, or a cost that overruns, after its commit.
ChargeThrows(c) == origin[c] = Unset /\ (Refuses(c) \/ Overruns(c))

-----------------------------------------------------------------------------
(* The callers. "request" is accountedSideCall, "core" executeSideCall and   *)
(* the maintenance calls, "turn" the primary inference (and, but for its     *)
(* deferred settlement, the Host's title and auxiliary calls).               *)

Goto(c, from, to) == pc[c] = from /\ pc' = [pc EXCEPT ![c] = to]
Meets(c) == faults[c] < MaxFaults /\ faults' = [faults EXCEPT ![c] = @ + 1]
Same == UNCHANGED <<treeVars, actual, sent, row>>

\* The quote is held, or refused by a scope without room.
Reserve(c) ==
  /\ pc[c] = "idle" /\ Live(TaskOf[c])
  /\ IF Fits(c) THEN Hold(c) /\ Goto(c, "idle", "reserved")
                ELSE UNCHANGED storeVars /\ Goto(c, "idle", "over")
  /\ UNCHANGED faults /\ Same

\* The reservation commits and its answer is lost: nobody has the permit.
ReserveLost(c) ==
  /\ Goto(c, "idle", "over")
  /\ Live(TaskOf[c]) /\ Fits(c) /\ Hold(c)
  /\ Meets(c) /\ Same

\* Variant: the early return forgets the hold.
CallOffHolding(c) ==
  /\ Goto(c, "reserved", "over")
  /\ UNCHANGED <<storeVars, faults>> /\ Same
\* An abort, a refusal or a failed intent before the provider is called.
CallOff(c) ==
  /\ Goto(c, "reserved", "refund")
  /\ UNCHANGED <<storeVars, faults>> /\ Same

Send(c) ==
  /\ Goto(c, "reserved", "sent")
  /\ sent' = sent \cup {c}
  /\ UNCHANGED <<treeVars, storeVars, actual, row, faults>>

\* The provider ends the call, with or without a usage report.
Answer(c, a) ==
  /\ Goto(c, "sent", "answered")
  /\ actual' = [actual EXCEPT ![c] = a]
  /\ UNCHANGED <<treeVars, storeVars, sent, row, faults>>

Append(c) ==
  /\ Goto(c, "answered", "recorded")
  /\ row' = row \cup {c}
  /\ UNCHANGED <<treeVars, storeVars, actual, sent, faults>>

\* The cost row is not written. A request releases its hold in its finally block, a
\* core call keeps it, and a turn leaves it to the transaction that closes the turn.
AppendFails(c) ==
  /\ Goto(c, "answered", CASE Kind[c] = "request" -> "refund"
                           [] Kind[c] = "core" -> "over"
                           [] Kind[c] = "turn" -> "deferred")
  /\ Meets(c) /\ UNCHANGED storeVars /\ Same

\* closeTurn writes the deferred cost row and settles it, or fails as well.
CloseTurn(c) ==
  /\ Goto(c, "deferred", "recorded")
  /\ row' = row \cup {c}
  /\ UNCHANGED <<treeVars, storeVars, actual, sent, faults>>
CloseTurnFails(c) ==
  /\ Goto(c, "deferred", "over")
  /\ Meets(c) /\ UNCHANGED storeVars /\ Same

\* Variant: nobody reconciles.
SettledUnreconciled(c, threw) ==
  LET from == pc[c] IN
  Goto(c, from, IF threw /\ Kind[c] = "request" THEN "refund" ELSE "over")
\* What a caller does about a settlement that threw.
Settled(c, threw) ==
  LET from == pc[c] IN
  Goto(c, from, CASE ~threw -> "over"
                  [] threw /\ Kind[c] = "request" -> "refund"
                  [] threw /\ Kind[c] = "core" /\ from = "recorded" -> "peek"
                  [] OTHER -> "over")

Settle(c) ==
  /\ pc[c] \in {"recorded", "again"}
  /\ Charge(c) /\ Settled(c, ChargeThrows(c))
  /\ UNCHANGED faults /\ Same

\* The settlement fails, before its commit or after it.
SettleFails(c) ==
  /\ pc[c] \in {"recorded", "again"}
  /\ UNCHANGED storeVars \/ Charge(c)
  /\ Settled(c, TRUE)
  /\ Meets(c) /\ Same

\* reconcileTreeReservationHandle: only a hold that is still there is settled again.
Reconcile(c) ==
  /\ Goto(c, "peek", IF res[c] = "held" THEN "again" ELSE "over")
  /\ UNCHANGED <<storeVars, faults>> /\ Same
ReconcileFails(c) ==
  /\ Goto(c, "peek", "over")
  /\ Meets(c) /\ UNCHANGED storeVars /\ Same

Release(c) ==
  /\ Goto(c, "refund", "over") /\ GiveBack(c)
  /\ UNCHANGED faults /\ Same
ReleaseFails(c) ==
  /\ Goto(c, "refund", "over")
  /\ UNCHANGED storeVars \/ GiveBack(c)
  /\ Meets(c) /\ Same

\* The process dies: every call under way is lost, the store is kept.
Crash ==
  /\ Underway # {} /\ \A c \in Underway : faults[c] < MaxFaults
  /\ pc' = [c \in Call |-> IF c \in Underway THEN "over" ELSE pc[c]]
  /\ faults' = [c \in Call |-> IF c \in Underway THEN MaxFaults ELSE faults[c]]
  /\ UNCHANGED storeVars /\ Same

Work(c) ==
  \/ Reserve(c) \/ CallOff(c) \/ Send(c) \/ (\E a \in Actuals \cup {Unknown} : Answer(c, a))
  \/ Append(c) \/ CloseTurn(c) \/ Settle(c) \/ Reconcile(c) \/ Release(c)
Fault(c) ==
  \/ ReserveLost(c) \/ AppendFails(c) \/ CloseTurnFails(c)
  \/ SettleFails(c) \/ ReconcileFails(c) \/ ReleaseFails(c)

Next ==
  \/ \E t \in Task : RestChild(t) \/ ResumeChild(t)
  \/ \E t \in Task : \E k \in ChildCaps \cup {Unknown} : CreateChild(t, k)
  \/ \E c \in Call : Work(c) \/ Fault(c)
  \/ Crash

Spec == Init /\ [][Next]_vars
FairSpec == Spec /\ \A c \in Call : WF_vars(Work(c))

-----------------------------------------------------------------------------
(* Properties. *)

\* The sum of `n` over the calls of `C`, as the number of their units.
Units(C, n) == Cardinality(UNION {{c} \X (1..n[c]) : c \in C})

Holders(s) == {c \in Call : /\ s \in Covers(c)
                            /\ res[c] = "held" \/ (res[c] = "unknown" /\ origin[c] = Unknown)}
Charged(s) == {c \in Call : s \in Covers(c) /\ origin[c] >= 0}
Overrun(s) == {c \in Charged(s) : origin[c] > Quote[c]}
Excess == [c \in Call |-> origin[c] - Quote[c]]

TypeOK ==
  /\ chain \in [Task -> SUBSET Task] /\ active \subseteq Task
  /\ cap \in [Task -> Nat] /\ settled \in [Task -> Nat] /\ held \in [Task -> Nat]
  /\ res \in [Call -> {"none", "held", "settled", "released", "unknown"}]
  /\ origin \in [Call -> Nat \cup {Unknown, Unset}]
  /\ pc \in [Call -> {"idle", "reserved", "sent", "answered", "deferred", "recorded",
                      "peek", "again", "refund", "over"}]
  /\ actual \in [Call -> Nat \cup {Unknown}]
  /\ sent \subseteq Call /\ row \subseteq Call
  /\ faults \in [Call -> 0..MaxFaults]

\* What a scope holds is the quotes of the calls that may still spend it: those whose
\* reservation is held, and those that were settled without a cost. Failed, lost and
\* repeated settlements and releases take no quote twice (settleOrigin, releaseReservation).
HeldIsOwed == \A s \in Task : held[s] = Units(Holders(s), Quote)

\* What a scope has settled is the recorded costs of the calls below it, each once,
\* however often a caller settled it (settleOrigin's cost origins).
SettledIsSpent == \A s \in Task : settled[s] = Units(Charged(s), origin)

\* So the two columns of every scope balance with the calls below it.
BooksBalance == HeldIsOwed /\ SettledIsSpent

\* No tree of nested caps is overspent: what a scope has settled and still holds exceeds
\* its cap by no more than the calls that cost more than their quote (reserve's fitsCap).
CapHolds ==
  \A s \in Task : s \in chain[s] => settled[s] + held[s] <= cap[s] + Units(Overrun(s), Excess)

\* A call that met no failure leaves its books closed: its cost is charged if it was sent,
\* its hold is given back if it was not ("A refusal or an abort before the provider is
\* called appends nothing and releases its reservation", session-side-call.ts:54). And
\* reconciling repairs one failed or lost settlement of a core call.
CallsAreClosed ==
  \A c \in Call : pc[c] = "over" =>
    /\ faults[c] = 0 => IF c \in sent THEN origin[c] = actual[c] ELSE res[c] \in {"none", "released"}
    /\ Kind[c] = "core" /\ c \in row /\ faults[c] <= 1 => origin[c] = actual[c]

\* The hold of a call that reached the provider is only given back by a request whose
\* own accounting failed ("Still held only when the provider was never called or
\* accounting itself failed", session-side-call.ts:138): the cap counts the others.
SentIsNotRefunded ==
  \A c \in sent : res[c] = "released" => Kind[c] = "request" /\ faults[c] > 0

\* So no failure short of those named leaves a call's books open or gives back what was spent.
BooksClose == CallsAreClosed /\ SentIsNotRefunded

\* A hold does not outlive its call: it is settled, released or marked, unless a
\* failure of the store or of the process left it to count against the tree.
HoldsAreResolved == \A c \in Call : res[c] = "held" ~> (res[c] # "held" \/ faults[c] > 0)

\* What has become of a call, for a reader who does not keep columns.
Fate(c) ==
  CASE res[c] = "none" -> "new"
    [] res[c] = "released" -> "freed"
    [] res[c] = "held" \/ (res[c] = "unknown" /\ origin[c] = Unknown) -> "open"
    [] OTHER -> "paid"
CostOf(c) == IF origin[c] \in Nat THEN origin[c] ELSE 0

Books == INSTANCE BudgetTree WITH state <- [c \in Call |-> Fate(c)],
                                  cost <- [c \in Call |-> CostOf(c)]

\* Columns that are added to and subtracted from, settlements that are lost and repeated
\* and callers that die keep what a list of all the calls would promise: BudgetTree
\* (reserve, settleOrigin, releaseReservation, createDelegatedChild).
BooksSpec == Books!Spec
=============================================================================
