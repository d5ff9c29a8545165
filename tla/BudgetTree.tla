----------------------------- MODULE BudgetTree -----------------------------
(***************************************************************************)
(* What a tree of budgets promises those who spend from it: a scope knows  *)
(* every call below it.  A call is admitted once, and only where the       *)
(* quotes of the open calls and the costs of the paid ones leave room in   *)
(* all of its scopes; it is then paid once or given back once, and a child *)
(* gets a cap only out of what all the scopes above it have left.          *)
(***************************************************************************)
EXTENDS Integers, FiniteSets

CONSTANTS Task, Root, Parent, RootCap, Call, TaskOf, Quote

VARIABLES
  chain,   \* the scopes a task spends from, {} before it exists
  cap,     \* what a scope may spend
  state,   \* new, open, paid or freed
  cost     \* what a paid call cost

Init ==
  /\ chain = [t \in Task |-> IF t = Root THEN {Root} ELSE {}]
  /\ cap = [s \in Task |-> IF s = Root THEN RootCap ELSE 0]
  /\ state = [c \in Call |-> "new"]
  /\ cost = [c \in Call |-> 0]

Below(s, what) == {c \in Call : s \in chain[TaskOf[c]] /\ state[c] = what}

\* The sum of `n` over the calls of `C`.
Sum(C, n) == Cardinality(UNION {{c} \X (1..n[c]) : c \in C})

\* What counts against a scope.
Load(s) == Sum(Below(s, "open"), Quote) + Sum(Below(s, "paid"), cost)

HasRoom(scopes, amount) == \A s \in scopes : Load(s) + amount <= cap[s]

\* A child that spends from its parent's scopes alone.
Share(t) ==
  /\ t # Root /\ chain[t] = {}
  /\ chain' = [chain EXCEPT ![t] = chain[Parent[t]]] /\ cap' = [cap EXCEPT ![t] = 0]
  /\ UNCHANGED <<state, cost>>

\* A child with a scope of its own.
Grant(t, k) ==
  /\ t # Root /\ chain[t] = {} /\ HasRoom(chain[Parent[t]], k)
  /\ chain' = [chain EXCEPT ![t] = chain[Parent[t]] \cup {t}]
  /\ cap' = [cap EXCEPT ![t] = k]
  /\ UNCHANGED <<state, cost>>

Open(c) ==
  /\ state[c] = "new" /\ chain[TaskOf[c]] # {} /\ HasRoom(chain[TaskOf[c]], Quote[c])
  /\ state' = [state EXCEPT ![c] = "open"]
  /\ UNCHANGED <<chain, cap, cost>>

Pay(c, amount) ==
  /\ state[c] = "open"
  /\ state' = [state EXCEPT ![c] = "paid"]
  /\ cost' = [cost EXCEPT ![c] = amount]
  /\ UNCHANGED <<chain, cap>>

Free(c) ==
  /\ state[c] = "open"
  /\ state' = [state EXCEPT ![c] = "freed"]
  /\ UNCHANGED <<chain, cap, cost>>

Next ==
  \/ \E t \in Task : Share(t) \/ \E k \in Nat : Grant(t, k)
  \/ \E c \in Call : Open(c) \/ Free(c) \/ \E amount \in Nat : Pay(c, amount)

Spec == Init /\ [][Next]_<<chain, cap, state, cost>>
=============================================================================
