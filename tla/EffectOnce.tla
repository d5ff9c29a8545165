----------------------------- MODULE EffectOnce -----------------------------
(***************************************************************************)
(* What a batch of tool calls promises the model about the world: a call   *)
(* acts at most once, a safe read at most twice, only between its intent   *)
(* and its answer or, when the answer says that nobody knows, after it;    *)
(* and what an answer says of it stays true.                               *)
(***************************************************************************)
EXTENDS Naturals

CONSTANTS
  Call,
  Repeatable    \* the calls that may be run again

VARIABLES
  stage,        \* new, started, or what the answer tells
  acts          \* how often the call acted

Stages == {"new", "started", "never", "over", "unsure"}

\* Every call is at a stage and has acted some number of times.
TypeOK ==
  /\ stage \in [Call -> Stages]
  /\ acts \in [Call -> Nat]

Init ==
  /\ stage = [c \in Call |-> "new"]
  /\ acts = [c \in Call |-> 0]

Limit(c) == IF c \in Repeatable THEN 2 ELSE 1

\* The intent: from here on the call may act.
Start(c) ==
  /\ stage[c] = "new"
  /\ stage' = [stage EXCEPT ![c] = "started"]
  /\ UNCHANGED acts

Act(c) ==
  /\ stage[c] \in {"started", "unsure"} /\ acts[c] < Limit(c)
  /\ acts' = [acts EXCEPT ![c] = @ + 1]
  /\ UNCHANGED stage

\* That it did not happen is told of a call that did not act.
Told(c, what) ==
  \/ stage[c] = what
  \/ stage[c] = "new" /\ what = "never"
  \/ stage[c] = "started" /\ what \in {"over", "unsure"}
  \/ stage[c] = "started" /\ what = "never" /\ acts[c] = 0

\* A turn that closes answers several calls in one commit.
Tell ==
  /\ stage' \in [Call -> Stages]
  /\ \A c \in Call : Told(c, stage'[c])
  /\ UNCHANGED acts

Next == Tell \/ \E c \in Call : Start(c) \/ Act(c)

Spec == Init /\ [][Next]_<<stage, acts>>
=============================================================================
