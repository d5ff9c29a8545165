----------------------------- MODULE AppendLog -----------------------------
(***************************************************************************)
(* What a session ledger promises its writers: one append-only history.    *)
(* A writer appends only to a history it knows all of, and what it knows   *)
(* is always a prefix of the history; it may land an append and never hear *)
(* of it, but it then appends nothing more until it has.                   *)
(***************************************************************************)
EXTENDS Naturals, Sequences

CONSTANT Run   \* the writers

VARIABLES
  log,   \* the authors of the rows, in order
  seen   \* how much of the history each writer knows

Init == log = <<>> /\ seen = [w \in Run |-> 0]

\* A writer comes to know the whole history.
Join(w) == seen' = [seen EXCEPT ![w] = Len(log)] /\ UNCHANGED log

\* Compare and append.
Land(w) == seen[w] = Len(log) /\ log' = Append(log, w) /\ UNCHANGED seen

\* The writer hears that its own append landed.
Learn(w) ==
  /\ seen[w] < Len(log) /\ log[seen[w] + 1] = w
  /\ seen' = [seen EXCEPT ![w] = @ + 1]
  /\ UNCHANGED log

Next == \E w \in Run : Join(w) \/ Land(w) \/ Learn(w)

Spec == Init /\ [][Next]_<<log, seen>>
=============================================================================
