------------------------------ MODULE Mailbox ------------------------------
(***************************************************************************)
(* What a client that submits a command is promised.  The command is kept  *)
(* until its outcome is known; it is carried out only while it is kept or  *)
(* its outcome was told, once, and never after a refusal; everybody who is *)
(* told of an effect is told of the same one.  A command that was carried  *)
(* out may be released: nothing is promised of it from then on.            *)
(***************************************************************************)
EXTENDS Naturals

CONSTANT Command

VARIABLES
  kept,      \* the commands whose outcome the client does not know yet
  carried,   \* the rows that carried each command out
  heard,     \* the rows its callers were told
  refused,   \* the commands that were refused
  released   \* the commands of which nothing is promised any more

vars == <<kept, carried, heard, refused, released>>

Init ==
  /\ kept = {} /\ refused = {} /\ released = {}
  /\ carried = [c \in Command |-> {}]
  /\ heard = [c \in Command |-> {}]

Known(c) == heard[c] # {} \/ c \in refused

Keep(c) == kept' = kept \cup {c} /\ UNCHANGED <<carried, heard, refused, released>>

\* A row of its own carries the command out.
Carry(c, n) ==
  /\ c \in kept \/ Known(c)
  /\ c \notin released => carried[c] = {} /\ c \notin refused
  /\ \A d \in Command : n \notin carried[d]
  /\ carried' = [carried EXCEPT ![c] = @ \cup {n}]
  /\ UNCHANGED <<kept, heard, refused, released>>

\* A caller is told the row that carried the command out, or a later one that shows it.
Tell(c, n) ==
  /\ \E m \in carried[c] : m <= n
  /\ c \notin released => heard[c] \subseteq {n}
  /\ heard' = [heard EXCEPT ![c] = @ \cup {n}] /\ kept' = kept \ {c}
  /\ UNCHANGED <<carried, refused, released>>

Refuse(c) ==
  /\ c \notin released => carried[c] = {}
  /\ refused' = refused \cup {c} /\ kept' = kept \ {c}
  /\ UNCHANGED <<carried, heard, released>>

Release(c) ==
  /\ carried[c] # {} /\ released' = released \cup {c}
  /\ UNCHANGED <<kept, carried, heard, refused>>

Next ==
  \E c \in Command : \/ Keep(c) \/ Refuse(c) \/ Release(c)
                     \/ \E n \in Nat : Carry(c, n) \/ Tell(c, n)

Spec == Init /\ [][Next]_vars
=============================================================================
