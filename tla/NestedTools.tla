---------------------------- MODULE NestedTools ----------------------------
(***************************************************************************)
(* Admission of the tool calls of one batch and of the calls they nest.    *)
(*                                                                         *)
(* A call is concurrency safe or not.  Safe calls may overlap; an unsafe   *)
(* one runs alone.  A call that runs may invoke others below it: a queue   *)
(* per call (AdmissionQueue) orders them, and one queue for all of them    *)
(* (NestedToolScheduler) hands out the leases.  An unsafe call below safe  *)
(* ones suspends their leases while it runs, and gives them back before    *)
(* its caller goes on.  Below an unsafe call everything runs on its lease. *)
(*                                                                         *)
(* Calls are numbered in the order the model asked for them, a call after  *)
(* the one that invokes it.  The continuation of a promise that an         *)
(* admission resolves is part of the admission.                            *)
(***************************************************************************)
EXTENDS Naturals, Sequences, FiniteSets

CONSTANTS
  Call,         \* the calls of the batch and those they may invoke
  Safe,         \* isConcurrencySafe
  Parent,       \* the call that invokes a call, 0 for a call of the batch
  MaxParallel   \* how many calls of the batch run at once

ASSUME TreeAssumption ==
  /\ Call \subseteq Nat \ {0} /\ IsFiniteSet(Call)
  /\ Safe \subseteq Call
  /\ Parent \in [Call -> Call \cup {0}]
  /\ \A c \in Call : Parent[c] < c
  /\ MaxParallel \in Nat \ {0}

VARIABLES
  phase,      \* how far each call is
  siblings,   \* per call, the calls it invoked that wait for their turn
  waiting,    \* the leases that wait for admission, first come first served
  active,     \* the leases that are admitted
  suspended,  \* suspendCount of each lease
  owes,       \* the leases an unsafe call waits for before its caller goes on
  stopped,    \* the session's abort signal
  thrown      \* "nested tool lease is not active"

vars == <<phase, siblings, waiting, active, suspended, owes, stopped, thrown>>

Phase == {"new", "sibling", "admitted", "asking", "running", "closing",
          "returning", "resuming", "leaving", "over"}

TypeOK ==
  /\ phase \in [Call -> Phase]
  /\ siblings \in [Call -> Seq(Call)]
  /\ waiting \in Seq(Call)
  /\ active \subseteq Call
  /\ suspended \in [Call -> Nat]
  /\ owes \in [Call -> SUBSET Call]
  /\ stopped \in BOOLEAN /\ thrown \in BOOLEAN

Init ==
  /\ phase = [c \in Call |-> "new"]
  /\ siblings = [c \in Call |-> <<>>]
  /\ waiting = <<>> /\ active = {}
  /\ suspended = [c \in Call |-> 0]
  /\ owes = [c \in Call |-> {}]
  /\ stopped = FALSE /\ thrown = FALSE

-----------------------------------------------------------------------------
(* The tree of calls.                                                      *)

Roots == {c \in Call : Parent[c] = 0}
Children(p) == {c \in Call : Parent[c] = p}

\* The calls above each call: the least set that has its parent and theirs.
Above ==
  [c \in Call |-> {a \in Call : \A S \in SUBSET Call :
    Parent[c] \in S \cup {0} /\ (\A x \in S : Parent[x] \in S \cup {0}) => a \in S}]

\* Below an unsafe call a lease is inherited, never admitted.
Owns(c) == Above[c] \subseteq Safe

\* An unsafe call below safe ones suspends them.
Upgrades(c) == c \notin Safe /\ Owns(c) /\ Above[c] # {}

\* Safe leases that ask together.  Their order is of no account: what admits one
\* of them admits those next to it.
Together(S) == CHOOSE s \in [1 .. Cardinality(S) -> S] : \A x \in S : \E i \in DOMAIN s : s[i] = x

-----------------------------------------------------------------------------
(* Queues.                                                                 *)

\* Variant: an unsafe call does not wait for the safe ones that are admitted.
EnteringEarly(w, in) ==
  {w[i] : i \in {i \in DOMAIN w : \/ in \subseteq Safe /\ \A j \in 1 .. i : w[j] \in Safe
                                  \/ in \subseteq Safe /\ i = 1}}

\* pump: a run of safe calls at the head of a queue, or the unsafe call there.
Entering(w, in) ==
  {w[i] : i \in {i \in DOMAIN w : \/ in \subseteq Safe /\ \A j \in 1 .. i : w[j] \in Safe
                                  \/ in = {} /\ i = 1}}

After(w, entered) == SubSeq(w, Cardinality(entered) + 1, Len(w))

\* splice: the queue without a waiter that may be in it.
Without(w, c) ==
  IF c \in {w[i] : i \in DOMAIN w}
  THEN LET at == CHOOSE i \in DOMAIN w : w[i] = c
       IN SubSeq(w, 1, at - 1) \o SubSeq(w, at + 1, Len(w))
  ELSE w

\* The queue of leases after a change of it, of the active leases and of `ph`:
\* a lease admitted for the first time starts its call, one that returns after
\* a suspension is owed no more.
Pump(w, in, ph, ow) ==
  LET entered == Entering(w, in)
  IN /\ waiting' = After(w, entered)
     /\ active' = in \cup entered
     /\ phase' = [c \in Call |-> IF c \in entered /\ ph[c] = "asking" THEN "running" ELSE ph[c]]
     /\ owes' = [c \in Call |-> ow[c] \ entered]

\* The siblings under p that have begun and have not ended.
InProgress(p) == {c \in Children(p) : phase[c] \notin {"new", "sibling", "over"}}

\* The queue of p's children after a change of it and of those in progress.
PumpSiblings(p, w, in, ph) ==
  LET entered == Entering(w, in)
  IN /\ siblings' = [siblings EXCEPT ![p] = After(w, entered)]
     /\ phase' = [c \in Call |-> IF c \in entered THEN "admitted" ELSE ph[c]]

-----------------------------------------------------------------------------
(* Starting.                                                               *)

\* scheduleBatch: in order, an unsafe call after all before it and before all
\* after it, and at most MaxParallel at once.
MyTurn(c) ==
  /\ \A r \in Roots : r < c => phase[r] # "new"
  /\ \A r \in Roots : r < c /\ ~({r, c} \subseteq Safe) => phase[r] = "over"
  /\ Cardinality({r \in Roots : phase[r] \notin {"new", "over"}}) < MaxParallel

StartRoot(c) ==
  /\ c \in Roots /\ phase[c] = "new" /\ MyTurn(c) /\ ~stopped
  /\ Pump(Append(waiting, c), active, [phase EXCEPT ![c] = "asking"], owes)
  /\ UNCHANGED <<siblings, suspended, stopped, thrown>>

SkipRoot(c) ==
  /\ c \in Roots /\ phase[c] = "new" /\ MyTurn(c) /\ stopped
  /\ phase' = [phase EXCEPT ![c] = "over"]
  /\ UNCHANGED <<siblings, waiting, active, suspended, owes, stopped, thrown>>

\* A call that runs invokes another one; afterwards, it is refused.
StartChild(c) ==
  /\ phase[c] = "new" /\ c \notin Roots
  /\ phase[Parent[c]] = "running" /\ ~stopped
  /\ PumpSiblings(Parent[c], Append(siblings[Parent[c]], c), InProgress(Parent[c]),
                  [phase EXCEPT ![c] = "sibling"])
  /\ UNCHANGED <<waiting, active, suspended, owes, stopped, thrown>>

\* runChild, for a call on its caller's lease and for a safe one.
EnterInherited(c) ==
  /\ phase[c] = "admitted" /\ ~Owns(c)
  /\ phase' = [phase EXCEPT ![c] = "running"]
  /\ UNCHANGED <<siblings, waiting, active, suspended, owes, stopped, thrown>>

EnterSafe(c) ==
  /\ phase[c] = "admitted" /\ Owns(c) /\ c \in Safe
  /\ IF stopped
     THEN phase' = [phase EXCEPT ![c] = "leaving"] /\ UNCHANGED <<waiting, active, owes>>
     ELSE Pump(Append(waiting, c), active, [phase EXCEPT ![c] = "asking"], owes)
  /\ UNCHANGED <<siblings, suspended, stopped, thrown>>

\* The leases above c that c is the first to suspend: it has to release them.
\* Those it finds inactive make it fail, the nearest of them at once.
ToRelease(c) == {a \in Above[c] : suspended[a] = 0}
Failing(c) == ToRelease(c) \ active
Reached(c) == {a \in Above[c] : \A b \in Failing(c) : b <= a}

\* The unsafe calls below a that have suspended it and not returned it yet.
Owing(a) == {u \in Call : /\ Upgrades(u) /\ a \in Above[u]
                          /\ phase[u] \in {"asking", "running", "closing", "returning"}}

\* Variant: only the caller's lease is suspended.
EnterUnsafeShallow(c) ==
  /\ phase[c] = "admitted" /\ Upgrades(c)
  /\ suspended' = [suspended EXCEPT ![Parent[c]] = @ + 1]
  /\ Pump(Append(waiting, c), active \ {Parent[c]}, [phase EXCEPT ![c] = "asking"], owes)
  /\ UNCHANGED <<siblings, stopped, thrown>>

\* runChild, for an unsafe call below safe ones.  A call that fails leaves the
\* leases it has reached suspended.
EnterUnsafe(c) ==
  /\ phase[c] = "admitted" /\ Upgrades(c)
  /\ suspended' = [a \in Call |-> suspended[a] + IF a \in Reached(c) THEN 1 ELSE 0]
  /\ LET left == active \ (Reached(c) \cap ToRelease(c))
     IN \/ /\ Failing(c) = {} /\ ~stopped
           /\ Pump(Append(waiting, c), left, [phase EXCEPT ![c] = "asking"], owes)
        \/ /\ Failing(c) = {} /\ stopped
           /\ Pump(waiting, left, [phase EXCEPT ![c] = "returning"], owes)
        \/ /\ Failing(c) # {}
           /\ Pump(waiting, left, [phase EXCEPT ![c] = "leaving"], owes)
  /\ thrown' = (thrown \/ Failing(c) # {})
  /\ UNCHANGED <<siblings, stopped>>

-----------------------------------------------------------------------------
(* Ending.                                                                 *)

\* The call's own signal, or the session's, takes it off the queue it is in.
CancelSibling(c) ==
  /\ phase[c] = "sibling"
  /\ PumpSiblings(Parent[c], Without(siblings[Parent[c]], c), InProgress(Parent[c]),
                  [phase EXCEPT ![c] = "over"])
  /\ UNCHANGED <<waiting, active, suspended, owes, stopped, thrown>>

\* Variant: an unsafe call that was cancelled leaves its callers suspended.
CancelAskingForgetful(c) ==
  /\ phase[c] = "asking"
  /\ Pump(Without(waiting, c), active, [phase EXCEPT ![c] = "leaving"], owes)
  /\ UNCHANGED <<siblings, suspended, stopped, thrown>>

CancelAsking(c) ==
  /\ phase[c] = "asking"
  /\ Pump(Without(waiting, c), active,
          [phase EXCEPT ![c] = IF Upgrades(c) THEN "returning" ELSE "leaving"], owes)
  /\ UNCHANGED <<siblings, suspended, stopped, thrown>>

\* The call's callback returns; from now on it invokes nothing.
Return(c) ==
  /\ phase[c] = "running"
  /\ phase' = [phase EXCEPT ![c] = "closing"]
  /\ UNCHANGED <<siblings, waiting, active, suspended, owes, stopped, thrown>>

\* Variant: the lease is given back while calls it invoked are still running.
ClosesAtOnce(c) == TRUE

\* close: the calls it invoked have ended, and nobody has suspended it.
Closes(c) ==
  /\ \A d \in Children(c) : phase[d] \in {"new", "over"}
  /\ suspended[c] = 0

Close(c) ==
  /\ phase[c] = "closing" /\ Closes(c)
  /\ Pump(waiting, active \ {c},
          [phase EXCEPT ![c] = IF Upgrades(c) THEN "returning" ELSE "leaving"], owes)
  /\ UNCHANGED <<siblings, suspended, stopped, thrown>>

\* Variant: the caller goes on without waiting for its lease.
ResumeUnawaited(c) ==
  /\ phase[c] = "returning"
  /\ LET back == {a \in Above[c] : suspended[a] = 1}
     IN /\ suspended' = [a \in Call |-> suspended[a] - IF a \in Above[c] THEN 1 ELSE 0]
        /\ Pump(waiting \o Together(back), active, [phase EXCEPT ![c] = "resuming"], owes)
  /\ UNCHANGED <<siblings, stopped, thrown>>

\* resume: the last one to return a lease asks for it again; the others wait
\* until it is active.
Resume(c) ==
  /\ phase[c] = "returning"
  /\ LET back == {a \in Above[c] : suspended[a] = 1}
     IN /\ suspended' = [a \in Call |-> suspended[a] - IF a \in Above[c] THEN 1 ELSE 0]
        /\ Pump(waiting \o Together(back), active,
                [phase EXCEPT ![c] = "resuming"], [owes EXCEPT ![c] = Above[c]])
  /\ UNCHANGED <<siblings, stopped, thrown>>

\* The call's promise settles: its caller goes on, and so do its siblings.
Leave(c) ==
  /\ phase[c] = "leaving" \/ (phase[c] = "resuming" /\ owes[c] = {})
  /\ IF c \in Roots
     THEN phase' = [phase EXCEPT ![c] = "over"] /\ UNCHANGED siblings
     ELSE PumpSiblings(Parent[c], siblings[Parent[c]], InProgress(Parent[c]) \ {c},
                       [phase EXCEPT ![c] = "over"])
  /\ UNCHANGED <<waiting, active, suspended, owes, stopped, thrown>>

Stop ==
  /\ ~stopped
  /\ stopped' = TRUE
  /\ UNCHANGED <<phase, siblings, waiting, active, suspended, owes, thrown>>

Next ==
  \/ Stop
  \/ \E c \in Call :
       \/ StartRoot(c) \/ SkipRoot(c) \/ StartChild(c)
       \/ CancelSibling(c) \/ CancelAsking(c)
       \/ EnterInherited(c) \/ EnterSafe(c) \/ EnterUnsafe(c)
       \/ Return(c) \/ Close(c) \/ Resume(c) \/ Leave(c)

Spec == Init /\ [][Next]_vars

-----------------------------------------------------------------------------
(* Properties.                                                             *)

\* An unsafe call that was admitted runs alone: no other lease is active, so
\* that nothing runs beside it but what it invoked itself and the calls it
\* suspended, which wait for it.
UnsafeRunsAlone == \A u \in active \ Safe : active = {u}

\* scheduleBatch's barrier, with all that its calls invoke: while an unsafe call of the
\* batch or anything below it has begun and not ended, no call outside of its tree has,
\* whoever returned without awaiting what it invoked, is cancelled or was suspended.
InTree(r) == {c \in Call : c = r \/ r \in Above[c]}
BarrierHolds ==
  \A u \in Roots \ Safe : \A b \in InTree(u), c \in Call \ InTree(u) :
    phase[b] \in {"new", "over"} \/ phase[c] \in {"new", "over"}

\* release asserts that the lease it suspends is active ("nested tool lease is not
\* active"). That is false of the code: a lease that one unsafe call has given back is
\* queued behind a second one, and a third one suspends it there (README, section 6).
\* From then on the leases it has reached stay suspended, so what follows says what
\* the scheduler keeps until that assertion fails.
NeverThrows == ~thrown

\* Until release fails, control never comes back to a call without its lease: one that
\* runs, and has no unsafe call below it between suspending and resuming, holds a lease
\* or runs on that of an unsafe call above it.
LeaseHeldWhileWorking ==
  NeverThrows => \A c \in Call :
    /\ phase[c] \in {"running", "closing"}
    /\ \A u \in Call : Upgrades(u) /\ c \in Above[u] =>
         phase[u] \notin {"asking", "running", "closing", "returning", "resuming"}
    => \E a \in Above[c] \cup {c} : a \in active

\* Until release fails, a lease is suspended exactly as often as unsafe calls below it
\* have yet to return it, the cancelled ones included: none is resumed early or forgotten,
\* also when two of them share it.
SuspensionsAreOwed == NeverThrows => \A a \in Call : suspended[a] = Cardinality(Owing(a))

\* A call that gave its lease back has nothing running below it any more.
NothingOutlivesItsCaller ==
  \A c \in Call : phase[c] \in {"returning", "resuming", "leaving", "over"} =>
    \A d \in Call : c \in Above[d] => phase[d] \in {"new", "over"}

\* Until release fails, while an unsafe call holds the lease, it and what it invoked work
\* and nothing else does: every other call waits, was suspended, or returns its own lease.
UnsafeWorksAlone ==
  NeverThrows => \A u \in active \ Safe, c \in Call :
    /\ phase[c] \in {"running", "closing"}
    /\ \A v \in Call : Upgrades(v) /\ c \in Above[v] =>
         phase[v] \notin {"asking", "running", "closing", "returning", "resuming"}
    => c = u \/ u \in Above[c]

\* The calls of the batch begin in the order the model asked for them, an unsafe one
\* after all before it and before all after it have ended, and no more than MaxParallel
\* of them are under way, whatever they suspend, cancel or wait for (scheduleBatch).
UnderWay == {r \in Roots : phase[r] \notin {"new", "over"}}
BatchInOrder ==
  /\ \A r, c \in Roots : r < c /\ phase[c] # "new" =>
       phase[r] # "new" /\ ({r, c} \subseteq Safe \/ phase[r] = "over")
  /\ Cardinality(UnderWay) <= MaxParallel

\* Callbacks return, and what an await waits for is taken up; an aborted signal
\* reaches every call that waits.
Cancel(c) == CancelSibling(c) \/ CancelAsking(c)
Enter(c) == EnterInherited(c) \/ EnterSafe(c) \/ EnterUnsafe(c)
GoOn(c) == Enter(c) \/ Return(c) \/ Close(c) \/ Resume(c) \/ Leave(c)
Fairness ==
  \A c \in Call :
    /\ WF_vars(GoOn(c))
    /\ WF_vars(stopped /\ (Cancel(c) \/ SkipRoot(c)))
FairSpec == Spec /\ Fairness

\* The user's stop ends a batch, whoever is suspended, waiting or running, unless
\* release fails: then a close may wait for a lease that nobody returns.
StopEndsTheBatch == stopped ~> thrown \/ \A r \in Roots : phase[r] = "over"

\* NestedToolScheduler's comment: an unsafe call suspends the safe leases above
\* it, "then runs".  Without a stop or a cancellation every call is admitted.
WaitersAreAdmitted == \A c \in Call : phase[c] = "asking" ~> phase[c] # "asking"
=============================================================================
