---------------------------- MODULE MCNestedTools ---------------------------
(* NestedTools on small trees of calls.                                    *)
EXTENDS NestedTools

\* Two safe calls of a batch and an unsafe one after them.  The first invokes two
\* safe calls that each invoke an unsafe one, so that it is suspended twice; the second
\* invokes an unsafe call, which invokes two more.
Stacked == <<0, 0, 1, 1, 3, 4, 2, 7, 7, 0>>

\* Two safe calls of a batch: one invokes an unsafe call, the other a safe one.
Crossed == <<0, 0, 1, 2>>
=============================================================================
