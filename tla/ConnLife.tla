------------------------------ MODULE ConnLife ------------------------------
(***************************************************************************)
(* What a connection promises the application that writes to it: a one-way  *)
(* stream of buffers that is closed once.  A buffer goes out at most once    *)
(* and in order, the application is told of success only for a buffer that   *)
(* is out, and neither happens after the direction was closed.               *)
(***************************************************************************)
EXTENDS Naturals, Sequences

CONSTANT Buffer        \* the buffers, numbered in the order they are given

VARIABLES
  out,                 \* the buffers that are out, in order
  accepted,            \* the buffers whose write returned success
  outClosed, inClosed  \* the two directions

lifeVars == <<out, accepted, outClosed, inClosed>>

LifeInit ==
  /\ out = <<>> /\ accepted = {}
  /\ outClosed = FALSE /\ inClosed = FALSE

Out == {out[i] : i \in 1 .. Len(out)}

Send(n) ==
  /\ ~outClosed
  /\ \A m \in Out : m < n
  /\ out' = Append(out, n)
  /\ accepted' \in {accepted, accepted \cup {n}}
  /\ UNCHANGED <<outClosed, inClosed>>

Accept(n) ==
  /\ ~outClosed
  /\ n \in Out \ accepted
  /\ accepted' = accepted \cup {n}
  /\ UNCHANGED <<out, outClosed, inClosed>>

(* Closing is for good; one step may close both directions.                  *)
CloseDirection ==
  /\ outClosed' \in {outClosed, TRUE} /\ inClosed' \in {inClosed, TRUE}
  /\ UNCHANGED <<out, accepted>>

LifeNext == CloseDirection \/ \E n \in Buffer : Send(n) \/ Accept(n)
LifeSpec == LifeInit /\ [][LifeNext]_lifeVars
=============================================================================
