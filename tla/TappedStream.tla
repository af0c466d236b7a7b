---------------------------- MODULE TappedStream ----------------------------
(***************************************************************************)
(* What the proxy of one connection promises: in each direction the bytes  *)
(* arrive in the order they were sent, without a gap, up to the point      *)
(* where the connection is cut, and the tape has every byte that was       *)
(* forwarded and no other.  The bytes of a direction are numbered from 1.  *)
(***************************************************************************)
EXTENDS Naturals, Sequences

CONSTANT Dirs        \* the directions of the connection

VARIABLES
  sent,              \* direction |-> how many bytes were sent
  delivered,         \* direction |-> the bytes that were forwarded
  tape,              \* direction |-> the bytes that were recorded
  open               \* the connection is not cut

vars == <<sent, delivered, tape, open>>

Init ==
  /\ sent = [d \in Dirs |-> 0]
  /\ delivered = [d \in Dirs |-> <<>>]
  /\ tape = [d \in Dirs |-> <<>>]
  /\ open = TRUE

Send(d) ==
  /\ sent' = [sent EXCEPT ![d] = @ + 1]
  /\ UNCHANGED <<delivered, tape, open>>

\* The next n bytes of direction d.
NextBytes(d, n) == [i \in 1..n |-> Len(delivered[d]) + i]

Forward(d) ==
  /\ open
  /\ \E n \in 1..(sent[d] - Len(delivered[d])) :
       /\ delivered' = [delivered EXCEPT ![d] = @ \o NextBytes(d, n)]
       /\ tape' = [tape EXCEPT ![d] = @ \o NextBytes(d, n)]
  /\ UNCHANGED <<sent, open>>

Cut == open /\ open' = FALSE /\ UNCHANGED <<sent, delivered, tape>>

Next == Cut \/ \E d \in Dirs : Send(d) \/ Forward(d)

Spec == Init /\ [][Next]_vars
=============================================================================
