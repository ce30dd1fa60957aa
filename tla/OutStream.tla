------------------------------- MODULE OutStream ------------------------------
(***************************************************************************)
(* What the write side of CHttpHost promises for each descriptor: the      *)
(* bytes that AddWriteQueue accepted reach the socket in the order they    *)
(* were accepted, each one once and none in between left out, until the    *)
(* stream is dropped.  The bytes of a stream are numbered from 1.          *)
(***************************************************************************)
EXTENDS Naturals, Sequences

CONSTANT Fd

VARIABLES
  open,      \* the streams there are
  accepted,  \* the number of bytes accepted for each
  wire       \* the bytes written to its socket, in order

streamvars == <<open, accepted, wire>>

Init ==
  /\ open = {}
  /\ accepted = [fd \in Fd |-> 0]
  /\ wire = [fd \in Fd |-> <<>>]

Open(fd) ==
  /\ fd \notin open
  /\ open' = open \cup {fd}
  /\ UNCHANGED <<accepted, wire>>

Accept(fd) ==
  /\ fd \in open
  /\ accepted'[fd] \in Nat /\ accepted'[fd] > accepted[fd]
  /\ accepted' = [accepted EXCEPT ![fd] = accepted'[fd]]
  /\ UNCHANGED <<open, wire>>

Send(fd) ==
  /\ fd \in open
  /\ \E n \in (Len(wire[fd]) + 1)..accepted[fd] :
       wire' = [wire EXCEPT ![fd] = [i \in 1..n |-> i]]
  /\ UNCHANGED <<open, accepted>>

Drop(fd) ==
  /\ fd \in open
  /\ open' = open \ {fd}
  /\ accepted' = [accepted EXCEPT ![fd] = 0]
  /\ wire' = [wire EXCEPT ![fd] = <<>>]

Next == \E fd \in Fd : Open(fd) \/ Accept(fd) \/ Send(fd) \/ Drop(fd)

Spec == Init /\ [][Next]_streamvars
=============================================================================
