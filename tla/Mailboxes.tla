----------------------------- MODULE Mailboxes -----------------------------
(***************************************************************************)
(* What send and receive promise: every open address has a mailbox, from   *)
(* which its owner takes messages in the order in which they were sent.  A *)
(* message may be handed over at once only if nothing waits before it, and *)
(* it may be lost when it is sent, never later while the address is open.  *)
(* An address is opened once.                                              *)
(***************************************************************************)
EXTENDS Naturals, Sequences

CONSTANT Addresses

VARIABLES
  live,   \* the open addresses
  box,    \* the messages waiting at each address
  got,    \* the messages each address has taken
  sent    \* the number of messages, which are numbered as they are sent

vars == <<live, box, got, sent>>

Init ==
  /\ live = {}
  /\ box = [a \in Addresses |-> <<>>]
  /\ got = [a \in Addresses |-> <<>>]
  /\ sent = 0

Open(a) ==
  /\ a \notin live
  /\ got[a] = <<>>
  /\ live' = live \cup {a}
  /\ UNCHANGED <<box, got, sent>>

Post(a) ==
  /\ a \in live
  /\ sent' = sent + 1
  /\ box' = [box EXCEPT ![a] = Append(@, sent + 1)]
  /\ UNCHANGED <<live, got>>

HandOver(a) ==
  /\ a \in live
  /\ box[a] = <<>>
  /\ sent' = sent + 1
  /\ got' = [got EXCEPT ![a] = Append(@, sent + 1)]
  /\ UNCHANGED <<live, box>>

Lose == sent' = sent + 1 /\ UNCHANGED <<live, box, got>>

Take(a) ==
  /\ a \in live
  /\ box[a] # <<>>
  /\ got' = [got EXCEPT ![a] = Append(@, Head(box[a]))]
  /\ box' = [box EXCEPT ![a] = Tail(@)]
  /\ UNCHANGED <<live, sent>>

Close(a) ==
  /\ a \in live
  /\ live' = live \ {a}
  /\ box' = [box EXCEPT ![a] = <<>>]
  /\ UNCHANGED <<got, sent>>

Next ==
  \/ \E a \in Addresses : Open(a) \/ Post(a) \/ HandOver(a) \/ Take(a) \/ Close(a)
  \/ Lose

Spec == Init /\ [][Next]_vars
=============================================================================
