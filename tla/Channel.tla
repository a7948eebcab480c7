------------------------------ MODULE Channel ------------------------------
(***************************************************************************)
(* What the delivery layer promises to the two users of a relationship,    *)
(* without sessions, outboxes, retransmissions or views: messages leave in *)
(* the order of their sequence numbers, an engine receives only what its   *)
(* peer sent and never forgets it, and a message shown as acknowledged has *)
(* been received.  Delivery is shown to implement it.                      *)
(***************************************************************************)
EXTENDS Integers

CONSTANT Nodes

VARIABLES
  sent,      \* sent[n]: the sequence numbers n has used for an envelope
  received,  \* received[n]: the ones of its peer that n has received
  acked      \* acked[n]: the ones n's user sees acknowledged

cvars == <<sent, received, acked>>

Peer(n) == CHOOSE m \in Nodes : m # n

Init ==
  /\ sent = [n \in Nodes |-> {}]
  /\ received = [n \in Nodes |-> {}]
  /\ acked = [n \in Nodes |-> {}]

\* One turn of engine n: it may send, receive, and revise what it shows.
Turn(n) ==
  /\ sent' \in [Nodes -> SUBSET Nat]
  /\ received' \in [Nodes -> SUBSET Nat]
  /\ acked' \in [Nodes -> SUBSET Nat]
  /\ \A m \in Nodes \ {n} :
       <<sent[m], received[m], acked[m]>>' = <<sent[m], received[m], acked[m]>>
  /\ sent[n] \subseteq sent'[n]
  /\ \A s \in sent[n], t \in sent'[n] \ sent[n] : s < t
  /\ received[n] \subseteq received'[n]
  /\ received'[n] \subseteq received[n] \cup sent[Peer(n)]
  /\ acked'[n] \subseteq received[Peer(n)]

Next == \E n \in Nodes : Turn(n)

Spec == Init /\ [][Next]_cvars
=============================================================================
