---------------------------- MODULE PolicyWants ----------------------------
(***************************************************************************)
(* Capability wants: CAP_SET and SYNC between the two engines of one       *)
(* relationship (policy/machine.rs, policy/engine.rs, apply_chat_policy    *)
(* and apply_resync_req of engine/inbound.rs, on_relationship_active of    *)
(* engine/lifecycle.rs), and the attachments an engine keeps while they    *)
(* are enforced.                                                           *)
(*                                                                         *)
(* Each envelope is dispatched once.  One stream delivers in order; a      *)
(* retransmission after a reconnect may come after younger envelopes, so   *)
(* the queue of one direction is taken from anywhere, and overtaken        *)
(* remembers that one was not taken from its head.                         *)
(***************************************************************************)
EXTENDS Pair, Sequences

CONSTANTS
  Caps,       \* the capabilities a user can switch
  CapIds,     \* the capability ids a client may name
  Attach,     \* the one among them that governs attachments
  MaxSets,    \* bound: CAP_SETs sent
  MaxSyncs,   \* bound: SYNCs sent
  MaxHeads    \* bound: attachments sent

ASSUME WantsBoundsAssumption ==
  /\ Attach \in Caps /\ Caps \subseteq CapIds
  /\ MaxSets \in Nat /\ MaxSyncs \in Nat /\ MaxHeads \in Nat

VARIABLES
  local,      \* local[n]: the capabilities n wants
  peer,       \* peer[n]: the capabilities n believes its peer wants
  held,       \* held[n]: n keeps live attachments of the relationship
  mail,       \* mail[n]: the envelopes on their way to n
  decided,    \* history: decided[n][c] is what n's user last chose for c
  overtaken,  \* history: some envelope arrived before an older one
  used        \* used[k]: how often the bounded step k was taken

wantVars == <<local, peer, held, mail, decided, overtaken, used>>

Limit == [sets |-> MaxSets, syncs |-> MaxSyncs, heads |-> MaxHeads, crashes |-> MaxCrashes]

Enforced(l, p) == l \cap p

CapSet(c, on) == [op |-> "cap_set", cap |-> c, on |-> on]

Sync(wants) == [op |-> "sync", wants |-> wants]

AttachHead == [op |-> "head"]

-----------------------------------------------------------------------------
WantsInit ==
  /\ local = [n \in Nodes |-> Caps]
  /\ peer = [n \in Nodes |-> Caps]
  /\ held = [n \in Nodes |-> FALSE]
  /\ mail = [n \in Nodes |-> <<>>]
  /\ decided = [n \in Nodes |-> [c \in Caps |-> TRUE]]
  /\ overtaken = FALSE
  /\ used = [k \in DOMAIN Limit |-> 0]

\* The bounded steps ks are taken.
Use(ks) ==
  /\ \A k \in ks : used[k] < Limit[k]
  /\ used' = [k \in DOMAIN used |-> IF k \in ks THEN used[k] + 1 ELSE used[k]]

\* Mutant: attachments are erased only when our own want goes.
SaveKeeps(n, l, p, crash) ==
  LET off == Attach \in Enforced(local[n], peer[n]) /\ Attach \notin l
  IN  /\ local' = [local EXCEPT ![n] = l]
      /\ peer' = [peer EXCEPT ![n] = p]
      /\ held' = [held EXCEPT ![n] = @ /\ ~(off /\ ~crash)]

\* save_policy, then the erasure of attachments when they stop being
\* enforced; the engine may die between the two (crash).
Save(n, l, p, crash) ==
  LET off == /\ Attach \in Enforced(local[n], peer[n])
             /\ Attach \notin Enforced(l, p)
  IN  /\ local' = [local EXCEPT ![n] = l]
      /\ peer' = [peer EXCEPT ![n] = p]
      /\ held' = [held EXCEPT ![n] = @ /\ ~(off /\ ~crash)]

\* The operations from the save on, as used by Use.
Steps(ks, crash) == ks \cup IF crash THEN {"crashes"} ELSE {}

Sent(n, q, m) == [q EXCEPT ![Peer(n)] = Append(@, m)]

-----------------------------------------------------------------------------
\* build_cap_set: off clears both wants, on sets ours.
WantsAfterSet(l, p, c, on) == IF on THEN <<l \cup {c}, p>> ELSE <<l \ {c}, p \ {c}>>

\* cap_bit is zero for an id outside the table.
Known(c) == c \in Caps

\* set_capability.  A crash loses the CAP_SET with or without the erasure.
SetCapability(n, c, on) ==
  LET w == WantsAfterSet(local[n], peer[n], c, on)
  IN  /\ Known(c)
      /\ on # (c \in local[n])
      /\ decided' = [decided EXCEPT ![n][c] = on]
      /\ \/ /\ Save(n, w[1], w[2], FALSE)
            /\ mail' = Sent(n, mail, CapSet(c, on))
            /\ Use({"sets"})
         \/ \E erased \in BOOLEAN :
              /\ Save(n, w[1], w[2], ~erased)
              /\ Use({"sets", "crashes"})
              /\ UNCHANGED mail
      /\ UNCHANGED overtaken

\* build_sync and send_envelope: after a RESYNC_REQ, or on activation.
SendSync(n) ==
  /\ mail' = Sent(n, mail, Sync(local[n]))
  /\ Use({"syncs"})
  /\ UNCHANGED <<local, peer, held, decided, overtaken>>

\* send_attachment: gated, then kept.
SendAttachment(n) ==
  /\ Attach \in Enforced(local[n], peer[n])
  /\ mail' = Sent(n, mail, AttachHead)
  /\ held' = [held EXCEPT ![n] = TRUE]
  /\ Use({"heads"})
  /\ UNCHANGED <<local, peer, decided, overtaken>>

-----------------------------------------------------------------------------
\* Mutant: the peer's off clears our want only, so that ours brings it back.
WantsAfterPeerOurs(l, p, c, on) == IF on THEN <<l, p \cup {c}>> ELSE <<l \ {c}, p>>

\* apply_cap_set: off clears both wants, on sets the peer's.
WantsAfterPeerSet(l, p, c, on) == IF on THEN <<l, p \cup {c}>> ELSE <<l \ {c}, p \ {c}>>

\* apply_chat_policy for CAP_SET.
ReceiveCapSet(n, m, rest) ==
  LET w == WantsAfterPeerSet(local[n], peer[n], m.cap, m.on)
  IN  /\ m.op = "cap_set"
      /\ \E crash \in BOOLEAN :
           /\ Save(n, w[1], w[2], crash)
           /\ Use(Steps({}, crash))
      /\ mail' = rest
      /\ UNCHANGED decided

\* apply_chat_policy for SYNC: the peer's wants are replaced, and a SYNC
\* answers it when the throttle allows.
ReceiveSync(n, m, rest) ==
  /\ m.op = "sync"
  /\ \/ \E crash \in BOOLEAN :
          /\ Save(n, local[n], m.wants, crash)
          /\ mail' = rest
          /\ Use(Steps({}, crash))
     \/ /\ Save(n, local[n], m.wants, FALSE)
        /\ mail' = Sent(n, rest, Sync(local[n]))
        /\ Use({"syncs"})
  /\ UNCHANGED decided

\* on_attach_head: kept only while attachments are enforced.
ReceiveHead(n, m, rest) ==
  /\ m.op = "head"
  /\ held' = [held EXCEPT ![n] = @ \/ Attach \in Enforced(local[n], peer[n])]
  /\ mail' = rest
  /\ UNCHANGED <<local, peer, decided, used>>

\* The envelopes q without the i-th.
Without(q, i) == SubSeq(q, 1, i - 1) \o SubSeq(q, i + 1, Len(q))

Receive(n) ==
  \E i \in DOMAIN mail[n] :
    LET m    == mail[n][i]
        rest == [mail EXCEPT ![n] = Without(@, i)]
    IN  /\ ReceiveCapSet(n, m, rest) \/ ReceiveSync(n, m, rest) \/ ReceiveHead(n, m, rest)
        /\ overtaken' = (overtaken \/ i > 1)

WantsNext ==
  \E n \in Nodes :
    \/ \E c \in CapIds, on \in BOOLEAN : SetCapability(n, c, on)
    \/ SendSync(n)
    \/ SendAttachment(n)
    \/ Receive(n)

WantsSpec == WantsInit /\ [][WantsNext]_wantVars

-----------------------------------------------------------------------------
(* Properties.                                                             *)

\* One-to-disable (policy/mod.rs, "either side turns a feature off for
\* both"): once all that n sent has arrived, in order, and no CAP_SET was lost
\* to a crash, a capability n's user last switched off is enforced at neither
\* end.
OneToDisable ==
  (~overtaken /\ used.crashes = 0)
    => \A n \in Nodes, c \in Caps :
         (~decided[n][c] /\ mail[Peer(n)] = <<>>)
           => \A m \in Nodes : c \notin Enforced(local[m], peer[m])

\* While no engine died between save_policy and erase_attach_messages,
\* attachments are kept only while they are enforced (erase_attach_messages,
\* on_attach_head), whatever overtakes what.
HeldOnlyIfEnforced ==
  used.crashes = 0
    => \A n \in Nodes : held[n] => Attach \in Enforced(local[n], peer[n])
=============================================================================
