--------------------------- MODULE Thread_proofs ----------------------------
(***************************************************************************)
(* What two engines show each other: the shared thread, for any messages,  *)
(* edits, deletions and wipes, and the signals, for every lifetime, interval *)
(* and delay that fit.                                                     *)
(*                                                                         *)
(* The invariant of the thread says of an envelope on its way what its     *)
(* sender did (a DELETE is of a message the sender has deleted, a MSG is   *)
(* not at its receiver yet), and of the author's row that the receiver's   *)
(* row has the same text or the EDIT of that text is on its way.           *)
(*                                                                         *)
(* NoFlicker is about seconds that pass: its invariant adds the throttle,  *)
(* the time left and the ages of the frames on their way (Lasts), and needs *)
(* SendInterval + Latency < TypingTtl.  ProfileConverges needs to know of  *)
(* every frame on its way which save it carries (ProfileInv).              *)
(***************************************************************************)
EXTENDS History, Signals, TLAPS

\* A leaf is for Zenon unless it names another prover.
USE Zenon

-----------------------------------------------------------------------------
(* The shared thread *)

Names == [from : Nodes, seq : Nat]
EntryType == [text : Int, edits : Nat, tomb : BOOLEAN]
Rows == UNION {[S -> EntryType] : S \in SUBSET Names}
Ops == {"msg", "edit", "delete", "delete_all"}
Letters == [from : Nodes, seq : Nat, op : Ops, ref : Names, after : SUBSET Names]

ThreadTypeOK ==
  /\ seq \in [Nodes -> Nat]
  /\ net \in SUBSET Letters
  /\ thread \in [Nodes -> Rows]
  /\ tombs \in [Nodes -> SUBSET Names]
  /\ cut \in [Nodes -> Nat]
  /\ wipes \in [Nodes -> SUBSET Names]
  /\ missed \in SUBSET Names /\ lost \in SUBSET Names
  /\ deleted \in [Nodes -> SUBSET Names]
  /\ prunes \in Nat

\* The number in a name was used.
Issued(id) == id.seq <= seq[id.from]

\* What an envelope on its way says, and when it was sent.
PostInOrder(m) ==
  /\ m.seq <= seq[m.from] /\ Issued(m.ref)
  /\ m.op \in {"msg", "delete_all"} => m.ref = Name(m.from, m.seq)
  /\ m.op = "edit" => m.ref.from = m.from
  /\ m.op = "delete" => m.ref \in deleted[m.from]
  /\ \A da \in m.after : da.from = m.from => da.seq < m.seq
  /\ m.op = "msg" => /\ m.ref \notin DOMAIN thread[Peer(m.from)]
                     /\ \A n \in Nodes : m.ref \notin wipes[n]

\* A number names one envelope on its way.
NamedOnce == \A m, k \in net : m.from = k.from /\ m.seq = k.seq => m = k

\* The EDIT numbered s of a message, the message, n's DELETE of it is on its way.
EditOnWay(id, s) == \E m \in net : m.op = "edit" /\ m.ref = id /\ m.seq = s
MsgOnWay(id) == \E m \in net : m.op = "msg" /\ m.ref = id
DeleteOnWay(n, id) == \E m \in net : m.op = "delete" /\ m.from = n /\ m.ref = id

\* A row of n.
RowInOrder(n, id) ==
  LET entry == thread[n][id] IN
  /\ Issued(id)
  /\ entry.tomb => id \in deleted[n]
  /\ ~entry.tomb => entry.text \in Nat /\ entry.text <= seq[id.from]

\* What n deleted is gone at n, and at its peer once the DELETE is there.
DeletedInOrder(n, id) ==
  /\ Issued(id)
  /\ id \in deleted[Peer(n)] \/ DeleteOnWay(n, id)
  /\ prunes = 0 => /\ id \in tombs[n]
                   /\ id \in DOMAIN thread[n] => thread[n][id].tomb /\ thread[n][id].text = Wiped

\* The author n shows the last EDIT of a message, and what the peer shows, or
\* will when the message comes, is that one or it is still on its way.
AuthorsRow(n, id) ==
  LET text == thread[n][id].text
      theirs == thread[Peer(n)]
  IN  /\ \A m \in net : m.op = "edit" /\ m.ref = id => m.seq <= text
      /\ id \notin missed =>
           /\ MsgOnWay(id) => text = 0 \/ EditOnWay(id, text)
           /\ id \in DOMAIN theirs /\ ~theirs[id].tomb =>
                theirs[id].text <= text /\ (theirs[id].text = text \/ EditOnWay(id, text))

\* The wipes n knows of are under its cut, which is one of them.
WipesInOrder(n) ==
  /\ \A da \in wipes[n] : Issued(da) /\ da.seq <= cut[n]
  /\ cut[n] > 0 => \E da \in wipes[n] : da.seq = cut[n]

\* The inductive invariant of the thread.
ThreadInv ==
  /\ ThreadTypeOK
  /\ \A m \in net : PostInOrder(m)
  /\ NamedOnce
  /\ \A n \in Nodes :
       /\ WipesInOrder(n)
       /\ \A id \in deleted[n] : DeletedInOrder(n, id)
       /\ \A id \in DOMAIN thread[n] :
            /\ RowInOrder(n, id)
            /\ id.from = n /\ ~thread[n][id].tomb => AuthorsRow(n, id)
  /\ WipeIsExact

-----------------------------------------------------------------------------
\* There are two engines, each the other's peer.
LEMMA PeerFacts ==
  ASSUME NEW n \in Nodes
  PROVE  /\ Peer(n) \in Nodes /\ Peer(n) # n /\ Peer(Peer(n)) = n
         /\ \A m \in Nodes : m = n \/ m = Peer(n)
<1>1. PICK a \in Nodes, b \in Nodes : a # b /\ Nodes = {a, b}  BY HistoryNodesAssumption
<1>2. Peer(a) = b  BY <1>1 DEF Peer
<1>3. Peer(b) = a  BY <1>1 DEF Peer
<1> QED  BY <1>1, <1>2, <1>3

\* Rows are a function on some messages.
LEMMA RowsFacts ==
  ASSUME NEW rows \in Rows
  PROVE  DOMAIN rows \subseteq Names /\ rows \in [DOMAIN rows -> EntryType]
BY DEF Rows

\* insert_message adds the original and leaves the other rows.
LEMMA InsertFacts ==
  ASSUME NEW rows \in Rows, NEW id \in Names
  PROVE  /\ Insert(rows, id) \in Rows /\ DOMAIN Insert(rows, id) = DOMAIN rows \cup {id}
         /\ \A i \in DOMAIN rows : Insert(rows, id)[i] = rows[i]
         /\ id \notin DOMAIN rows => Insert(rows, id)[id] = Original
<1>1. Original \in EntryType  BY SMT DEF Original, EntryType
<1>2. Insert(rows, id) \in [DOMAIN rows \cup {id} -> EntryType]  BY <1>1, RowsFacts DEF Insert
<1>3. DOMAIN rows \cup {id} \in SUBSET Names  BY RowsFacts
<1> QED  BY <1>2, <1>3 DEF Insert, Rows

\* mark_tombstoned wipes the text of one row, if it is there.
LEMMA TombstoneFacts ==
  ASSUME NEW rows \in Rows, NEW id \in Names
  PROVE  /\ MarkTombstoned(rows, id) \in Rows /\ DOMAIN MarkTombstoned(rows, id) = DOMAIN rows
         /\ \A i \in DOMAIN rows : i # id => MarkTombstoned(rows, id)[i] = rows[i]
         /\ id \in DOMAIN rows => /\ MarkTombstoned(rows, id)[id].tomb
                                  /\ MarkTombstoned(rows, id)[id].text = Wiped
<1>1. CASE id \notin DOMAIN rows  BY <1>1 DEF MarkTombstoned
<1>2. CASE id \in DOMAIN rows
  <2> DEFINE r == [text |-> Wiped, edits |-> rows[id].edits, tomb |-> TRUE]
             s == [rows EXCEPT ![id] = r]
  <2>0. rows[id] \in EntryType  BY <1>2, RowsFacts
  <2>1. r \in EntryType /\ r.tomb /\ r.text = Wiped
    <3>1. rows[id].edits \in Nat /\ Wiped \in Int  BY SMT, <2>0 DEF EntryType, Wiped
    <3> QED  BY <3>1 DEF EntryType
  <2>2. MarkTombstoned(rows, id) = s
    <3>1. rows \in [DOMAIN rows -> EntryType]  BY RowsFacts
    <3> QED  BY <1>2, <3>1 DEF MarkTombstoned, EntryType
  <2> HIDE DEF r
  <2>3. s \in [DOMAIN rows -> EntryType]  BY <2>1, RowsFacts
  <2>4. s[id] = r /\ \A i \in DOMAIN rows : i # id => s[i] = rows[i]  BY <1>2, RowsFacts
  <2>5. DOMAIN rows \in SUBSET Names  BY RowsFacts
  <2> HIDE DEF s
  <2>6. s \in Rows /\ DOMAIN s = DOMAIN rows  BY <2>3, <2>5 DEF Rows
  <2> QED  BY <2>1, <2>2, <2>4, <2>6
<1> QED  BY <1>1, <1>2

\* mark_edited sets the text of one row, unless it is a tombstone.
LEMMA EditFacts ==
  ASSUME NEW rows \in Rows, NEW id \in DOMAIN rows, NEW q \in Nat
  PROVE  /\ MarkEdited(rows, id, q) \in Rows /\ DOMAIN MarkEdited(rows, id, q) = DOMAIN rows
         /\ \A i \in DOMAIN rows : i # id => MarkEdited(rows, id, q)[i] = rows[i]
         /\ rows[id].tomb => MarkEdited(rows, id, q) = rows
         /\ ~rows[id].tomb => /\ ~MarkEdited(rows, id, q)[id].tomb
                              /\ MarkEdited(rows, id, q)[id].text = q
<1>1. CASE rows[id].tomb  BY <1>1 DEF MarkEdited
<1>2. CASE ~rows[id].tomb
  <2> DEFINE r == [text |-> q, edits |-> rows[id].edits + 1, tomb |-> FALSE]
             s == [rows EXCEPT ![id] = r]
  <2>0. rows[id] \in EntryType  BY RowsFacts
  <2>1. r \in EntryType /\ ~r.tomb /\ r.text = q
    <3>1. rows[id].edits + 1 \in Nat /\ q \in Int  BY SMT, <2>0 DEF EntryType
    <3> QED  BY <3>1 DEF EntryType
  <2>2. MarkEdited(rows, id, q) = s
    <3>1. rows \in [DOMAIN rows -> EntryType]  BY RowsFacts
    <3> QED  BY <1>2, <3>1 DEF MarkEdited, EntryType
  <2> HIDE DEF r
  <2>3. s \in [DOMAIN rows -> EntryType]  BY <2>1, RowsFacts
  <2>4. s[id] = r /\ \A i \in DOMAIN rows : i # id => s[i] = rows[i]  BY RowsFacts
  <2>5. DOMAIN rows \in SUBSET Names  BY RowsFacts
  <2> HIDE DEF s
  <2>6. s \in Rows /\ DOMAIN s = DOMAIN rows  BY <2>3, <2>5 DEF Rows
  <2> QED  BY <1>2, <2>1, <2>2, <2>4, <2>6
<1> QED  BY <1>1, <1>2

\* A ledger without rows.
LEMMA EmptyFacts == NoRows \in Rows /\ DOMAIN NoRows = {}
BY Zenon DEF NoRows, Rows

-----------------------------------------------------------------------------
\* What an engine sends has a number above all that were used.
LEMMA Sends ==
  ASSUME ThreadInv, NEW n \in Nodes, NEW op \in Ops, NEW ref \in Names,
         SendEnvelope(n, op, ref)
  PROVE  \E e \in Letters :
           /\ e.from = n /\ e.seq = seq[n] + 1 /\ e.op = op /\ e.ref = ref /\ e.after = wipes[n]
           /\ net' = net \cup {e} /\ net' \in SUBSET Letters
           /\ seq' \in [Nodes -> Nat] /\ seq'[n] = seq[n] + 1
           /\ \A k \in Nodes : seq'[k] \in Nat /\ seq[k] <= seq'[k]
           /\ NamedOnce'
           /\ \A da \in wipes[n] : da.from = n => da.seq < e.seq
<1> DEFINE e == [from |-> n, seq |-> seq[n] + 1, op |-> op, ref |-> ref, after |-> wipes[n]]
<1>1. /\ seq \in [Nodes -> Nat] /\ net \in SUBSET Letters /\ wipes[n] \in SUBSET Names
  BY DEF ThreadInv, ThreadTypeOK
<1>2. seq[n] + 1 \in Nat  BY SMT, <1>1
<1>3. /\ e \in Letters /\ e.from = n /\ e.seq = seq[n] + 1 /\ e.op = op /\ e.ref = ref
      /\ e.after = wipes[n]
  BY <1>1, <1>2 DEF Letters
<1>4. net' = net \cup {e} /\ seq' = [seq EXCEPT ![n] = @ + 1]  BY DEF SendEnvelope
<1> HIDE DEF e
<1>5. /\ seq' \in [Nodes -> Nat] /\ seq'[n] = seq[n] + 1
      /\ \A k \in Nodes : seq'[k] \in Nat /\ seq[k] <= seq'[k]
  BY SMT, <1>1, <1>4
<1>6. \A m \in net : m.seq <= seq[m.from] /\ m.from \in Nodes /\ m.seq \in Nat
  BY <1>1 DEF ThreadInv, PostInOrder, Letters
<1>7. \A m \in net : ~(m.from = e.from /\ m.seq = e.seq)
  BY SMT, <1>1, <1>3, <1>6
<1>8. NamedOnce'
  <2>1. NamedOnce  BY DEF ThreadInv
  <2> QED  BY <1>4, <1>7, <2>1 DEF NamedOnce
<1>9. \A da \in wipes[n] : da.from = n => da.seq < e.seq
  <2>1. \A da \in wipes[n] : da \in Names /\ da.seq <= seq[da.from]
    BY <1>1 DEF ThreadInv, WipesInOrder, Issued
  <2>2. \A da \in wipes[n] : da.seq \in Nat  BY <2>1 DEF Names
  <2> QED  BY SMT, <1>1, <1>3, <2>1, <2>2
<1> QED  BY <1>1, <1>3, <1>4, <1>5, <1>8, <1>9

\* The invariant, taken apart.
LEMMA Apart ==
  ASSUME ThreadInv
  PROVE  /\ seq \in [Nodes -> Nat] /\ net \in SUBSET Letters /\ thread \in [Nodes -> Rows]
         /\ tombs \in [Nodes -> SUBSET Names] /\ cut \in [Nodes -> Nat]
         /\ wipes \in [Nodes -> SUBSET Names] /\ deleted \in [Nodes -> SUBSET Names]
         /\ prunes \in Nat
         /\ \A m \in net : /\ m.from \in Nodes /\ m.seq \in Nat /\ m.op \in Ops
                           /\ m.ref \in Names /\ m.after \in SUBSET Names
         /\ \A id \in Names : id.from \in Nodes /\ id.seq \in Nat
         /\ \A n \in Nodes : DOMAIN thread[n] \subseteq Names
BY RowsFacts DEF ThreadInv, ThreadTypeOK, Letters, Names

\* A name, taken apart.
LEMMA NameFields ==
  ASSUME NEW f, NEW q
  PROVE  Name(f, q).from = f /\ Name(f, q).seq = q
BY SMT DEF Name

\* send_text keeps the invariant: a MSG is on its way, and the row is at its author.
LEMMA SendTextKeeps ==
  ASSUME ThreadInv, NEW n \in Nodes, SendText(n)
  PROVE  ThreadInv'
<1> DEFINE id == Name(n, seq[n] + 1)
<1>1. id \in Names /\ id.from = n /\ id.seq = seq[n] + 1  BY SMT, Apart DEF Name, Names
<1>2. SendEnvelope(n, "msg", id) /\ "msg" \in Ops  BY DEF SendText, Ops
<1>3. thread' = [thread EXCEPT ![n] = Insert(thread[n], id)]  BY Apart DEF SendText
<1>4. UNCHANGED <<tombs, cut, wipes, missed, deleted, lost, lapses, prunes>>  BY DEF SendText
<1> HIDE DEF id
<1>5. PICK e \in Letters :
           /\ e.from = n /\ e.seq = seq[n] + 1 /\ e.op = "msg" /\ e.ref = id /\ e.after = wipes[n]
           /\ net' = net \cup {e} /\ net' \in SUBSET Letters
           /\ seq' \in [Nodes -> Nat] /\ seq'[n] = seq[n] + 1
           /\ \A k \in Nodes : seq'[k] \in Nat /\ seq[k] <= seq'[k]
           /\ NamedOnce'
           /\ \A da \in wipes[n] : da.from = n => da.seq < e.seq
  BY SMT, <1>1, <1>2, Sends
<1>6. \A i \in Names : Issued(i) => Issued(i)' /\ i # id
  BY SMT, <1>1, <1>5, Apart DEF Issued
<1>7. /\ thread' \in [Nodes -> Rows]
      /\ DOMAIN thread'[n] = DOMAIN thread[n] \cup {id} /\ id \notin DOMAIN thread[n]
      /\ thread'[n][id] = Original
      /\ \A i \in DOMAIN thread[n] : thread'[n][i] = thread[n][i]
      /\ \A k \in Nodes : k # n => thread'[k] = thread[k]
      /\ id \notin DOMAIN thread[Peer(n)]
  <2>1. \A k \in Nodes : id \notin DOMAIN thread[k]
    BY <1>6, Apart DEF ThreadInv, RowInOrder
  <2>2. thread[n] \in Rows  BY Apart
  <2>3. thread' \in [Nodes -> Rows]  BY <1>1, <1>3, <2>2, Apart, InsertFacts
  <2>4. thread'[n] = Insert(thread[n], id) /\ \A k \in Nodes : k # n => thread'[k] = thread[k]
    BY <1>3, Apart
  <2> QED  BY SMTT(60), <1>1, <2>1, <2>2, <2>3, <2>4, InsertFacts, PeerFacts
<1>8. ThreadTypeOK'  BY <1>4, <1>5, <1>7 DEF ThreadInv, ThreadTypeOK
<1>9. ASSUME NEW m \in net'  PROVE PostInOrder(m)'
  <2>1. CASE m \in net
    <3>1. PostInOrder(m)  BY <2>1 DEF ThreadInv
    <3>2. m.op = "msg" => m.ref.from = m.from  BY SMT, <3>1, Apart DEF PostInOrder, Name
    <3>3. m.op = "msg" => m.ref \notin DOMAIN thread'[Peer(m.from)]
      BY SMT, <1>1, <1>7, <2>1, <3>1, <3>2, Apart, PeerFacts DEF PostInOrder
    <3>4. m.seq <= seq'[m.from] /\ Issued(m.ref)'
      BY SMT, <1>5, <1>6, <2>1, <3>1, Apart DEF PostInOrder
    <3> QED  BY <1>4, <3>1, <3>3, <3>4 DEF PostInOrder
  <2>2. CASE m = e
    <3>1. m.seq <= seq'[m.from] /\ Issued(m.ref)'  BY SMT, <1>1, <1>5, <2>2, Apart DEF Issued
    <3>2. m.ref = Name(m.from, m.seq)  BY <1>5, <2>2 DEF id
    <3>3. m.ref \notin DOMAIN thread'[Peer(m.from)]  BY <1>5, <1>7, <2>2, PeerFacts
    <3>4. \A k \in Nodes : m.ref \notin wipes'[k]
      BY <1>4, <1>5, <1>6, <2>2, Apart DEF ThreadInv, WipesInOrder
    <3> QED  BY <1>5, <2>2, <3>1, <3>2, <3>3, <3>4 DEF PostInOrder
  <2> QED  BY <1>5, <2>1, <2>2
<1>10. ASSUME NEW k \in Nodes  PROVE WipesInOrder(k)'
  BY <1>4, <1>6, Apart DEF ThreadInv, WipesInOrder
<1>11. ASSUME NEW k \in Nodes, NEW i \in deleted'[k]  PROVE DeletedInOrder(k, i)'
  <2>1. DeletedInOrder(k, i) /\ i # id /\ Issued(i)' /\ i \in Names
    BY <1>4, <1>6, Apart DEF ThreadInv, DeletedInOrder
  <2>2. DeleteOnWay(k, i) => DeleteOnWay(k, i)'  BY <1>5 DEF DeleteOnWay
  <2>3. i \in DOMAIN thread'[k] => i \in DOMAIN thread[k] /\ thread'[k][i] = thread[k][i]
    BY <1>7, <2>1
  <2> QED  BY <1>4, <2>1, <2>2, <2>3 DEF DeletedInOrder
<1>12. ASSUME NEW k \in Nodes, NEW i \in DOMAIN thread'[k]  PROVE RowInOrder(k, i)'
  <2>1. CASE i = id
    <3>1. k = n  BY <1>7, <2>1, PeerFacts
    <3>2. Issued(i)'  BY SMT, <1>1, <1>5, <2>1 DEF Issued
    <3>3. seq'[i.from] \in Nat  BY <1>1, <1>5, <2>1
    <3> QED  BY SMT, <1>7, <2>1, <3>1, <3>2, <3>3 DEF RowInOrder, Original
  <2>2. CASE i # id
    <3>1. i \in DOMAIN thread[k] /\ thread'[k][i] = thread[k][i]  BY <1>7, <2>2
    <3>2. RowInOrder(k, i) /\ i \in Names  BY <3>1, Apart DEF ThreadInv
    <3>3. /\ i.from \in Nodes /\ seq[i.from] <= seq'[i.from]
          /\ seq[i.from] \in Nat /\ seq'[i.from] \in Nat
      BY <1>5, <3>2, Apart
    <3> QED  BY SMT, <1>4, <1>6, <3>1, <3>2, <3>3 DEF RowInOrder
  <2> QED  BY <2>1, <2>2
<1>13. ASSUME NEW k \in Nodes, NEW i \in DOMAIN thread'[k], i.from = k, ~thread'[k][i].tomb
       PROVE  AuthorsRow(k, i)'
  <2>1. CASE i = id
    <3>1. k = n  BY <1>1, <1>13, <2>1
    <3>2. ~\E m \in net' : m.op = "edit" /\ m.ref = id
      BY <1>5, <1>6, Apart DEF ThreadInv, PostInOrder
    <3>3. id \notin DOMAIN thread'[Peer(k)]  BY <1>7, <3>1, PeerFacts
    <3>4. thread'[k][i].text = 0  BY SMT, <1>7, <2>1, <3>1 DEF Original
    <3> QED  BY <2>1, <3>2, <3>3, <3>4 DEF AuthorsRow
  <2>2. CASE i # id
    <3>1. /\ i \in DOMAIN thread[k] /\ thread'[k][i] = thread[k][i]
          /\ i \in DOMAIN thread'[Peer(k)] =>
               i \in DOMAIN thread[Peer(k)] /\ thread'[Peer(k)][i] = thread[Peer(k)][i]
      BY SMT, <1>7, <2>2, PeerFacts
    <3>2. AuthorsRow(k, i)  BY <1>13, <3>1 DEF ThreadInv
    <3>3. /\ \A m \in net' : m.op = "edit" /\ m.ref = i => m \in net
          /\ MsgOnWay(i)' => MsgOnWay(i)
      BY <1>5, <2>2 DEF MsgOnWay
    <3>4. \A q : EditOnWay(i, q) => EditOnWay(i, q)'  BY <1>5 DEF EditOnWay
    <3> QED  BY <1>4, <3>1, <3>2, <3>3, <3>4 DEF AuthorsRow
  <2> QED  BY <2>1, <2>2
<1>14. WipeIsExact'
  <2>1. ASSUME NEW k \in Nodes, NEW da \in wipes'[k], NEW i \in DOMAIN thread'[k], da.from = i.from
        PROVE  i.seq > da.seq
    <3>1. CASE i = id
      <4>1. k = n  BY <1>7, <3>1, PeerFacts
      <4> QED  BY <1>1, <1>4, <1>5, <2>1, <3>1, <4>1, Apart
    <3>2. CASE i # id
      <4>1. i \in DOMAIN thread[k]  BY <1>7, <3>2
      <4> QED  BY <1>4, <2>1, <4>1 DEF ThreadInv, WipeIsExact
    <3> QED  BY <3>1, <3>2
  <2>2. \A i \in lost' : \E da \in wipes'[Peer(i.from)] : da.from # i.from
    BY <1>4 DEF ThreadInv, WipeIsExact
  <2> QED  BY <2>1, <2>2 DEF WipeIsExact
<1> QED  BY <1>5, <1>8, <1>9, <1>10, <1>11, <1>12, <1>13, <1>14 DEF ThreadInv

\* send_edit keeps it: the author's row has the text of an EDIT on its way.
LEMMA SendEditKeeps ==
  ASSUME ThreadInv, NEW n \in Nodes, NEW id \in DOMAIN thread[n], SendEdit(n, id)
  PROVE  ThreadInv'
<1>1. id \in Names /\ id.from = n /\ Issued(id) /\ ~thread[n][id].tomb
  BY Apart DEF SendEdit, ThreadInv, RowInOrder
<1>2. SendEnvelope(n, "edit", id) /\ "edit" \in Ops  BY DEF SendEdit, Ops
<1>3. thread' = [thread EXCEPT ![n] = MarkEdited(thread[n], id, seq[n] + 1)]
  BY Apart DEF SendEdit
<1>4. UNCHANGED <<tombs, cut, wipes, missed, deleted, lost, lapses, prunes>>  BY DEF SendEdit
<1>5. PICK e \in Letters :
           /\ e.from = n /\ e.seq = seq[n] + 1 /\ e.op = "edit" /\ e.ref = id /\ e.after = wipes[n]
           /\ net' = net \cup {e} /\ net' \in SUBSET Letters
           /\ seq' \in [Nodes -> Nat] /\ seq'[n] = seq[n] + 1
           /\ \A k \in Nodes : seq'[k] \in Nat /\ seq[k] <= seq'[k]
           /\ NamedOnce'
           /\ \A da \in wipes[n] : da.from = n => da.seq < e.seq
  BY SMT, <1>1, <1>2, Sends
<1>6. \A i \in Names : Issued(i) => Issued(i)'  BY SMT, <1>5, Apart DEF Issued
<1>7. /\ thread' \in [Nodes -> Rows]
      /\ \A k \in Nodes : DOMAIN thread'[k] = DOMAIN thread[k]
      /\ ~thread'[n][id].tomb /\ thread'[n][id].text = seq[n] + 1
      /\ \A k \in Nodes : \A i \in DOMAIN thread[k] :
            k # n \/ i # id => thread'[k][i] = thread[k][i]
  <2>1. thread[n] \in Rows /\ seq[n] + 1 \in Nat  BY SMT, Apart
  <2>2. thread' \in [Nodes -> Rows]  BY <1>3, <2>1, Apart, EditFacts
  <2>3. /\ thread'[n] = MarkEdited(thread[n], id, seq[n] + 1)
        /\ \A k \in Nodes : k # n => thread'[k] = thread[k]
    BY <1>3, Apart
  <2>4. /\ DOMAIN thread'[n] = DOMAIN thread[n]
        /\ \A i \in DOMAIN thread[n] : i # id => thread'[n][i] = thread[n][i]
        /\ ~thread'[n][id].tomb /\ thread'[n][id].text = seq[n] + 1
    BY SMT, <1>1, <2>1, <2>3, EditFacts
  <2> QED  BY <2>2, <2>3, <2>4
<1>8. ThreadTypeOK'  BY <1>4, <1>5, <1>7 DEF ThreadInv, ThreadTypeOK
<1>9. ASSUME NEW m \in net'  PROVE PostInOrder(m)'
  <2>1. CASE m \in net
    <3>1. PostInOrder(m) /\ Peer(m.from) \in Nodes  BY <2>1, Apart, PeerFacts DEF ThreadInv
    <3>2. m.seq <= seq'[m.from] /\ Issued(m.ref)'
      BY SMT, <1>5, <1>6, <2>1, <3>1, Apart DEF PostInOrder
    <3> QED  BY <1>4, <1>7, <3>1, <3>2 DEF PostInOrder
  <2>2. CASE m = e
    <3>1. m.seq <= seq'[m.from] /\ Issued(m.ref)'  BY SMT, <1>1, <1>5, <1>6, <2>2, Apart
    <3> QED  BY <1>1, <1>5, <2>2, <3>1 DEF PostInOrder
  <2> QED  BY <1>5, <2>1, <2>2
<1>10. ASSUME NEW k \in Nodes  PROVE WipesInOrder(k)'
  BY <1>4, <1>6, Apart DEF ThreadInv, WipesInOrder
<1>11. ASSUME NEW k \in Nodes, NEW i \in deleted'[k]  PROVE DeletedInOrder(k, i)'
  <2>1. DeletedInOrder(k, i) /\ Issued(i)'  BY <1>4, <1>6, Apart DEF ThreadInv, DeletedInOrder
  <2>2. DeleteOnWay(k, i) => DeleteOnWay(k, i)'  BY <1>5 DEF DeleteOnWay
  <2>3. prunes = 0 /\ i \in DOMAIN thread'[k] =>
          i \in DOMAIN thread[k] /\ thread'[k][i] = thread[k][i]
    BY <1>1, <1>7, <2>1 DEF DeletedInOrder
  <2> QED  BY <1>4, <2>1, <2>2, <2>3 DEF DeletedInOrder
<1>12. ASSUME NEW k \in Nodes, NEW i \in DOMAIN thread'[k]  PROVE RowInOrder(k, i)'
  <2>1. i \in DOMAIN thread[k] /\ RowInOrder(k, i) /\ i \in Names  BY <1>7, Apart DEF ThreadInv
  <2>2. /\ i.from \in Nodes /\ seq[i.from] <= seq'[i.from]
        /\ seq[i.from] \in Nat /\ seq'[i.from] \in Nat
    BY <1>5, <2>1, Apart
  <2>3. CASE k = n /\ i = id
    BY SMT, <1>1, <1>5, <1>6, <1>7, <2>2, <2>3 DEF RowInOrder
  <2>4. CASE k # n \/ i # id
    <3>1. thread'[k][i] = thread[k][i]  BY <1>7, <2>1, <2>4
    <3> QED  BY SMT, <1>4, <1>6, <2>1, <2>2, <3>1 DEF RowInOrder
  <2> QED  BY <2>3, <2>4
<1>13. ASSUME NEW k \in Nodes, NEW i \in DOMAIN thread'[k], i.from = k, ~thread'[k][i].tomb
       PROVE  AuthorsRow(k, i)'
  <2>0. i \in DOMAIN thread[k] /\ i \in Names  BY <1>7, Apart
  <2>1. CASE i = id
    <3>1. k = n /\ thread'[k][i].text = e.seq  BY <1>1, <1>5, <1>7, <1>13, <2>1
    <3>2. \A m \in net' : m.op = "edit" /\ m.ref = id => m.seq <= e.seq
      <4>1. \A m \in net : m.op = "edit" /\ m.ref = id => m.seq <= seq[n]
        BY SMT, <1>1, Apart DEF ThreadInv, PostInOrder
      <4> QED  BY SMT, <1>5, <4>1, Apart
    <3>3. EditOnWay(id, e.seq)'  BY <1>5 DEF EditOnWay
    <3>4. id \in DOMAIN thread'[Peer(k)] /\ ~thread'[Peer(k)][id].tomb =>
            thread'[Peer(k)][id].text <= e.seq
      <4>1. SUFFICES ASSUME id \in DOMAIN thread'[Peer(k)], ~thread'[Peer(k)][id].tomb
                     PROVE  thread'[Peer(k)][id].text <= e.seq
        OBVIOUS
      <4>2. /\ Peer(k) \in Nodes /\ id \in DOMAIN thread[Peer(k)]
            /\ thread'[Peer(k)][id] = thread[Peer(k)][id]
        BY ZenonT(60), <1>7, <3>1, <4>1, PeerFacts
      <4>3. thread[Peer(k)][id].text \in Nat /\ thread[Peer(k)][id].text <= seq[n]
        BY <1>1, <4>1, <4>2 DEF ThreadInv, RowInOrder
      <4> QED  BY SMT, <1>5, <4>2, <4>3, Apart
    <3> QED  BY <2>1, <3>1, <3>2, <3>3, <3>4 DEF AuthorsRow
  <2>2. CASE i # id
    <3>1. /\ thread'[k][i] = thread[k][i]
          /\ i \in DOMAIN thread'[Peer(k)] =>
               i \in DOMAIN thread[Peer(k)] /\ thread'[Peer(k)][i] = thread[Peer(k)][i]
      BY SMT, <1>7, <2>0, <2>2, PeerFacts
    <3>2. AuthorsRow(k, i)  BY <1>13, <2>0, <3>1 DEF ThreadInv
    <3>3. /\ \A m \in net' : m.op = "edit" /\ m.ref = i => m \in net
          /\ MsgOnWay(i)' => MsgOnWay(i)
      BY <1>5, <2>2 DEF MsgOnWay
    <3>4. \A q : EditOnWay(i, q) => EditOnWay(i, q)'  BY <1>5 DEF EditOnWay
    <3> QED  BY <1>4, <3>1, <3>2, <3>3, <3>4 DEF AuthorsRow
  <2> QED  BY <2>1, <2>2
<1>14. WipeIsExact'  BY <1>4, <1>7 DEF ThreadInv, WipeIsExact
<1> QED  BY <1>5, <1>8, <1>9, <1>10, <1>11, <1>12, <1>13, <1>14 DEF ThreadInv

\* A DELETE at n, of its user or its peer.
Buries(n, id) ==
  /\ thread' \in [Nodes -> Rows]
  /\ tombs' \in [Nodes -> SUBSET Names] /\ deleted' \in [Nodes -> SUBSET Names]
  /\ id \in tombs'[n] /\ id \in deleted'[n]
  /\ id \in DOMAIN thread'[n] => thread'[n][id].tomb /\ thread'[n][id].text = Wiped
  /\ \A k \in Nodes :
       /\ DOMAIN thread'[k] = DOMAIN thread[k]
       /\ tombs[k] \subseteq tombs'[k] /\ deleted[k] \subseteq deleted'[k]
       /\ \A i \in deleted'[k] : k # n \/ i # id => i \in deleted[k]
       /\ \A i \in DOMAIN thread[k] : k # n \/ i # id => thread'[k][i] = thread[k][i]

\* Marking the row and adding the tombstone is a DELETE, whoever asked for it.
LEMMA BuriesFacts ==
  ASSUME ThreadInv, NEW n \in Nodes, NEW id \in Names,
         thread' = [thread EXCEPT ![n] = MarkTombstoned(thread[n], id)],
         tombs' = [tombs EXCEPT ![n] = tombs[n] \cup {id}],
         deleted' = [deleted EXCEPT ![n] = deleted[n] \cup {id}]
  PROVE  Buries(n, id)
<1>1. /\ tombs' \in [Nodes -> SUBSET Names] /\ tombs'[n] = tombs[n] \cup {id}
      /\ \A k \in Nodes : k # n => tombs'[k] = tombs[k]
  BY Apart
<1>2. /\ deleted' \in [Nodes -> SUBSET Names] /\ deleted'[n] = deleted[n] \cup {id}
      /\ \A k \in Nodes : k # n => deleted'[k] = deleted[k]
  BY Apart
<1>3. thread[n] \in Rows  BY Apart
<1>4. thread' \in [Nodes -> Rows]  BY <1>3, Apart, TombstoneFacts
<1>5. /\ thread'[n] = MarkTombstoned(thread[n], id)
      /\ \A k \in Nodes : k # n => thread'[k] = thread[k]
  BY Apart
<1>6. /\ DOMAIN thread'[n] = DOMAIN thread[n]
      /\ \A i \in DOMAIN thread[n] : i # id => thread'[n][i] = thread[n][i]
      /\ id \in DOMAIN thread'[n] => thread'[n][id].tomb /\ thread'[n][id].text = Wiped
  BY SMT, <1>3, <1>5, TombstoneFacts
<1> QED  BY ZenonT(60), <1>1, <1>2, <1>4, <1>5, <1>6 DEF Buries

\* send_delete keeps it: the DELETE is on its way and the author has the tombstone.
LEMMA SendDeleteKeeps ==
  ASSUME ThreadInv, NEW n \in Nodes, NEW id \in DOMAIN thread[n], SendDelete(n, id)
  PROVE  ThreadInv'
<1>1. id \in Names /\ Issued(id)  BY Apart DEF ThreadInv, RowInOrder
<1>2. SendEnvelope(n, "delete", id) /\ "delete" \in Ops  BY DEF SendDelete, Ops
<1>3. /\ thread' = [thread EXCEPT ![n] = MarkTombstoned(thread[n], id)]
      /\ tombs' = [tombs EXCEPT ![n] = tombs[n] \cup {id}]
      /\ deleted' = [deleted EXCEPT ![n] = deleted[n] \cup {id}]
  BY Apart DEF SendDelete
<1>4. UNCHANGED <<cut, wipes, missed, lost, lapses, prunes>>  BY DEF SendDelete
<1>5. PICK e \in Letters :
           /\ e.from = n /\ e.seq = seq[n] + 1 /\ e.op = "delete" /\ e.ref = id
           /\ e.after = wipes[n]
           /\ net' = net \cup {e} /\ net' \in SUBSET Letters
           /\ seq' \in [Nodes -> Nat] /\ seq'[n] = seq[n] + 1
           /\ \A k \in Nodes : seq'[k] \in Nat /\ seq[k] <= seq'[k]
           /\ NamedOnce'
           /\ \A da \in wipes[n] : da.from = n => da.seq < e.seq
  BY SMT, <1>1, <1>2, Sends
<1>6. \A i \in Names : Issued(i) => Issued(i)'  BY SMT, <1>5, Apart DEF Issued
<1>7. Buries(n, id)  BY <1>1, <1>3, BuriesFacts
<1>8. ThreadTypeOK'  BY <1>4, <1>5, <1>7 DEF ThreadInv, ThreadTypeOK, Buries
<1>9. ASSUME NEW m \in net'  PROVE PostInOrder(m)'
  <2>1. CASE m \in net
    <3>1. PostInOrder(m) /\ Peer(m.from) \in Nodes /\ m.from \in Nodes
      BY <2>1, Apart, PeerFacts DEF ThreadInv
    <3>2. m.seq <= seq'[m.from] /\ Issued(m.ref)'
      BY SMT, <1>5, <1>6, <2>1, <3>1, Apart DEF PostInOrder
    <3> QED  BY <1>4, <1>7, <3>1, <3>2 DEF PostInOrder, Buries
  <2>2. CASE m = e
    <3>1. m.seq <= seq'[m.from] /\ Issued(m.ref)'  BY SMT, <1>1, <1>5, <1>6, <2>2, Apart
    <3> QED  BY <1>1, <1>5, <1>7, <2>2, <3>1 DEF PostInOrder, Buries
  <2> QED  BY <1>5, <2>1, <2>2
<1>10. ASSUME NEW k \in Nodes  PROVE WipesInOrder(k)'
  BY <1>4, <1>6, Apart DEF ThreadInv, WipesInOrder
<1>11. ASSUME NEW k \in Nodes, NEW i \in deleted'[k]  PROVE DeletedInOrder(k, i)'
  <2>1. CASE k = n /\ i = id
    <3>1. DeleteOnWay(n, id)'  BY <1>5 DEF DeleteOnWay
    <3>2. Issued(id)'  BY <1>1, <1>6
    <3> QED  BY <1>7, <2>1, <3>1, <3>2 DEF DeletedInOrder, Buries
  <2>2. CASE k # n \/ i # id
    <3>1. i \in deleted[k] /\ i \in Names /\ Peer(k) \in Nodes
      BY <1>7, <2>2, Apart, PeerFacts DEF Buries
    <3>2. DeletedInOrder(k, i)  BY <3>1 DEF ThreadInv
    <3>3. Issued(i)'  BY <1>6, <3>1, <3>2 DEF DeletedInOrder
    <3>4. DeleteOnWay(k, i) => DeleteOnWay(k, i)'  BY <1>5 DEF DeleteOnWay
    <3> QED  BY <1>4, <1>7, <2>2, <3>1, <3>2, <3>3, <3>4 DEF DeletedInOrder, Buries
  <2> QED  BY <2>1, <2>2
<1>12. ASSUME NEW k \in Nodes, NEW i \in DOMAIN thread'[k]  PROVE RowInOrder(k, i)'
  <2>1. i \in DOMAIN thread[k] /\ RowInOrder(k, i) /\ i \in Names
    BY <1>7, Apart DEF ThreadInv, Buries
  <2>2. /\ i.from \in Nodes /\ seq[i.from] <= seq'[i.from]
        /\ seq[i.from] \in Nat /\ seq'[i.from] \in Nat
    BY <1>5, <2>1, Apart
  <2>3. CASE k = n /\ i = id
    BY <1>1, <1>6, <1>7, <2>1, <2>3 DEF RowInOrder, Buries
  <2>4. CASE k # n \/ i # id
    <3>1. thread'[k][i] = thread[k][i] /\ deleted[k] \subseteq deleted'[k]
      BY <1>7, <2>1, <2>4 DEF Buries
    <3> QED  BY SMT, <1>6, <2>1, <2>2, <3>1 DEF RowInOrder
  <2> QED  BY <2>3, <2>4
<1>13. ASSUME NEW k \in Nodes, NEW i \in DOMAIN thread'[k], i.from = k, ~thread'[k][i].tomb
       PROVE  AuthorsRow(k, i)'
  <2>1. Peer(k) \in Nodes /\ i \in DOMAIN thread[k]  BY <1>7, PeerFacts DEF Buries
  <2>2. k # n \/ i # id  BY <1>7, <1>13, <2>1 DEF Buries
  <2>3. /\ thread'[k][i] = thread[k][i]
        /\ i \in DOMAIN thread'[Peer(k)] /\ ~thread'[Peer(k)][i].tomb =>
             i \in DOMAIN thread[Peer(k)] /\ thread'[Peer(k)][i] = thread[Peer(k)][i]
    BY <1>7, <2>1, <2>2 DEF Buries
  <2>4. AuthorsRow(k, i)  BY <1>13, <2>1, <2>3 DEF ThreadInv
  <2>5. /\ \A m \in net' : m.op = "edit" => m \in net
        /\ MsgOnWay(i)' => MsgOnWay(i)
    BY <1>5 DEF MsgOnWay
  <2>6. \A q : EditOnWay(i, q) => EditOnWay(i, q)'  BY <1>5 DEF EditOnWay
  <2> QED  BY <1>4, <2>3, <2>4, <2>5, <2>6 DEF AuthorsRow
<1>14. WipeIsExact'  BY <1>4, <1>7 DEF ThreadInv, WipeIsExact, Buries
<1> QED  BY <1>5, <1>8, <1>9, <1>10, <1>11, <1>12, <1>13, <1>14 DEF ThreadInv

\* A DELETE that arrives keeps it: both engines have deleted the message.
LEMMA ReceiveDeleteKeeps ==
  ASSUME ThreadInv, NEW m \in net, ReceiveDelete(m)
  PROVE  ThreadInv'
<1> DEFINE n == Peer(m.from)
           id == m.ref
<1>1. /\ n \in Nodes /\ m.from \in Nodes /\ n # m.from /\ Peer(n) = m.from
      /\ id \in Names /\ Issued(id) /\ m.op = "delete" /\ id \in deleted[m.from]
  BY Apart, PeerFacts DEF ThreadInv, PostInOrder, ReceiveDelete
<1>2. net' = net \ {m} /\ UNCHANGED <<seq, cut, wipes, missed, lost, lapses, prunes>>
  BY DEF ReceiveDelete
<1>3. /\ thread' = [thread EXCEPT ![n] = MarkTombstoned(thread[n], id)]
      /\ tombs' = [tombs EXCEPT ![n] = tombs[n] \cup {id}]
      /\ deleted' = [deleted EXCEPT ![n] = deleted[n] \cup {id}]
  BY <1>1, Apart DEF ReceiveDelete
<1> HIDE DEF n, id
<1>4. Buries(n, id)  BY <1>1, <1>3, BuriesFacts
<1>5. \A i : Issued(i) <=> Issued(i)'  BY <1>2 DEF Issued
<1>6. ThreadTypeOK'  BY <1>2, <1>4 DEF ThreadInv, ThreadTypeOK, Buries
<1>7. ASSUME NEW k \in net'  PROVE PostInOrder(k)'
  <2>1. PostInOrder(k) /\ k.from \in Nodes /\ Peer(k.from) \in Nodes
    BY <1>2, Apart, PeerFacts DEF ThreadInv
  <2> QED  BY <1>2, <1>4, <1>5, <2>1 DEF PostInOrder, Buries
<1>8. NamedOnce'  BY <1>2 DEF ThreadInv, NamedOnce
<1>9. ASSUME NEW k \in Nodes  PROVE WipesInOrder(k)'
  BY <1>2, <1>5 DEF ThreadInv, WipesInOrder
<1>10. ASSUME NEW k \in Nodes, NEW i \in deleted'[k]  PROVE DeletedInOrder(k, i)'
  <2>1. CASE k = n /\ i = id
    <3>1. id \in deleted'[Peer(n)]  BY <1>1, <1>4 DEF Buries
    <3> QED  BY <1>1, <1>4, <1>5, <2>1, <3>1 DEF DeletedInOrder, Buries
  <2>2. CASE k # n \/ i # id
    <3>1. i \in deleted[k] /\ Peer(k) \in Nodes  BY <1>4, <2>2, PeerFacts DEF Buries
    <3>2. DeletedInOrder(k, i)  BY <3>1 DEF ThreadInv
    <3>3. i \in deleted'[Peer(k)] \/ DeleteOnWay(k, i)'
      <4>1. CASE i \in deleted[Peer(k)]  BY <1>4, <3>1, <4>1 DEF Buries
      <4>2. CASE DeleteOnWay(k, i)
        <5>1. PICK d \in net : d.op = "delete" /\ d.from = k /\ d.ref = i  BY <4>2 DEF DeleteOnWay
        <5>2. CASE d = m  BY <1>1, <1>4, <5>1, <5>2 DEF n, id, Buries
        <5>3. CASE d # m  BY <1>2, <5>1, <5>3 DEF DeleteOnWay
        <5> QED  BY <5>2, <5>3
      <4> QED  BY <3>2, <4>1, <4>2 DEF DeletedInOrder
    <3> QED  BY <1>2, <1>4, <1>5, <2>2, <3>1, <3>2, <3>3 DEF DeletedInOrder, Buries
  <2> QED  BY <2>1, <2>2
<1>11. ASSUME NEW k \in Nodes, NEW i \in DOMAIN thread'[k]  PROVE RowInOrder(k, i)'
  <2>1. i \in DOMAIN thread[k] /\ RowInOrder(k, i)  BY <1>4 DEF ThreadInv, Buries
  <2>2. CASE k = n /\ i = id
    BY <1>1, <1>4, <1>5, <2>1, <2>2 DEF RowInOrder, Buries
  <2>3. CASE k # n \/ i # id
    <3>1. thread'[k][i] = thread[k][i] /\ deleted[k] \subseteq deleted'[k]
      BY <1>4, <2>1, <2>3 DEF Buries
    <3> QED  BY <1>2, <1>5, <2>1, <3>1 DEF RowInOrder
  <2> QED  BY <2>2, <2>3
<1>12. ASSUME NEW k \in Nodes, NEW i \in DOMAIN thread'[k], i.from = k, ~thread'[k][i].tomb
       PROVE  AuthorsRow(k, i)'
  <2>1. Peer(k) \in Nodes /\ i \in DOMAIN thread[k]  BY <1>4, PeerFacts DEF Buries
  <2>2. k # n \/ i # id  BY <1>4, <1>12, <2>1 DEF Buries
  <2>3. /\ thread'[k][i] = thread[k][i]
        /\ i \in DOMAIN thread'[Peer(k)] /\ ~thread'[Peer(k)][i].tomb =>
             i \in DOMAIN thread[Peer(k)] /\ thread'[Peer(k)][i] = thread[Peer(k)][i]
    BY <1>4, <2>1, <2>2 DEF Buries
  <2>4. AuthorsRow(k, i)  BY <1>12, <2>1, <2>3 DEF ThreadInv
  <2>5. net' \subseteq net /\ (MsgOnWay(i)' => MsgOnWay(i))  BY <1>2 DEF MsgOnWay
  <2>6. \A q : EditOnWay(i, q) => EditOnWay(i, q)'  BY <1>1, <1>2 DEF EditOnWay
  <2> QED  BY <1>2, <2>3, <2>4, <2>5, <2>6 DEF AuthorsRow
<1>13. WipeIsExact'  BY <1>2, <1>4 DEF ThreadInv, WipeIsExact, Buries
<1> QED  BY <1>6, <1>7, <1>8, <1>9, <1>10, <1>11, <1>12, <1>13 DEF ThreadInv

\* A DELETE_ALL at n, of its user or its peer.
Clears(n, da) ==
  /\ thread' \in [Nodes -> Rows] /\ DOMAIN thread'[n] = {}
  /\ \A k \in Nodes : k # n => thread'[k] = thread[k]
  /\ wipes' \in [Nodes -> SUBSET Names] /\ wipes'[n] = wipes[n] \cup {da}
  /\ \A k \in Nodes : k # n => wipes'[k] = wipes[k]
  /\ cut' \in [Nodes -> Nat]
  /\ \A k \in Nodes : (\A d \in wipes'[k] : Issued(d)') => WipesInOrder(k)'

\* Raising the cut and dropping the rows is a DELETE_ALL, whoever asked for it.
LEMMA ClearsFacts ==
  ASSUME ThreadInv, NEW n \in Nodes, NEW da \in Names,
         thread' = [thread EXCEPT ![n] = NoRows],
         wipes' = [wipes EXCEPT ![n] = wipes[n] \cup {da}],
         cut' = [cut EXCEPT ![n] = RaiseCut(cut[n], da.seq)]
  PROVE  Clears(n, da)
<1>1. /\ wipes' \in [Nodes -> SUBSET Names] /\ wipes'[n] = wipes[n] \cup {da}
      /\ \A k \in Nodes : k # n => wipes'[k] = wipes[k]
  BY Apart
<1>2. /\ thread' \in [Nodes -> Rows] /\ DOMAIN thread'[n] = {}
      /\ \A k \in Nodes : k # n => thread'[k] = thread[k]
  BY Apart, EmptyFacts
<1>3. /\ cut' \in [Nodes -> Nat] /\ cut'[n] = RaiseCut(cut[n], da.seq)
      /\ \A k \in Nodes : k # n => cut'[k] = cut[k]
  BY Apart DEF RaiseCut
<1>4. cut[n] \in Nat /\ da.seq \in Nat /\ \A d \in wipes[n] : d.seq \in Nat  BY Apart
<1>5. /\ \A d \in wipes'[n] : d.seq <= cut'[n]
      /\ cut'[n] > 0 => \E d \in wipes'[n] : d.seq = cut'[n]
  <2>1. /\ \A d \in wipes[n] : d.seq <= cut[n]
        /\ cut[n] > 0 => \E d \in wipes[n] : d.seq = cut[n]
    BY DEF ThreadInv, WipesInOrder
  <2>2. CASE da.seq > cut[n]  BY SMT, <1>1, <1>3, <1>4, <2>1, <2>2 DEF RaiseCut
  <2>3. CASE ~(da.seq > cut[n])  BY SMT, <1>1, <1>3, <1>4, <2>1, <2>3 DEF RaiseCut
  <2> QED  BY <2>2, <2>3
<1>6. ASSUME NEW k \in Nodes, \A d \in wipes'[k] : Issued(d)'  PROVE WipesInOrder(k)'
  <2>1. CASE k = n  BY <1>5, <1>6, <2>1 DEF WipesInOrder
  <2>2. CASE k # n  BY SMT, <1>1, <1>3, <1>6, <2>2 DEF ThreadInv, WipesInOrder
  <2> QED  BY <2>1, <2>2
<1> QED  BY <1>1, <1>2, <1>3, <1>6 DEF Clears

\* What stays true when the rows of n go and no MSG, EDIT or DELETE moves.
LEMMA ClearsKeeps ==
  ASSUME ThreadInv, NEW n \in Nodes, NEW da \in Names, Clears(n, da),
         UNCHANGED <<tombs, missed, deleted, lost, prunes>>,
         seq' \in [Nodes -> Nat], net' \in SUBSET Letters,
         \A k \in Nodes : seq[k] <= seq'[k],
         Issued(da)', NamedOnce', \A m \in net' : PostInOrder(m)',
         \A m : m.op # "delete_all" => (m \in net' <=> m \in net)
  PROVE  ThreadInv'
<1>1. ThreadTypeOK'  BY DEF ThreadInv, ThreadTypeOK, Clears
<1>2. \A i \in Names : Issued(i) => Issued(i)'  BY SMT, Apart DEF Issued
<1>3. ASSUME NEW k \in Nodes  PROVE WipesInOrder(k)'
  <2>1. \A d \in wipes[k] : Issued(d)'  BY <1>2, Apart DEF ThreadInv, WipesInOrder
  <2> QED  BY <2>1 DEF Clears
<1>4. ASSUME NEW k \in Nodes, NEW i \in deleted'[k]  PROVE DeletedInOrder(k, i)'
  <2>1. DeletedInOrder(k, i) /\ Issued(i)'  BY <1>2, Apart DEF ThreadInv, DeletedInOrder
  <2>2. DeleteOnWay(k, i) => DeleteOnWay(k, i)'  BY DEF DeleteOnWay
  <2>3. i \in DOMAIN thread'[k] => i \in DOMAIN thread[k] /\ thread'[k][i] = thread[k][i]
    BY DEF Clears
  <2> QED  BY <2>1, <2>2, <2>3 DEF DeletedInOrder
<1>5. ASSUME NEW k \in Nodes, NEW i \in DOMAIN thread'[k]
      PROVE  /\ RowInOrder(k, i)'
             /\ i.from = k /\ ~thread'[k][i].tomb => AuthorsRow(k, i)'
  <2>1. k # n /\ i \in DOMAIN thread[k] /\ thread'[k] = thread[k] /\ i \in Names
    BY Apart DEF Clears
  <2>2. /\ i.from \in Nodes /\ seq[i.from] <= seq'[i.from]
        /\ seq[i.from] \in Nat /\ seq'[i.from] \in Nat
    BY <2>1, Apart
  <2>3. RowInOrder(k, i)'  BY SMT, <1>2, <2>1, <2>2 DEF ThreadInv, RowInOrder
  <2>4. ASSUME i.from = k, ~thread'[k][i].tomb  PROVE AuthorsRow(k, i)'
    <3>1. AuthorsRow(k, i)  BY <2>1, <2>4 DEF ThreadInv
    <3>2. DOMAIN thread'[Peer(k)] = {}  BY SMT, <2>1, PeerFacts DEF Clears
    <3>3. /\ \A m \in net' : m.op = "edit" => m \in net
          /\ MsgOnWay(i)' => MsgOnWay(i)
          /\ \A q : EditOnWay(i, q) => EditOnWay(i, q)'
      BY DEF MsgOnWay, EditOnWay
    <3> QED  BY <2>1, <3>1, <3>2, <3>3 DEF AuthorsRow
  <2> QED  BY <2>3, <2>4
<1>6. WipeIsExact'
  <2>1. ASSUME NEW k \in Nodes, NEW d \in wipes'[k], NEW i \in DOMAIN thread'[k], d.from = i.from
        PROVE  i.seq > d.seq
    BY <2>1 DEF ThreadInv, WipeIsExact, Clears
  <2>2. ASSUME NEW i \in lost'  PROVE \E d \in wipes'[Peer(i.from)] : d.from # i.from
    <3>1. i \in lost /\ Peer(i.from) \in Nodes  BY Apart, PeerFacts DEF ThreadInv, ThreadTypeOK
    <3> QED  BY <3>1 DEF ThreadInv, WipeIsExact, Clears
  <2> QED  BY <2>1, <2>2 DEF WipeIsExact
<1> QED  BY <1>1, <1>3, <1>4, <1>5, <1>6 DEF ThreadInv

\* send_delete_all keeps it: its number is above every row's.
LEMMA SendDeleteAllKeeps ==
  ASSUME ThreadInv, NEW n \in Nodes, SendDeleteAll(n)
  PROVE  ThreadInv'
<1>1. PICK da \in Names : da = Name(n, seq[n] + 1)
  <2>1. Name(n, seq[n] + 1) \in Names  BY SMT, Apart DEF Name, Names
  <2> QED  BY <2>1
<1>2. da.from = n /\ da.seq = seq[n] + 1  BY <1>1 DEF Name
<1>3. SendEnvelope(n, "delete_all", da) /\ "delete_all" \in Ops  BY <1>1 DEF SendDeleteAll, Ops
<1>4. /\ thread' = [thread EXCEPT ![n] = NoRows]
      /\ wipes' = [wipes EXCEPT ![n] = wipes[n] \cup {da}]
      /\ cut' = [cut EXCEPT ![n] = RaiseCut(cut[n], da.seq)]
  BY <1>1, Apart DEF SendDeleteAll
<1>5. UNCHANGED <<tombs, missed, deleted, lost, lapses, prunes>>  BY DEF SendDeleteAll
<1>6. Clears(n, da)  BY <1>2, <1>4, ClearsFacts
<1>7. PICK e \in Letters :
           /\ e.from = n /\ e.seq = seq[n] + 1 /\ e.op = "delete_all" /\ e.ref = da
           /\ e.after = wipes[n]
           /\ net' = net \cup {e} /\ net' \in SUBSET Letters
           /\ seq' \in [Nodes -> Nat] /\ seq'[n] = seq[n] + 1
           /\ \A k \in Nodes : seq'[k] \in Nat /\ seq[k] <= seq'[k]
           /\ NamedOnce'
           /\ \A d \in wipes[n] : d.from = n => d.seq < e.seq
  BY SMT, <1>2, <1>3, Sends
<1>8. \A i \in Names : Issued(i) => Issued(i)' /\ i # da
  BY SMT, <1>2, <1>7, Apart DEF Issued
<1>9. Issued(da)'  BY SMT, <1>2, <1>7 DEF Issued
<1>10. ASSUME NEW m \in net'  PROVE PostInOrder(m)'
  <2>1. CASE m \in net
    <3>1. PostInOrder(m) /\ Peer(m.from) \in Nodes /\ m.ref # da
      BY <1>8, <2>1, Apart, PeerFacts DEF ThreadInv, PostInOrder
    <3>2. m.seq <= seq'[m.from] /\ Issued(m.ref)'
      BY SMT, <1>7, <1>8, <2>1, <3>1, Apart DEF PostInOrder
    <3>3. m.op = "msg" => m.ref \notin DOMAIN thread'[Peer(m.from)]
      BY <1>6, <3>1 DEF PostInOrder, Clears
    <3>4. m.op = "msg" => \A k \in Nodes : m.ref \notin wipes'[k]
      BY <1>6, <3>1 DEF PostInOrder, Clears
    <3> QED  BY <1>5, <3>1, <3>2, <3>3, <3>4 DEF PostInOrder
  <2>2. CASE m = e
    <3>1. m.seq <= seq'[m.from] /\ Issued(m.ref)'  BY SMT, <1>7, <1>9, <2>2, Apart
    <3> QED  BY <1>1, <1>7, <2>2, <3>1 DEF PostInOrder
  <2> QED  BY <1>7, <2>1, <2>2
<1>11. \A m : m.op # "delete_all" => (m \in net' <=> m \in net)  BY <1>7
<1>12. UNCHANGED <<tombs, missed, deleted, lost, prunes>> /\ \A k \in Nodes : seq[k] <= seq'[k]
  BY <1>5, <1>7
<1> QED  BY <1>6, <1>7, <1>9, <1>10, <1>11, <1>12, ClearsKeeps

\* A DELETE_ALL that arrives keeps it, stale or not.
LEMMA ReceiveDeleteAllKeeps ==
  ASSUME ThreadInv, NEW m \in net, ReceiveDeleteAll(m)
  PROVE  ThreadInv'
<1> DEFINE n == Peer(m.from)
<1>1. /\ n \in Nodes /\ m.op = "delete_all" /\ m.ref \in Names /\ Issued(m.ref)
      /\ m.ref = Name(m.from, m.seq) /\ m.ref.seq = m.seq
  <2>1. PostInOrder(m) /\ m.op = "delete_all"  BY DEF ThreadInv, ReceiveDeleteAll
  <2>2. m.ref = Name(m.from, m.seq) /\ Issued(m.ref)  BY <2>1 DEF PostInOrder
  <2>3. m.ref.seq = m.seq  BY SMT, <2>2, NameFields
  <2>4. n \in Nodes /\ m.ref \in Names  BY Apart, PeerFacts
  <2> QED  BY <2>1, <2>2, <2>3, <2>4
<1>2. net' = net \ {m} /\ UNCHANGED <<seq, tombs, missed, deleted, lost, lapses, prunes>>
  BY DEF ReceiveDeleteAll
<1>3. /\ thread' = [thread EXCEPT ![n] = NoRows]
      /\ wipes' = [wipes EXCEPT ![n] = wipes[n] \cup {m.ref}]
      /\ cut' = [cut EXCEPT ![n] = RaiseCut(cut[n], m.ref.seq)]
  BY <1>1, Apart DEF ReceiveDeleteAll
<1> HIDE DEF n
<1>4. Clears(n, m.ref)  BY <1>1, <1>3, ClearsFacts
<1>5. \A i : Issued(i) <=> Issued(i)'  BY <1>2 DEF Issued
<1>6. ASSUME NEW k \in net'  PROVE PostInOrder(k)'
  <2>1. PostInOrder(k) /\ k \in net /\ k # m /\ Peer(k.from) \in Nodes
    BY <1>2, Apart, PeerFacts DEF ThreadInv
  <2>2. k.op = "msg" => k.ref # m.ref
    <3>1. SUFFICES ASSUME k.op = "msg", k.ref = m.ref  PROVE FALSE  OBVIOUS
    <3>2. Name(k.from, k.seq) = Name(m.from, m.seq)  BY <1>1, <2>1, <3>1 DEF PostInOrder
    <3>3. k.from = m.from /\ k.seq = m.seq  BY <3>2 DEF Name
    <3> QED  BY <2>1, <3>3 DEF ThreadInv, NamedOnce
  <2>3. k.op = "msg" => k.ref \notin DOMAIN thread'[Peer(k.from)]
    BY <1>4, <2>1 DEF PostInOrder, Clears
  <2>4. k.op = "msg" => \A j \in Nodes : k.ref \notin wipes'[j]
    BY ZenonT(60), <1>4, <2>1, <2>2 DEF PostInOrder, Clears
  <2> QED  BY <1>2, <1>5, <2>1, <2>3, <2>4 DEF PostInOrder
<1>7. NamedOnce'  BY <1>2 DEF ThreadInv, NamedOnce
<1>8. \A k \in Nodes : seq[k] <= seq'[k]  BY SMT, <1>2, Apart
<1>9. seq' \in [Nodes -> Nat] /\ net' \in SUBSET Letters  BY <1>2, Apart
<1> QED  BY ZenonT(60), <1>1, <1>2, <1>4, <1>5, <1>6, <1>7, <1>8, <1>9, ClearsKeeps

\* A MSG that arrives keeps it: a tombstone or the cut drops it, or it is new.
LEMMA ReceiveMsgKeeps ==
  ASSUME ThreadInv, NEW m \in net, ReceiveMsg(m)
  PROVE  ThreadInv'
<1> DEFINE n == Peer(m.from)
           id == m.ref
           stored == ~(id \in tombs[n] \/ Cut(n, m))
<1>1. /\ n \in Nodes /\ m.from \in Nodes /\ n # m.from /\ Peer(n) = m.from
      /\ id \in Names /\ Issued(id) /\ m.op = "msg" /\ id = Name(m.from, m.seq)
      /\ id.from = m.from /\ id.seq = m.seq
      /\ id \notin DOMAIN thread[n] /\ id \notin wipes[n]
  <2>1. PostInOrder(m) /\ m.op = "msg"  BY DEF ThreadInv, ReceiveMsg
  <2>2. m.from \in Nodes /\ n \in Nodes /\ n # m.from /\ Peer(n) = m.from /\ id \in Names
    BY Apart, PeerFacts
  <2>3. /\ id = Name(m.from, m.seq) /\ Issued(id)
        /\ id \notin DOMAIN thread[n] /\ id \notin wipes[n]
    BY <2>1, <2>2 DEF PostInOrder
  <2>4. id.from = m.from /\ id.seq = m.seq  BY SMT, <2>3, NameFields
  <2> QED  BY <2>1, <2>2, <2>3, <2>4
<1>2. /\ net' = net \ {m}
      /\ UNCHANGED <<seq, tombs, cut, wipes, missed, deleted, lapses, prunes>>
  BY DEF ReceiveMsg
<1>3. thread' = IF stored THEN [thread EXCEPT ![n] = Insert(thread[n], id)] ELSE thread
  BY <1>1, Apart DEF ReceiveMsg
<1>4. \A i \in lost' : i \in lost \/ (i = id /\ Cut(n, m) /\ wipes[n] \subseteq m.after)
  BY <1>1 DEF ReceiveMsg
<1>5. \A k \in net' : k \in net /\ ~(k.op = "msg" /\ k.ref = id)
  <2>1. ASSUME NEW k \in net', k.op = "msg", k.ref = id  PROVE FALSE
    <3>1. k \in net /\ k # m /\ k.ref = Name(k.from, k.seq)
      BY ZenonT(60), <1>2, <2>1 DEF ThreadInv, PostInOrder
    <3>2. k.from = m.from /\ k.seq = m.seq  BY SMT, <1>1, <2>1, <3>1 DEF Name
    <3> QED  BY <3>1, <3>2 DEF ThreadInv, NamedOnce
  <2> QED  BY <1>2, <2>1
<1> HIDE DEF n, id
<1>6. /\ thread' \in [Nodes -> Rows]
      /\ \A k \in Nodes : DOMAIN thread[k] \subseteq DOMAIN thread'[k]
      /\ \A k \in Nodes : \A i \in DOMAIN thread'[k] :
           \/ i \in DOMAIN thread[k] /\ thread'[k][i] = thread[k][i]
           \/ k = n /\ i = id /\ stored /\ thread'[k][i] = Original
  <2>1. CASE ~stored  BY <1>3, <2>1, Apart
  <2>2. CASE stored
    <3>1. thread[n] \in Rows  BY <1>1, Apart
    <3>2. thread' \in [Nodes -> Rows]  BY <1>1, <1>3, <2>2, <3>1, Apart, InsertFacts
    <3>3. thread'[n] = Insert(thread[n], id) /\ \A k \in Nodes : k # n => thread'[k] = thread[k]
      BY <1>1, <1>3, <2>2, Apart
    <3>4. /\ DOMAIN thread'[n] = DOMAIN thread[n] \cup {id} /\ thread'[n][id] = Original
          /\ \A i \in DOMAIN thread[n] : thread'[n][i] = thread[n][i]
      BY SMT, <1>1, <3>1, <3>3, InsertFacts
    <3> QED  BY <2>2, <3>2, <3>3, <3>4
  <2> QED  BY <2>1, <2>2
<1>7. lost' \in SUBSET Names  BY <1>1, <1>4 DEF ThreadInv, ThreadTypeOK
<1>8. ThreadTypeOK'  BY <1>2, <1>6, <1>7 DEF ThreadInv, ThreadTypeOK
<1>9. \A i : Issued(i) <=> Issued(i)'  BY <1>2 DEF Issued
<1>10. ASSUME NEW k \in net'  PROVE PostInOrder(k)'
  <2>1. PostInOrder(k) /\ Peer(k.from) \in Nodes  BY <1>2, Apart, PeerFacts DEF ThreadInv
  <2>2. k.op = "msg" => k.ref \notin DOMAIN thread'[Peer(k.from)]
    BY <1>5, <1>6, <2>1 DEF PostInOrder
  <2> QED  BY <1>2, <1>9, <2>1, <2>2 DEF PostInOrder
<1>11. NamedOnce'  BY <1>2 DEF ThreadInv, NamedOnce
<1>12. ASSUME NEW k \in Nodes  PROVE WipesInOrder(k)'
  BY <1>2, <1>9 DEF ThreadInv, WipesInOrder
<1>13. ASSUME NEW k \in Nodes, NEW i \in deleted'[k]  PROVE DeletedInOrder(k, i)'
  <2>1. DeletedInOrder(k, i)  BY <1>2 DEF ThreadInv
  <2>2. DeleteOnWay(k, i) => DeleteOnWay(k, i)'  BY <1>1, <1>2 DEF DeleteOnWay
  <2>3. prunes = 0 /\ i \in DOMAIN thread'[k] =>
          i \in DOMAIN thread[k] /\ thread'[k][i] = thread[k][i]
    BY <1>6, <2>1 DEF DeletedInOrder
  <2> QED  BY <1>2, <1>9, <2>1, <2>2, <2>3 DEF DeletedInOrder
<1>14. ASSUME NEW k \in Nodes, NEW i \in DOMAIN thread'[k]  PROVE RowInOrder(k, i)'
  <2>1. CASE i \in DOMAIN thread[k] /\ thread'[k][i] = thread[k][i]
    BY <1>2, <1>9, <2>1 DEF ThreadInv, RowInOrder
  <2>2. CASE k = n /\ i = id /\ stored /\ thread'[k][i] = Original
    <3>1. seq'[i.from] \in Nat  BY <1>1, <1>2, <2>2, Apart
    <3> QED  BY SMT, <1>1, <1>9, <2>2, <3>1 DEF RowInOrder, Original
  <2> QED  BY <1>6, <2>1, <2>2
<1>15. ASSUME NEW k \in Nodes, NEW i \in DOMAIN thread'[k], i.from = k, ~thread'[k][i].tomb
       PROVE  AuthorsRow(k, i)'
  <2>1. /\ i \in DOMAIN thread[k] /\ thread'[k][i] = thread[k][i] /\ Peer(k) \in Nodes
        /\ thread[k][i].text \in Nat
    <3>1. i \in DOMAIN thread[k] /\ thread'[k][i] = thread[k][i] /\ Peer(k) \in Nodes
      <4>1. k # n \/ i # id  BY <1>1, <1>15
      <4> QED  BY <1>6, <4>1, PeerFacts
    <3>2. RowInOrder(k, i)  BY <3>1 DEF ThreadInv
    <3> QED  BY <1>15, <3>1, <3>2 DEF RowInOrder
  <2>2. AuthorsRow(k, i)  BY <1>15, <2>1 DEF ThreadInv
  <2>3. net' \subseteq net /\ (MsgOnWay(i)' => MsgOnWay(i))  BY <1>2 DEF MsgOnWay
  <2>4. \A q : EditOnWay(i, q) => EditOnWay(i, q)'  BY <1>1, <1>2 DEF EditOnWay
  <2>5. CASE i \in DOMAIN thread'[Peer(k)] =>
               i \in DOMAIN thread[Peer(k)] /\ thread'[Peer(k)][i] = thread[Peer(k)][i]
    BY <1>2, <2>1, <2>2, <2>3, <2>4, <2>5 DEF AuthorsRow
  <2>6. CASE i \in DOMAIN thread'[Peer(k)] /\ i = id /\ thread'[Peer(k)][i] = Original
    <3>1. MsgOnWay(i)  BY <1>1, <2>6 DEF MsgOnWay, id
    <3>2. i \notin missed => thread[k][i].text = 0 \/ EditOnWay(i, thread[k][i].text)
      BY <2>2, <3>1 DEF AuthorsRow
    <3>3. thread'[Peer(k)][i].text = 0 /\ 0 <= thread[k][i].text  BY SMT, <2>1, <2>6 DEF Original
    <3> QED  BY <1>2, <2>1, <2>2, <2>3, <2>4, <3>2, <3>3 DEF AuthorsRow
  <2> QED  BY ZenonT(60), <1>6, <2>1, <2>5, <2>6
<1>16. ASSUME NEW k \in Nodes, NEW da \in wipes'[k], NEW i \in DOMAIN thread'[k], da.from = i.from
       PROVE  i.seq > da.seq
  <2>1. CASE i \in DOMAIN thread[k]  BY <1>2, <1>16, <2>1 DEF ThreadInv, WipeIsExact
  <2>2. CASE k = n /\ i = id /\ stored
    <3>1. /\ da \in wipes[n] /\ da \in Names /\ da # id /\ da.seq <= cut[n]
          /\ da.seq \in Nat /\ cut[n] \in Nat /\ m.seq \in Nat
      BY <1>1, <1>2, <2>2, Apart DEF ThreadInv, WipesInOrder
    <3>2. da.seq # m.seq  BY SMT, <1>1, <1>16, <2>2, <3>1 DEF Names
    <3>3. ~(cut[n] > 0 /\ m.seq < cut[n])  BY <2>2 DEF Cut
    <3> QED  BY SMT, <1>1, <2>2, <3>1, <3>2, <3>3
  <2> QED  BY <1>6, <2>1, <2>2
<1>17. ASSUME NEW i \in lost'  PROVE \E da \in wipes'[Peer(i.from)] : da.from # i.from
  <2>1. CASE i \in lost  BY <1>2, <2>1 DEF ThreadInv, WipeIsExact
  <2>2. CASE i = id /\ Cut(n, m) /\ wipes[n] \subseteq m.after
    <3>1. cut[n] \in Nat /\ m.seq \in Nat /\ cut[n] > 0 /\ m.seq < cut[n]
      BY <1>1, <2>2, Apart DEF Cut
    <3>2. PICK da \in wipes[n] : da.seq = cut[n]  BY <1>1, <3>1 DEF ThreadInv, WipesInOrder
    <3>3. da.from = m.from => da.seq < m.seq  BY <2>2, <3>2 DEF ThreadInv, PostInOrder
    <3>4. da.from # i.from  BY SMT, <1>1, <2>2, <3>1, <3>2, <3>3
    <3> QED  BY <1>1, <1>2, <2>2, <3>4 DEF n
  <2> QED  BY <1>4, <2>1, <2>2
<1>18. WipeIsExact'  BY <1>16, <1>17 DEF WipeIsExact
<1> QED  BY <1>8, <1>10, <1>11, <1>12, <1>13, <1>14, <1>15, <1>18 DEF ThreadInv

\* An EDIT that arrives keeps it: what edit_decision drops as stale is older than the row.
LEMMA ReceiveEditKeeps ==
  ASSUME ThreadInv, NEW m \in net, ReceiveEdit(m)
  PROVE  ThreadInv'
<1> DEFINE n == Peer(m.from)
           id == m.ref
<1>1. /\ n \in Nodes /\ m.from \in Nodes /\ n # m.from /\ Peer(n) = m.from
      /\ id \in Names /\ Issued(id) /\ m.op = "edit" /\ id.from = m.from
      /\ m.seq \in Nat /\ m.seq <= seq[m.from]
  BY Apart, PeerFacts DEF ThreadInv, PostInOrder, ReceiveEdit
<1>2. net' = net \ {m} /\ UNCHANGED <<seq, tombs, cut, wipes, deleted, lost, prunes>>
  BY DEF ReceiveEdit
<1>3. \/ /\ id \in DOMAIN thread[n] /\ UNCHANGED missed
         /\ thread' = [thread EXCEPT ![n] = IF m.seq <= thread[n][id].text THEN thread[n]
                                            ELSE MarkEdited(thread[n], id, m.seq)]
      \/ UNCHANGED thread /\ missed' = missed \cup {id}
  BY <1>1, Apart DEF ReceiveEdit, Targeted, Stale
<1> HIDE DEF n, id
<1>4. /\ thread' \in [Nodes -> Rows]
      /\ \A k \in Nodes : DOMAIN thread'[k] = DOMAIN thread[k]
      /\ \A k \in Nodes : \A i \in DOMAIN thread[k] :
           k # n \/ i # id \/ thread[k][i].tomb => thread'[k][i] = thread[k][i]
      /\ id \in DOMAIN thread[n] /\ ~thread[n][id].tomb =>
           /\ ~thread'[n][id].tomb
           /\ \/ thread'[n][id].text = thread[n][id].text
              \/ thread'[n][id].text = m.seq
           /\ \/ id \in missed'
              \/ thread'[n][id].text = thread[n][id].text /\ m.seq <= thread[n][id].text
              \/ thread'[n][id].text = m.seq /\ ~(m.seq <= thread[n][id].text)
      /\ id \notin missed' => id \in DOMAIN thread[n]
      /\ missed \subseteq missed' /\ missed' \in SUBSET Names
  <2>0. missed \in SUBSET Names  BY DEF ThreadInv, ThreadTypeOK
  <2>1. CASE UNCHANGED thread /\ missed' = missed \cup {id}
    BY <1>1, <2>0, <2>1, Apart
  <2>2. CASE /\ id \in DOMAIN thread[n] /\ UNCHANGED missed /\ m.seq <= thread[n][id].text
             /\ thread' = [thread EXCEPT ![n] = thread[n]]
    BY <1>1, <2>0, <2>2, Apart
  <2>3. CASE /\ id \in DOMAIN thread[n] /\ UNCHANGED missed /\ ~(m.seq <= thread[n][id].text)
             /\ thread' = [thread EXCEPT ![n] = MarkEdited(thread[n], id, m.seq)]
    <3>1. thread[n] \in Rows  BY <1>1, Apart
    <3>2. thread' \in [Nodes -> Rows]  BY <1>1, <2>3, <3>1, Apart, EditFacts
    <3>3. /\ thread'[n] = MarkEdited(thread[n], id, m.seq)
          /\ \A k \in Nodes : k # n => thread'[k] = thread[k]
      BY <1>1, <2>3, Apart
    <3>4. /\ DOMAIN thread'[n] = DOMAIN thread[n]
          /\ \A i \in DOMAIN thread[n] : i # id => thread'[n][i] = thread[n][i]
          /\ thread[n][id].tomb => thread'[n] = thread[n]
          /\ ~thread[n][id].tomb => ~thread'[n][id].tomb /\ thread'[n][id].text = m.seq
      BY SMT, <1>1, <2>3, <3>1, <3>3, EditFacts
    <3> QED  BY <2>0, <2>3, <3>2, <3>3, <3>4
  <2> QED  BY <1>3, <2>1, <2>2, <2>3
<1>5. ThreadTypeOK'  BY <1>2, <1>4 DEF ThreadInv, ThreadTypeOK
<1>6. \A i : Issued(i) <=> Issued(i)'  BY <1>2 DEF Issued
<1>7. ASSUME NEW k \in net'  PROVE PostInOrder(k)'
  <2>1. PostInOrder(k) /\ Peer(k.from) \in Nodes  BY <1>2, Apart, PeerFacts DEF ThreadInv
  <2> QED  BY <1>2, <1>4, <1>6, <2>1 DEF PostInOrder
<1>8. NamedOnce'  BY <1>2 DEF ThreadInv, NamedOnce
<1>9. ASSUME NEW k \in Nodes  PROVE WipesInOrder(k)'
  BY <1>2, <1>6 DEF ThreadInv, WipesInOrder
<1>10. ASSUME NEW k \in Nodes, NEW i \in deleted'[k]  PROVE DeletedInOrder(k, i)'
  <2>1. DeletedInOrder(k, i)  BY <1>2 DEF ThreadInv
  <2>2. DeleteOnWay(k, i) => DeleteOnWay(k, i)'  BY <1>1, <1>2 DEF DeleteOnWay
  <2>3. prunes = 0 /\ i \in DOMAIN thread'[k] =>
          i \in DOMAIN thread[k] /\ thread'[k][i] = thread[k][i]
    BY <1>4, <2>1 DEF DeletedInOrder
  <2> QED  BY <1>2, <1>6, <2>1, <2>2, <2>3 DEF DeletedInOrder
<1>11. ASSUME NEW k \in Nodes, NEW i \in DOMAIN thread'[k]  PROVE RowInOrder(k, i)'
  <2>1. i \in DOMAIN thread[k] /\ RowInOrder(k, i)  BY <1>4 DEF ThreadInv
  <2>2. CASE k # n \/ i # id \/ thread[k][i].tomb
    BY <1>2, <1>4, <1>6, <2>1, <2>2 DEF RowInOrder
  <2>3. CASE k = n /\ i = id /\ ~thread[k][i].tomb
    BY <1>1, <1>2, <1>4, <1>6, <2>1, <2>3 DEF RowInOrder
  <2> QED  BY <2>2, <2>3
<1>12. ASSUME NEW k \in Nodes, NEW i \in DOMAIN thread'[k], i.from = k, ~thread'[k][i].tomb
       PROVE  AuthorsRow(k, i)'
  <2>1. /\ i \in DOMAIN thread[k] /\ thread'[k][i] = thread[k][i] /\ Peer(k) \in Nodes
        /\ thread[k][i].text \in Nat
    <3>1. i \in DOMAIN thread[k] /\ thread'[k][i] = thread[k][i] /\ Peer(k) \in Nodes
      BY ZenonT(60), <1>1, <1>4, <1>12, PeerFacts
    <3>2. RowInOrder(k, i)  BY <3>1 DEF ThreadInv
    <3> QED  BY <1>12, <3>1, <3>2 DEF RowInOrder
  <2>2. AuthorsRow(k, i)  BY <1>12, <2>1 DEF ThreadInv
  <2>3. net' \subseteq net /\ (MsgOnWay(i)' => MsgOnWay(i))  BY <1>2 DEF MsgOnWay
  <2>4. CASE i # id
    <3>1. \A q : EditOnWay(i, q) => EditOnWay(i, q)'  BY <1>2, <2>4 DEF EditOnWay, id
    <3>2. i \in DOMAIN thread'[Peer(k)] =>
            i \in DOMAIN thread[Peer(k)] /\ thread'[Peer(k)][i] = thread[Peer(k)][i]
      BY <1>4, <2>1, <2>4
    <3> QED  BY <1>4, <2>1, <2>2, <2>3, <3>1, <3>2 DEF AuthorsRow
  <2>5. CASE i = id
    <3>1. k = m.from /\ Peer(k) = n  BY <1>1, <1>12, <2>5 DEF n
    <3>2. \A p \in net' : p.op = "edit" /\ p.ref = i => p.seq <= thread'[k][i].text
      BY <2>1, <2>2, <2>3 DEF AuthorsRow
    <3>3. PICK t \in Nat : thread[k][i].text = t /\ thread'[k][i].text = t  BY <2>1
    <3>4. ASSUME i \notin missed'
          PROVE  /\ ~MsgOnWay(i)
                 /\ ~thread'[n][i].tomb =>
                      thread'[n][i].text <= t /\ (thread'[n][i].text = t \/ EditOnWay(i, t)')
      <4>1. id \in DOMAIN thread[n] /\ i \notin missed  BY <1>4, <2>5, <3>4
      <4>2. ~MsgOnWay(i)
        <5>1. SUFFICES ASSUME NEW p \in net, p.op = "msg", p.ref = id  PROVE FALSE
          BY <2>5 DEF MsgOnWay
        <5>2. p.ref = Name(p.from, p.seq) /\ p.ref \notin DOMAIN thread[Peer(p.from)]
          BY <5>1 DEF ThreadInv, PostInOrder
        <5>3. p.from = m.from  BY SMT, <1>1, <5>1, <5>2 DEF Name
        <5> QED  BY <3>1, <4>1, <5>1, <5>2, <5>3
      <4>3. ASSUME ~thread'[n][i].tomb
            PROVE  thread'[n][i].text <= t /\ (thread'[n][i].text = t \/ EditOnWay(i, t)')
        <5>1. ~thread[n][i].tomb  BY <1>1, <1>4, <2>5, <4>1, <4>3
        <5>2. /\ thread[n][i].text <= t
              /\ thread[n][i].text = t \/ EditOnWay(i, t)
              /\ m.seq <= t
          BY <1>1, <2>2, <2>5, <3>1, <3>3, <4>1, <5>1 DEF AuthorsRow, id
        <5>3. thread[n][i].text \in Nat  BY <1>1, <2>5, <4>1, <5>1 DEF ThreadInv, RowInOrder
        <5>4. m.seq # t /\ EditOnWay(i, t) => EditOnWay(i, t)'  BY <1>2 DEF EditOnWay
        <5>5. \/ thread'[n][i].text = thread[n][i].text /\ m.seq <= thread[n][i].text
              \/ thread'[n][i].text = m.seq /\ ~(m.seq <= thread[n][i].text)
          BY <1>4, <2>5, <3>4, <4>1, <5>1
        <5> QED  BY SMT, <1>1, <5>2, <5>3, <5>4, <5>5
      <4> QED  BY <4>2, <4>3
    <3> QED  BY <2>3, <3>1, <3>2, <3>3, <3>4 DEF AuthorsRow
  <2> QED  BY ZenonT(60), <2>4, <2>5
<1>13. WipeIsExact'  BY <1>2, <1>4 DEF ThreadInv, WipeIsExact
<1> QED  BY <1>5, <1>7, <1>8, <1>9, <1>10, <1>11, <1>12, <1>13 DEF ThreadInv

\* What is on its way does not change with the tombstones.
LEMMA SameMail ==
  ASSUME UNCHANGED <<seq, net>>
  PROVE  /\ \A i : Issued(i) <=> Issued(i)'
         /\ \A i : MsgOnWay(i) <=> MsgOnWay(i)'
         /\ \A i, q : EditOnWay(i, q) <=> EditOnWay(i, q)'
         /\ \A k, i : DeleteOnWay(k, i) <=> DeleteOnWay(k, i)'
<1>1. \A i : Issued(i) <=> Issued(i)'  BY DEF Issued
<1>2. \A i : MsgOnWay(i) <=> MsgOnWay(i)'  BY DEF MsgOnWay
<1>3. \A i, q : EditOnWay(i, q) <=> EditOnWay(i, q)'  BY DEF EditOnWay
<1>4. \A k, i : DeleteOnWay(k, i) <=> DeleteOnWay(k, i)'  BY DEF DeleteOnWay
<1> QED  BY <1>1, <1>2, <1>3, <1>4

\* A step that changes at most the tombstones keeps the invariant, if it counts the
\* ones it takes away.
LEMMA TombsKeep ==
  ASSUME ThreadInv, UNCHANGED <<seq, net, thread, cut, wipes, missed, deleted, lost>>,
         tombs' \in [Nodes -> SUBSET Names], prunes' \in Nat,
         prunes' = 0 => UNCHANGED <<tombs, prunes>>
  PROVE  ThreadInv'
<1>1. UNCHANGED <<seq, net, thread, cut, wipes, missed, deleted, lost>>  OBVIOUS
<1>2. ThreadTypeOK'  BY <1>1 DEF ThreadInv, ThreadTypeOK
<1>3. \A m \in net' : PostInOrder(m)'  BY <1>1, SameMail DEF ThreadInv, PostInOrder
<1>4. NamedOnce' /\ WipeIsExact'  BY <1>1 DEF ThreadInv, NamedOnce, WipeIsExact
<1>5. ASSUME NEW k \in Nodes  PROVE WipesInOrder(k)'
  <2>1. WipesInOrder(k)  BY DEF ThreadInv
  <2> QED  BY <1>1, <2>1, SameMail DEF WipesInOrder
<1>6. ASSUME NEW k \in Nodes, NEW i \in deleted'[k]  PROVE DeletedInOrder(k, i)'
  <2>1. DeletedInOrder(k, i)  BY <1>1 DEF ThreadInv
  <2> QED  BY <1>1, <2>1, SameMail DEF DeletedInOrder
<1>7. ASSUME NEW k \in Nodes, NEW i \in DOMAIN thread'[k]
      PROVE  RowInOrder(k, i)' /\ (i.from = k /\ ~thread'[k][i].tomb => AuthorsRow(k, i)')
  <2>1. RowInOrder(k, i) /\ (i.from = k /\ ~thread[k][i].tomb => AuthorsRow(k, i))
    BY <1>1 DEF ThreadInv
  <2>2. RowInOrder(k, i)'  BY <1>1, <2>1, SameMail DEF RowInOrder
  <2>3. AuthorsRow(k, i) => AuthorsRow(k, i)'  BY <1>1, SameMail DEF AuthorsRow
  <2> QED  BY <1>1, <2>1, <2>2, <2>3
<1> QED  BY <1>2, <1>3, <1>4, <1>5, <1>6, <1>7 DEF ThreadInv

\* prune_tombstones keeps it: nothing is said of deletions from then on.
LEMMA PruneKeeps ==
  ASSUME ThreadInv, NEW n \in Nodes, NEW id \in tombs[n], PruneTombstone(n, id)
  PROVE  ThreadInv'
<1>1. /\ UNCHANGED <<seq, net, thread, cut, wipes, missed, deleted, lost>>
      /\ tombs' = [tombs EXCEPT ![n] = @ \ {id}] /\ prunes' = prunes + 1
  BY DEF PruneTombstone
<1>2. tombs' \in [Nodes -> SUBSET Names]  BY <1>1, Apart
<1>3. prunes' \in Nat /\ prunes' # 0  BY SMT, <1>1, Apart
<1> QED  BY <1>1, <1>2, <1>3, TombsKeep

\* Two new engines are in order.
LEMMA ThreadInitKeeps == ThreadInit => ThreadInv
<1> SUFFICES ASSUME ThreadInit  PROVE ThreadInv  OBVIOUS
<1>1. ThreadTypeOK  BY EmptyFacts DEF ThreadInit, ThreadTypeOK
<1>2. \A n \in Nodes : DOMAIN thread[n] = {}  BY EmptyFacts DEF ThreadInit
<1>3. NamedOnce /\ \A m \in net : PostInOrder(m)  BY DEF ThreadInit, NamedOnce
<1>4. ASSUME NEW n \in Nodes  PROVE WipesInOrder(n) /\ deleted[n] = {}
  <2>1. wipes[n] = {} /\ deleted[n] = {} /\ cut[n] = 0  BY DEF ThreadInit
  <2>2. ~(cut[n] > 0)  BY SMT, <2>1
  <2> QED  BY <2>1, <2>2 DEF WipesInOrder
<1>5. WipeIsExact  BY <1>2 DEF ThreadInit, WipeIsExact
<1> QED  BY <1>1, <1>2, <1>3, <1>4, <1>5 DEF ThreadInv

\* Every step of the thread keeps the invariant.
LEMMA ThreadInvariance == ThreadSpec => []ThreadInv
<1>1. ASSUME ThreadInv, [ThreadNext]_threadVars  PROVE ThreadInv'
  <2>1. ASSUME NEW n \in Nodes, SendText(n)  PROVE ThreadInv'  BY <1>1, <2>1, SendTextKeeps
  <2>2. ASSUME NEW n \in Nodes, NEW id \in DOMAIN thread[n], SendEdit(n, id)  PROVE ThreadInv'
    BY <1>1, <2>2, SendEditKeeps
  <2>3. ASSUME NEW n \in Nodes, NEW id \in DOMAIN thread[n], SendDelete(n, id)  PROVE ThreadInv'
    BY <1>1, <2>3, SendDeleteKeeps
  <2>4. ASSUME NEW n \in Nodes, SendDeleteAll(n)  PROVE ThreadInv'
    BY <1>1, <2>4, SendDeleteAllKeeps
  <2>5. ASSUME NEW n \in Nodes, NEW id \in tombs[n], PruneTombstone(n, id)  PROVE ThreadInv'
    BY <1>1, <2>5, PruneKeeps
  <2>6. ASSUME NEW m \in net, ReceiveMsg(m)  PROVE ThreadInv'  BY <1>1, <2>6, ReceiveMsgKeeps
  <2>7. ASSUME NEW m \in net, ReceiveEdit(m)  PROVE ThreadInv'
    BY ZenonT(60), <1>1, <2>7, ReceiveEditKeeps
  <2>8. ASSUME NEW m \in net, ReceiveDelete(m)  PROVE ThreadInv'
    BY <1>1, <2>8, ReceiveDeleteKeeps
  <2>9. ASSUME NEW m \in net, ReceiveDeleteAll(m)  PROVE ThreadInv'
    BY <1>1, <2>9, ReceiveDeleteAllKeeps
  <2>10. CASE UNCHANGED threadVars
    BY <1>1, <2>10, Apart, TombsKeep DEF threadVars
  <2> QED  BY <1>1, <2>1, <2>2, <2>3, <2>4, <2>5, <2>6, <2>7, <2>8, <2>9, <2>10 DEF ThreadNext
<1> QED  BY <1>1, ThreadInitKeeps, PTL DEF ThreadSpec

-----------------------------------------------------------------------------
(* The theorems *)

\* While no tombstone was pruned, a message an engine has deleted is not
\* visible there and has no text left, although the message or an EDIT of it
\* arrives after the DELETE.  The theorem is about the order of add_tombstone,
\* should_drop_inbound and mark_edited.
THEOREM DeletionsHold == ThreadSpec => []DeletedStaysDeleted
<1>1. ThreadInv => DeletedStaysDeleted
  BY DEF ThreadInv, DeletedInOrder, DeletedStaysDeleted, Visible
<1> QED  BY <1>1, ThreadInvariance, PTL

\* An engine shows no message sent before a DELETE_ALL of its author that the
\* engine has applied, and a new message that the cut drops met a wipe of the
\* receiver's own.  The theorem is about raise_history_cut and
\* should_drop_inbound.
THEOREM WipesAreExact == ThreadSpec => []WipeIsExact
<1>1. ThreadInv => WipeIsExact  BY DEF ThreadInv
<1> QED  BY <1>1, ThreadInvariance, PTL

\* In whatever order EDITs and DELETEs of a message arrive, once all have, both
\* engines show the same text, unless an EDIT was refused or a tombstone was
\* pruned.  The theorem is about edit_decision and last_edit_seq.
THEOREM TextsConverge == ThreadSpec => []EditsConverge
<1>1. ASSUME ThreadInv  PROVE EditsConverge
  <2>1. SUFFICES ASSUME NEW n \in Nodes, NEW id \in DOMAIN thread[n] \cap DOMAIN thread[Peer(n)],
                        prunes = 0, id \notin missed,
                        \A m \in net : m.op \in {"edit", "delete"} => m.ref # id
                 PROVE  thread[n][id].text = thread[Peer(n)][id].text
    BY DEF EditsConverge
  <2>2. /\ Peer(n) \in Nodes /\ Peer(Peer(n)) = n /\ id \in Names
        /\ id.from = n \/ id.from = Peer(n)
    BY <1>1, <2>1, Apart, PeerFacts
  <2>3. (\A k \in Nodes : ~DeleteOnWay(k, id)) /\ \A q : ~EditOnWay(id, q)
    BY <2>1 DEF DeleteOnWay, EditOnWay
  <2>4. id \in deleted[n] <=> id \in deleted[Peer(n)]
    BY <1>1, <2>2, <2>3 DEF ThreadInv, DeletedInOrder
  <2>5. CASE id \in deleted[n]
    BY <1>1, <2>1, <2>2, <2>4, <2>5 DEF ThreadInv, DeletedInOrder
  <2>6. CASE id \notin deleted[n]
    <3>1. ~thread[n][id].tomb /\ ~thread[Peer(n)][id].tomb
      BY <1>1, <2>1, <2>2, <2>4, <2>6 DEF ThreadInv, RowInOrder
    <3>2. CASE id.from = n
      <4>1. AuthorsRow(n, id)  BY <1>1, <2>1, <3>1, <3>2 DEF ThreadInv
      <4> QED  BY <2>1, <2>3, <3>1, <4>1 DEF AuthorsRow
    <3>3. CASE id.from = Peer(n)
      <4>1. AuthorsRow(Peer(n), id)  BY <1>1, <2>1, <2>2, <3>1, <3>3 DEF ThreadInv
      <4> QED  BY <2>1, <2>2, <2>3, <3>1, <4>1 DEF AuthorsRow
    <3> QED  BY <2>2, <3>2, <3>3
  <2> QED  BY <2>5, <2>6
<1> QED  BY <1>1, ThreadInvariance, PTL

-----------------------------------------------------------------------------
(* The signals *)

\* The frames of typing, presence and profile.
Frame ==
  [kind : Ephemeral, a : BOOLEAN, b : BOOLEAN, n : Nat, age : Nat]
  \cup [kind : {"profile"}, a : Nat, b : Nat, n : Nat, age : Nat]

SignalsTypeOK ==
  /\ mail \subseteq Frame
  /\ hold \in Nat /\ hold <= SendInterval
  /\ own \in [name : Nat, jpeg : Nat]
  /\ typing \in [there : BOOLEAN, left : Nat]
  /\ profile \in [name : Nat, jpeg : Nat, n : Nat]
  /\ latest \in [name : Nat, jpeg : Nat, n : Nat]
  /\ shown \in [typing : BOOLEAN, in : BOOLEAN, dnd : BOOLEAN]
  /\ sends \in Nat /\ smooth \in BOOLEAN /\ torn \in BOOLEAN /\ overtaken \in BOOLEAN

\* What is lit lasts until the throttle lets go and a prompt frame has come, or
\* until a frame that is on its way has come.
Carries(m) == m.kind = "typing" /\ m.age <= Latency /\ typing.left + m.age > Latency

Lasts == typing.left > hold + Latency \/ \E m \in mail : Carries(m)

\* While the typist sends at every interval and every frame is prompt (smooth), the
\* indicator is lit, and will be when the next frame comes.
TypingInv ==
  /\ Lit => shown.typing
  /\ smooth => typing.there /\ Lasts

IsLatest(m) == m.kind = "profile" /\ m.n = latest.n

\* The peer has the last profile sent, or that one is on its way, unless an earlier
\* one came after it; and the two halves of a profile agree unless a death cut an
\* edit in two.
ProfileInv ==
  /\ latest.n <= sends
  /\ \A m \in mail : m.kind = "profile" =>
       /\ m.n <= latest.n
       /\ IsLatest(m) => m.a = latest.name /\ m.b = latest.jpeg
       /\ m.a # m.b => torn
  /\ own.name # own.jpeg => torn
  /\ profile.name # profile.jpeg => torn
  /\ overtaken \/ profile = latest \/ \E m \in mail : IsLatest(m)

\* The inductive invariant.
SignalsInv == SignalsTypeOK /\ TypingInv /\ ProfileInv

-----------------------------------------------------------------------------
\* The fields of a frame.
LEMMA FrameFields ==
  ASSUME NEW f \in Frame
  PROVE  /\ f = [kind |-> f.kind, a |-> f.a, b |-> f.b, n |-> f.n, age |-> f.age]
         /\ f.kind \in {"typing", "presence", "profile"} /\ f.n \in Nat /\ f.age \in Nat
         /\ f.kind \in Ephemeral => f.a \in BOOLEAN /\ f.b \in BOOLEAN
         /\ f.kind = "profile" => f.a \in Nat /\ f.b \in Nat
<1>1. CASE f \in [kind : Ephemeral, a : BOOLEAN, b : BOOLEAN, n : Nat, age : Nat]
  BY <1>1 DEF Ephemeral
<1>2. CASE f \in [kind : {"profile"}, a : Nat, b : Nat, n : Nat, age : Nat]
  BY <1>2 DEF Ephemeral
<1> QED BY <1>1, <1>2 DEF Frame

\* A frame a second later.
Aged(m) == [m EXCEPT !.age = IF @ > Latency THEN @ ELSE @ + 1]

\* Ageing changes nothing else of a frame.
LEMMA AgedFields ==
  ASSUME NEW f \in Frame
  PROVE  /\ Aged(f) \in Frame
         /\ Aged(f).kind = f.kind /\ Aged(f).a = f.a /\ Aged(f).b = f.b /\ Aged(f).n = f.n
         /\ f.age < Latency => Aged(f).age = f.age + 1
<1>1. PICK k : k = (IF f.age > Latency THEN f.age ELSE f.age + 1)
  OBVIOUS
<1>2. f.age \in Nat
  BY FrameFields
<1>3. k \in Nat /\ (f.age < Latency => k = f.age + 1)
  BY SMT, <1>1, <1>2, TimesAssumption
<1>4. Aged(f) = [f EXCEPT !.age = k]
  BY <1>1 DEF Aged
<1>5. Aged(f) = [kind |-> f.kind, a |-> f.a, b |-> f.b, n |-> f.n, age |-> k]
  <2>1. CASE f \in [kind : Ephemeral, a : BOOLEAN, b : BOOLEAN, n : Nat, age : Nat]
    BY <2>1, <1>4
  <2>2. CASE f \in [kind : {"profile"}, a : Nat, b : Nat, n : Nat, age : Nat]
    BY <2>2, <1>4
  <2> QED BY <2>1, <2>2 DEF Frame
<1>6. Aged(f) \in Frame
  <2>1. CASE f \in [kind : Ephemeral, a : BOOLEAN, b : BOOLEAN, n : Nat, age : Nat]
    BY SMT, <2>1, <1>5, <1>3 DEF Frame
  <2>2. CASE f \in [kind : {"profile"}, a : Nat, b : Nat, n : Nat, age : Nat]
    BY SMT, <2>2, <1>5, <1>3 DEF Frame
  <2> QED BY <2>1, <2>2 DEF Frame
<1>7. Aged(f).age = k
  BY SMT, <1>5
<1> QED BY SMT, <1>3, <1>5, <1>6, <1>7

\* A second passes for every frame on its way.
LEMMA Ages ==
  ASSUME Tick
  PROVE  mail' = {Aged(m) : m \in mail}
BY DEF Tick, Aged

\* A timer counts down to 0 and stays there.
LEMMA LessFacts ==
  ASSUME NEW n \in Nat
  PROVE  /\ Less(n) \in Nat /\ Less(n) <= n
         /\ n > 0 => n = Less(n) + 1
BY SMT DEF Less

\* What is posted is a frame.
LEMMA PostsFrame ==
  ASSUME SignalsTypeOK, NEW ok, NEW kind, NEW a, NEW b, Posts(ok, kind, a, b),
         \/ kind \in Ephemeral /\ a \in BOOLEAN /\ b \in BOOLEAN
         \/ kind = "profile" /\ a \in Nat /\ b \in Nat
  PROVE  mail' \subseteq Frame
<1>1. PICK f : f = [kind |-> kind, a |-> a, b |-> b, n |-> sends + 1, age |-> 0]
  OBVIOUS
<1>2. sends + 1 \in Nat /\ 0 \in Nat
  BY SMT DEF SignalsTypeOK
<1>3. f \in Frame
  <2>1. CASE kind \in Ephemeral /\ a \in BOOLEAN /\ b \in BOOLEAN
    BY <2>1, <1>1, <1>2 DEF Frame
  <2>2. CASE kind = "profile" /\ a \in Nat /\ b \in Nat
    BY <2>2, <1>1, <1>2 DEF Frame
  <2> QED BY <2>1, <2>2
<1>4. mail' = mail \/ mail' = mail \cup {f}
  BY <1>1 DEF Posts
<1> QED BY <1>3, <1>4 DEF SignalsTypeOK

\* Every call has a number of its own.
LEMMA Counts ==
  ASSUME SignalsTypeOK, Call
  PROVE  sends' \in Nat /\ sends' = sends + 1 /\ sends < sends'
BY SMT DEF SignalsTypeOK, Call

\* send_typing keeps the types.
LEMMA TypingTypes ==
  ASSUME SignalsTypeOK, NEW on \in BOOLEAN, SendTyping(on)
  PROVE  SignalsTypeOK'
<1>1. mail' \subseteq Frame
  BY PostsFrame DEF SendTyping, Ephemeral
<1>2. hold' \in Nat /\ hold' <= SendInterval
  BY SMT, TimesAssumption DEF SendTyping, NoteSent, SignalsTypeOK
<1>3. smooth' \in BOOLEAN
  BY DEF SendTyping
<1> QED BY <1>1, <1>2, <1>3, Counts DEF SendTyping, SignalsTypeOK, gates, profiles

\* send_presence keeps the types.
LEMMA PresenceTypes ==
  ASSUME SignalsTypeOK, NEW in \in BOOLEAN, NEW dnd \in BOOLEAN, SendPresence(in, dnd)
  PROVE  SignalsTypeOK'
<1>1. mail' \subseteq Frame
  BY PostsFrame DEF SendPresence, Ephemeral
<1> QED BY <1>1, Counts DEF SendPresence, SignalsTypeOK, gates, profiles, indicators

\* Saving and broadcasting the profile keep the types.
LEMMA ProfileTypes ==
  ASSUME SignalsTypeOK, SetOurProfile \/ DieSetting \/ BroadcastProfile
  PROVE  SignalsTypeOK'
<1> PICK k : k = sends + 1
  OBVIOUS
<1>1. CASE SetOurProfile
  <2>1. k \in Nat
    BY SMT DEF SignalsTypeOK
  <2>2. own' \in [name : Nat, jpeg : Nat]
    BY <1>1, <2>1 DEF SetOurProfile
  <2> QED BY <1>1, <2>2, Counts DEF SetOurProfile, SignalsTypeOK, gates, indicators
<1>2. CASE DieSetting
  <2>1. k \in Nat /\ 0 \in Nat /\ 0 <= SendInterval
    BY SMT, TimesAssumption DEF SignalsTypeOK
  <2>2. own' \in [name : Nat, jpeg : Nat]
    BY <1>2, <2>1 DEF DieSetting, SignalsTypeOK
  <2> QED BY <1>2, <2>1, <2>2, Counts DEF DieSetting, SignalsTypeOK, gates
<1>3. CASE BroadcastProfile
  <2>1. k \in Nat
    BY SMT DEF SignalsTypeOK
  <2>2. own.name \in Nat /\ own.jpeg \in Nat
    BY DEF SignalsTypeOK
  <2>3. mail' \subseteq Frame
    BY <1>3, <2>2, PostsFrame DEF BroadcastProfile
  <2>4. latest' \in [name : Nat, jpeg : Nat, n : Nat]
    BY <1>3, <2>1, <2>2 DEF BroadcastProfile, SignalsTypeOK
  <2> QED BY <1>3, <2>3, <2>4, Counts DEF BroadcastProfile, SignalsTypeOK, gates, indicators
<1> QED BY <1>1, <1>2, <1>3

\* The handlers of the three frames keep the types.
LEMMA ReceiptTypes ==
  ASSUME SignalsTypeOK, NEW m \in mail,
         ReceiveTyping(m) \/ ReceivePresence(m) \/ ReceiveProfile(m) \/ Ignore(m)
  PROVE  SignalsTypeOK'
<1>1. m \in Frame
  BY DEF SignalsTypeOK
<1>2. CASE ReceiveTyping(m)
  <2>1. m.a \in BOOLEAN
    BY <1>1, <1>2, FrameFields DEF ReceiveTyping, Ephemeral
  <2>2. typing' \in [there : BOOLEAN, left : Nat]
    <3>1. TypingTtl \in Nat /\ 0 \in Nat
      BY SMT, TimesAssumption
    <3> QED BY <3>1, <1>2 DEF ReceiveTyping, NoteTyping, Dark
  <2>3. shown' \in [typing : BOOLEAN, in : BOOLEAN, dnd : BOOLEAN]
    BY <2>1, <1>2 DEF ReceiveTyping, SignalsTypeOK
  <2>4. smooth' \in BOOLEAN
    BY <2>1, <1>2 DEF ReceiveTyping
  <2> QED BY <1>2, <2>2, <2>3, <2>4 DEF ReceiveTyping, Takes, SignalsTypeOK, gates, profiles
<1>3. CASE ReceivePresence(m)
  <2>1. m.a \in BOOLEAN /\ m.b \in BOOLEAN
    BY <1>1, <1>3, FrameFields DEF ReceivePresence, Ephemeral
  <2>2. shown' \in [typing : BOOLEAN, in : BOOLEAN, dnd : BOOLEAN]
    BY <2>1, <1>3 DEF ReceivePresence, SignalsTypeOK
  <2> QED BY <1>3, <2>2 DEF ReceivePresence, Takes, SignalsTypeOK, gates, profiles
<1>4. CASE ReceiveProfile(m)
  <2>1. m.a \in Nat /\ m.b \in Nat /\ m.n \in Nat
    BY <1>1, <1>4, FrameFields DEF ReceiveProfile
  <2>2. profile' \in [name : Nat, jpeg : Nat, n : Nat]
    BY <2>1, <1>4 DEF ReceiveProfile, ApplyInbound
  <2>3. overtaken' \in BOOLEAN
    BY <1>4 DEF ReceiveProfile
  <2> QED BY <1>4, <2>2, <2>3 DEF ReceiveProfile, Takes, SignalsTypeOK, gates, indicators
<1>5. CASE Ignore(m)
  BY <1>5 DEF Ignore, Takes, SignalsTypeOK, gates, profiles
<1> QED BY <1>2, <1>3, <1>4, <1>5

\* The clock, the sweep, a fresh start of the peer and a change of the gates keep the
\* types.
LEMMA UpkeepTypes ==
  ASSUME SignalsTypeOK, Tick \/ Sweep \/ Forget \/ Turn
  PROVE  SignalsTypeOK'
<1>1. CASE Tick
  <2>1. mail' \subseteq Frame
    BY SMT, <1>1, Ages, AgedFields DEF SignalsTypeOK
  <2>2. hold' \in Nat /\ hold' <= SendInterval
    BY SMT, <1>1, LessFacts, TimesAssumption DEF Tick, SignalsTypeOK
  <2>3. typing' \in [there : BOOLEAN, left : Nat]
    <3>1. typing.left \in Nat /\ Less(typing.left) \in Nat
      BY LessFacts DEF SignalsTypeOK
    <3> QED BY <3>1, <1>1 DEF Tick, SignalsTypeOK
  <2>4. smooth' \in BOOLEAN
    BY <1>1 DEF Tick
  <2> QED BY <1>1, <2>1, <2>2, <2>3, <2>4 DEF Tick, SignalsTypeOK, gates, profiles
<1>2. CASE Sweep
  <2>1. 0 \in Nat
    BY SMT
  <2>2. typing' \in [there : BOOLEAN, left : Nat]
    BY <1>2, <2>1 DEF Sweep, Dark, SignalsTypeOK
  <2>3. shown' \in [typing : BOOLEAN, in : BOOLEAN, dnd : BOOLEAN]
    BY <1>2 DEF Sweep
  <2> QED BY <1>2, <2>2, <2>3 DEF Sweep, SignalsTypeOK, gates, profiles
<1>3. CASE Forget
  <2>1. 0 \in Nat
    BY SMT
  <2>2. typing' \in [there : BOOLEAN, left : Nat]
    BY <1>3, <2>1 DEF Forget, Dark
  <2>3. shown' \in [typing : BOOLEAN, in : BOOLEAN, dnd : BOOLEAN]
    BY <1>3 DEF Forget, Nobody
  <2> QED BY <1>3, <2>2, <2>3 DEF Forget, SignalsTypeOK, profiles
<1>4. CASE Turn
  BY <1>4 DEF Turn, SignalsTypeOK, profiles
<1> QED BY <1>1, <1>2, <1>3, <1>4

\* Every step keeps the types.
LEMMA TypesKeep ==
  ASSUME SignalsTypeOK, SignalsNext
  PROVE  SignalsTypeOK'
BY TypingTypes, PresenceTypes, ProfileTypes, ReceiptTypes, UpkeepTypes DEF SignalsNext

-----------------------------------------------------------------------------
\* An indicator that will last is lit: its time is not up.
LEMMA LastsIsLit ==
  ASSUME SignalsTypeOK, Lasts
  PROVE  typing.left > 0
<1>1. typing.left \in Nat /\ hold \in Nat
  BY DEF SignalsTypeOK
<1>2. CASE typing.left > hold + Latency
  BY SMT, <1>1, <1>2, TimesAssumption
<1>3. CASE \E m \in mail : Carries(m)
  <2>1. PICK m \in mail : Carries(m)
    BY <1>3
  <2>2. m.age \in Nat
    BY FrameFields DEF SignalsTypeOK
  <2> QED BY SMT, <1>1, <2>1, <2>2, TimesAssumption DEF Carries
<1> QED BY <1>2, <1>3 DEF Lasts

\* What neither hurries the typing state nor takes a frame of it leaves it.
LEMMA TypingQuiet ==
  ASSUME SignalsTypeOK, TypingInv, typing' = typing, shown'.typing = shown.typing,
         smooth' => smooth, hold' = hold \/ hold' = 0,
         \A m \in mail : m.kind = "typing" => m \in mail'
  PROVE  TypingInv'
<1>1. Lit' = Lit
  BY DEF Lit
<1>2. ASSUME smooth'
      PROVE  typing'.there /\ Lasts'
  <2>1. typing.there /\ Lasts
    BY <1>2 DEF TypingInv
  <2>2. CASE typing.left > hold + Latency
    <3>1. typing.left > hold' + Latency
      BY SMT, <2>2, TimesAssumption DEF SignalsTypeOK
    <3> QED BY <3>1, <2>1 DEF Lasts
  <2>3. CASE \E m \in mail : Carries(m)
    <3>1. PICK m \in mail : Carries(m)
      BY <2>3
    <3>2. m \in mail' /\ (m.kind = "typing" /\ m.age <= Latency /\ typing'.left + m.age > Latency)
      BY <3>1 DEF Carries
    <3> QED BY <3>2, <2>1 DEF Lasts, Carries
  <2> QED BY <2>1, <2>2, <2>3 DEF Lasts
<1> QED BY <1>1, <1>2 DEF TypingInv

\* send_typing keeps the indicator lit: a throttled call leaves the last frame its
\* time, and another one puts a frame on its way.
LEMMA TypingSends ==
  ASSUME SignalsTypeOK, TypingInv, NEW on \in BOOLEAN, SendTyping(on)
  PROVE  TypingInv'
<1>1. CASE ~smooth'
  BY <1>1 DEF SendTyping, TypingInv, Lit
<1>2. CASE smooth'
  <2> PICK f : f = [kind |-> "typing", a |-> on, b |-> FALSE, n |-> sends + 1, age |-> 0]
    OBVIOUS
  <2>1. on /\ GateOutbound("typing") /\ smooth /\ hold = 0 /\ typing' = typing /\ shown' = shown
    BY <1>2 DEF SendTyping, MayType
  <2>2. mail' = mail \cup {f}
    BY <2>1 DEF SendTyping, Posts
  <2>3. typing.there /\ Lasts /\ (Lit => shown.typing)
    BY <2>1 DEF TypingInv
  <2>4. Lasts'
    <3>1. CASE typing.left > hold + Latency
      <4>1. f.kind = "typing" /\ f.age = 0
        OBVIOUS
      <4>2. f.age <= Latency /\ typing'.left + f.age > Latency
        BY SMT, <3>1, <4>1, <2>1, TimesAssumption DEF SignalsTypeOK
      <4> QED BY <4>1, <4>2, <2>2 DEF Lasts, Carries
    <3>2. CASE \E m \in mail : Carries(m)
      BY <3>2, <2>1, <2>2 DEF Lasts, Carries
    <3> QED BY <3>1, <3>2, <2>3 DEF Lasts
  <2> QED BY <2>1, <2>3, <2>4 DEF TypingInv, Lit
<1> QED BY <1>1, <1>2

\* A typing frame gives the indicator its full time again.
LEMMA TypingReceives ==
  ASSUME SignalsTypeOK, TypingInv, NEW m \in mail, ReceiveTyping(m)
  PROVE  TypingInv'
<1>1. m.a \in BOOLEAN
  BY FrameFields DEF ReceiveTyping, Ephemeral, SignalsTypeOK
<1>2. CASE ~m.a
  BY <1>2 DEF ReceiveTyping, NoteTyping, Dark, TypingInv, Lit
<1>3. CASE m.a
  <2>1. typing' = [there |-> TRUE, left |-> TypingTtl] /\ hold' = hold
    BY <1>3 DEF ReceiveTyping, NoteTyping
  <2>2. typing'.left > hold' + Latency
    <3>1. typing'.left = TypingTtl
      BY <2>1
    <3> QED BY SMT, <3>1, <2>1, TimesAssumption DEF SignalsTypeOK
  <2>3. shown'.typing
    BY <1>3, <1>1 DEF ReceiveTyping, TypingInv, SignalsTypeOK, Lit
  <2> QED BY <2>1, <2>2, <2>3 DEF TypingInv, Lasts
<1> QED BY <1>1, <1>2, <1>3

\* A second passes: the throttle, the indicator and the frames age together.
LEMMA TypingTicks ==
  ASSUME SignalsTypeOK, TypingInv, Tick
  PROVE  TypingInv'
<1>1. /\ typing.left \in Nat /\ hold \in Nat /\ hold' = Less(hold) /\ shown' = shown
      /\ typing'.left = Less(typing.left) /\ typing'.there = typing.there
  BY DEF Tick, SignalsTypeOK
<1>2. Lit' => Lit
  <2>1. typing'.left > 0 => typing.left > 0
    BY SMT, <1>1, LessFacts
  <2> QED BY <1>1, <2>1 DEF Lit
<1>3. ASSUME smooth'
      PROVE  typing'.there /\ Lasts'
  <2>1. smooth /\ hold > 0 /\ \A m \in mail : m.kind = "typing" => m.age < Latency
    BY <1>3 DEF Tick
  <2>2. typing.there /\ Lasts
    BY <2>1 DEF TypingInv
  <2>3. CASE typing.left > hold + Latency
    <3>1. typing'.left > hold' + Latency
      BY SMT, <2>3, <2>1, <1>1, TimesAssumption DEF Less
    <3> QED BY <3>1, <2>2, <1>1 DEF Lasts
  <2>4. CASE \E m \in mail : Carries(m)
    <3>1. PICK m \in mail : Carries(m)
      BY <2>4
    <3>2. m \in Frame /\ m.age \in Nat /\ m.kind = "typing" /\ m.age < Latency
      BY <3>1, <2>1, FrameFields DEF Carries, SignalsTypeOK
    <3>3. Aged(m) \in mail' /\ Aged(m).kind = "typing" /\ Aged(m).age = m.age + 1
      BY <3>2, Ages, AgedFields
    <3>4. Aged(m).age <= Latency /\ typing'.left + Aged(m).age > Latency
      BY SMT, <3>1, <3>2, <3>3, <1>1, TimesAssumption DEF Carries, Less
    <3> QED BY <3>3, <3>4, <2>2, <1>1 DEF Lasts, Carries
  <2> QED BY <2>2, <2>3, <2>4 DEF Lasts
<1> QED BY <1>1, <1>2, <1>3 DEF TypingInv

\* The sweep clears only what has expired.
LEMMA TypingSweeps ==
  ASSUME SignalsTypeOK, TypingInv, Sweep
  PROVE  TypingInv'
<1>1. CASE Fades
  <2>1. ~smooth
    <3>1. typing.left = 0
      BY <1>1 DEF Fades
    <3>2. ~ (typing.left > 0)
      BY SMT, <3>1
    <3> QED BY <3>2, LastsIsLit DEF TypingInv
  <2> QED BY <1>1, <2>1 DEF Sweep, Dark, TypingInv, Lit
<1>2. CASE ~Fades
  <2>1. /\ typing' = typing /\ hold' = hold /\ mail' = mail /\ smooth' = smooth
        /\ shown'.typing = shown.typing
    BY <1>2 DEF Sweep, SignalsTypeOK
  <2> QED BY <2>1, TypingQuiet
<1> QED BY <1>1, <1>2

\* Every step keeps it.
LEMMA TypingKeeps ==
  ASSUME SignalsTypeOK, TypingInv, SignalsNext
  PROVE  TypingInv'
<1>1. ASSUME NEW in \in BOOLEAN, NEW dnd \in BOOLEAN, SendPresence(in, dnd)
      PROVE  TypingInv'
  BY <1>1, TypingQuiet DEF SendPresence, Posts, indicators
<1>2. CASE SetOurProfile
  BY <1>2, TypingQuiet DEF SetOurProfile, indicators
<1>3. CASE DieSetting
  BY <1>3, TypingQuiet DEF DieSetting
<1>4. CASE BroadcastProfile
  BY <1>4, TypingQuiet DEF BroadcastProfile, Posts, indicators
<1>5. ASSUME NEW m \in mail, ReceivePresence(m)
      PROVE  TypingInv'
  <2>1. shown'.typing = shown.typing
    BY <1>5 DEF ReceivePresence, SignalsTypeOK
  <2> QED BY <1>5, <2>1, TypingQuiet DEF ReceivePresence, Takes
<1>6. ASSUME NEW m \in mail, ReceiveProfile(m)
      PROVE  TypingInv'
  BY <1>6, TypingQuiet DEF ReceiveProfile, Takes, indicators
<1>7. ASSUME NEW m \in mail, Ignore(m)
      PROVE  TypingInv'
  BY <1>7 DEF Ignore, TypingInv, Lit
<1>8. CASE Forget
  BY <1>8 DEF Forget, Dark, TypingInv, Lit
<1>9. CASE Turn
  BY <1>9 DEF Turn, TypingInv, Lit
<1> QED
  BY <1>1, <1>2, <1>3, <1>4, <1>5, <1>6, <1>7, <1>8, <1>9, TypingSends, TypingReceives, TypingTicks,
     TypingSweeps DEF SignalsNext

-----------------------------------------------------------------------------
\* What leaves the profiles and their frames alone.
LEMMA ProfileQuiet ==
  ASSUME ProfileInv, UNCHANGED profiles, latest.n <= sends',
         \A m \in mail : m.kind = "profile" => m \in mail',
         \A m \in mail' : m.kind = "profile" => m \in mail
  PROVE  ProfileInv'
BY DEF ProfileInv, profiles, IsLatest

\* broadcast_profile sends what was saved, under the next number.
LEMMA ProfileSends ==
  ASSUME SignalsTypeOK, ProfileInv, BroadcastProfile
  PROVE  ProfileInv'
<1>1. /\ sends' \in Nat /\ sends < sends' /\ sends' = sends + 1 /\ latest.n \in Nat
      /\ latest.n <= sends'
  BY SMT, Counts DEF BroadcastProfile, ProfileInv, SignalsTypeOK
<1>2. CASE ~Reached("profile")
  BY <1>1, <1>2, ProfileQuiet DEF BroadcastProfile, Posts, profiles
<1>3. CASE Reached("profile")
  <2> PICK f : f = [kind |-> "profile", a |-> own.name, b |-> own.jpeg, n |-> sends + 1, age |-> 0]
    OBVIOUS
  <2>1. /\ mail' = mail \cup {f}
        /\ latest' = [name |-> own.name, jpeg |-> own.jpeg, n |-> sends + 1]
        /\ own' = own /\ profile' = profile /\ torn' = torn /\ overtaken' = overtaken
    BY <1>3 DEF BroadcastProfile, Posts
  <2>2. latest'.n = sends' /\ f.n = sends' /\ f.a = own.name /\ f.b = own.jpeg /\ f.kind = "profile"
    BY <2>1, <1>1
  <2>3. latest'.n <= sends'
    BY SMT, <2>2, <1>1
  <2>4. ASSUME NEW m \in mail, m.kind = "profile"
        PROVE  m.n <= latest'.n /\ m.n # latest'.n
    <3>1. m.n \in Nat /\ m.n <= latest.n /\ latest.n <= sends
      BY <2>4, FrameFields DEF ProfileInv, SignalsTypeOK
    <3> QED BY SMT, <3>1, <2>2, <1>1 DEF SignalsTypeOK
  <2>5. f.n <= latest'.n
    BY <2>2, <2>3
  <2>6. f.a = latest'.name /\ f.b = latest'.jpeg
    BY <2>1, <2>2
  <2> QED BY <2>1, <2>2, <2>3, <2>4, <2>5, <2>6 DEF ProfileInv, IsLatest
<1> QED BY <1>2, <1>3

\* apply_inbound overwrites the row with the profile that came.
LEMMA ProfileReceives ==
  ASSUME SignalsTypeOK, ProfileInv, NEW m \in mail, ReceiveProfile(m)
  PROVE  ProfileInv'
<1>1. /\ m.kind = "profile" /\ mail' = mail \ {m} /\ sends' = sends
      /\ own' = own /\ latest' = latest /\ torn' = torn
      /\ profile' = [name |-> m.a, jpeg |-> m.b, n |-> m.n]
      /\ overtaken' = (m.n # latest.n /\ (overtaken \/ m.n < profile.n))
  BY DEF ReceiveProfile, Takes, ApplyInbound
<1>2. profile'.name # profile'.jpeg => torn
  BY <1>1 DEF ProfileInv
<1>3. CASE m.n = latest.n
  <2>1. profile' = latest
    <3>1. m.a = latest.name /\ m.b = latest.jpeg
      BY <1>1, <1>3 DEF ProfileInv, IsLatest
    <3> QED BY <1>1, <1>3, <3>1 DEF SignalsTypeOK
  <2> QED BY <1>1, <1>2, <2>1 DEF ProfileInv, IsLatest
<1>4. CASE m.n # latest.n
  <2>1. overtaken' \/ profile' = latest' \/ \E x \in mail' : IsLatest(x)'
    <3>1. CASE profile = latest
      <4>1. m.n < profile.n
        <5>1. m.n \in Nat /\ latest.n \in Nat /\ m.n <= latest.n
          BY <1>1, FrameFields DEF ProfileInv, SignalsTypeOK
        <5> QED BY SMT, <5>1, <1>4, <3>1
      <4> QED BY <4>1, <1>1, <1>4
    <3>2. CASE \E x \in mail : IsLatest(x)
      BY <3>2, <1>1, <1>4 DEF IsLatest
    <3> QED BY <3>1, <3>2, <1>1, <1>4 DEF ProfileInv
  <2> QED BY <1>1, <1>2, <2>1 DEF ProfileInv, IsLatest
<1> QED BY <1>3, <1>4

\* Ageing leaves the profile a frame carries.
LEMMA ProfileTicks ==
  ASSUME SignalsTypeOK, ProfileInv, Tick
  PROVE  ProfileInv'
<1>1. /\ own' = own /\ profile' = profile /\ torn' = torn /\ latest' = latest
      /\ overtaken' = overtaken /\ sends' = sends
  BY DEF Tick, profiles
<1>2. ASSUME NEW x \in mail'
      PROVE  \E m \in mail : x.kind = m.kind /\ x.a = m.a /\ x.b = m.b /\ x.n = m.n
  BY SMT, <1>2, Ages, AgedFields DEF SignalsTypeOK
<1>3. ASSUME NEW m \in mail
      PROVE  \E x \in mail' : x.kind = m.kind /\ x.n = m.n
  BY ZenonT(60), <1>3, Ages, AgedFields DEF SignalsTypeOK
<1>4. \A x \in mail' : x.kind = "profile" =>
       /\ x.n <= latest.n
       /\ IsLatest(x) => x.a = latest.name /\ x.b = latest.jpeg
       /\ x.a # x.b => torn
  BY <1>2 DEF ProfileInv, IsLatest
<1>5. (\E m \in mail : IsLatest(m)) => \E x \in mail' : IsLatest(x)
  BY <1>3 DEF IsLatest
<1> QED BY <1>1, <1>4, <1>5 DEF ProfileInv, IsLatest

\* Every step keeps it.
LEMMA ProfileKeeps ==
  ASSUME SignalsTypeOK, ProfileInv, SignalsNext
  PROVE  ProfileInv'
<1>1. latest.n <= sends
  BY DEF ProfileInv
<1>2. Call => latest.n <= sends'
  BY SMT, <1>1, Counts DEF SignalsTypeOK
<1>3. ASSUME NEW on \in BOOLEAN, SendTyping(on)
      PROVE  ProfileInv'
  BY SMT, <1>2, <1>3, ProfileQuiet DEF SendTyping, Posts
<1>4. ASSUME NEW in \in BOOLEAN, NEW dnd \in BOOLEAN, SendPresence(in, dnd)
      PROVE  ProfileInv'
  BY SMT, <1>2, <1>4, ProfileQuiet DEF SendPresence, Posts
<1>5. CASE SetOurProfile
  BY <1>2, <1>5 DEF SetOurProfile, ProfileInv, IsLatest
<1>6. CASE DieSetting
  BY <1>2, <1>6 DEF DieSetting, ProfileInv, IsLatest
<1>7. ASSUME NEW m \in mail, ReceiveTyping(m) \/ ReceivePresence(m) \/ Ignore(m)
      PROVE  ProfileInv'
  BY <1>1, <1>7, ProfileQuiet DEF ReceiveTyping, ReceivePresence, Ignore, Takes, Ephemeral
<1>8. CASE Sweep
  BY <1>1, <1>8, ProfileQuiet DEF Sweep
<1>9. CASE Forget
  BY <1>1, <1>9, ProfileQuiet DEF Forget
<1>10. CASE Turn
  BY <1>1, <1>10, ProfileQuiet DEF Turn
<1> QED
  BY <1>3, <1>4, <1>5, <1>6, <1>7, <1>8, <1>9, <1>10, ProfileSends, ProfileReceives, ProfileTicks
     DEF SignalsNext

-----------------------------------------------------------------------------
\* The invariant holds in every reachable state.
LEMMA SignalsInvariance == SignalsSpec => []SignalsInv
<1>1. SignalsInit => SignalsInv
  <2> SUFFICES ASSUME SignalsInit
               PROVE  SignalsInv
    OBVIOUS
  <2>1. 0 \in Nat /\ 0 <= SendInterval /\ ~ (0 > 0) /\ 0 <= 0
    BY SMT, TimesAssumption
  <2>2. SignalsTypeOK
    BY <2>1 DEF SignalsInit, SignalsTypeOK, Dark, NoProfile, Nobody
  <2>3. TypingInv
    BY DEF SignalsInit, TypingInv, Dark, Lit
  <2>4. ProfileInv
    BY <2>1 DEF SignalsInit, ProfileInv, NoProfile
  <2> QED BY <2>2, <2>3, <2>4 DEF SignalsInv
<1>2. SignalsInv /\ [SignalsNext]_signals => SignalsInv'
  <2> SUFFICES ASSUME SignalsInv, [SignalsNext]_signals
               PROVE  SignalsInv'
    OBVIOUS
  <2>1. CASE SignalsNext
    BY <2>1, TypesKeep, TypingKeeps, ProfileKeeps DEF SignalsInv
  <2>2. CASE UNCHANGED signals
    <3>1. SignalsTypeOK'
      BY <2>2 DEF signals, SignalsInv, SignalsTypeOK
    <3>2. TypingInv'
      BY <2>2 DEF signals, SignalsInv, TypingInv, Lit, Lasts, Carries
    <3>3. ProfileInv'
      BY <2>2 DEF signals, SignalsInv, ProfileInv, IsLatest
    <3> QED BY <3>1, <3>2, <3>3 DEF SignalsInv
  <2> QED BY <2>1, <2>2
<1> QED BY <1>1, <1>2, PTL DEF SignalsSpec

\* While a peer is typing and its frames are prompt, the indicator does not go out:
\* the throttle of send_typing (SEND_INTERVAL) and the time a frame lights the
\* indicator (TYPING_TTL, typing/mod.rs) fit together for every delay shorter than
\* their difference.
THEOREM NeverFlickers == SignalsSpec => []NoFlicker
<1>1. SignalsInv => NoFlicker
  BY LastsIsLit DEF SignalsInv, TypingInv, NoFlicker, Lit
<1> QED BY <1>1, SignalsInvariance, PTL

\* Once every profile sent has arrived, the peer has the last one, unless an earlier
\* one arrived after it, and its name and picture are of one edit unless a death
\* cut the edit in two: set_our_profile, broadcast_profile, apply_inbound.
THEOREM ProfilesConverge == SignalsSpec => []ProfileConverges
<1>1. SignalsInv => ProfileConverges
  BY DEF SignalsInv, ProfileInv, ProfileConverges, IsLatest
<1> QED BY <1>1, SignalsInvariance, PTL

=============================================================================
