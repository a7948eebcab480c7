------------------------------ MODULE History ------------------------------
(***************************************************************************)
(* The shared thread of two engines: MSG, EDIT, DELETE and DELETE_ALL      *)
(* (engine/send.rs, engine/inbound.rs), edit_decision (messages/edit.rs),  *)
(* should_drop_inbound (messages/delete.rs), tombstones and the history    *)
(* cut (store/tombstones.rs, store/relationships.rs).                      *)
(*                                                                         *)
(* An envelope is dispatched at most once, in any order, perhaps never     *)
(* (Delivery).  A message is named by its sender and app_seq.  Its text is *)
(* the app_seq of the EDIT it came from, 0 for the original.  The edit     *)
(* windows close by a choice (lapse), not by a clock.                      *)
(***************************************************************************)
EXTENDS Integers

CONSTANTS
  Nodes,      \* the two engines
  Writers,    \* the engines whose user writes and edits
  Wipers,     \* the engines whose user wipes the thread
  Quota,      \* bound: Quota[n] envelopes are sent by n
  MaxEdits,   \* EDIT_MAX_EDITS
  MaxLapses,  \* bound: edits that come after the window
  MaxPrunes   \* bound: tombstones pruned

ASSUME HistoryNodesAssumption == \E a, b \in Nodes : a # b /\ Nodes = {a, b}
ASSUME HistoryBoundsAssumption ==
  /\ Writers \subseteq Nodes /\ Wipers \subseteq Nodes
  /\ Quota \in [Nodes -> Nat]
  /\ MaxEdits \in Nat /\ MaxLapses \in Nat /\ MaxPrunes \in Nat

VARIABLES
  seq,      \* seq[n]: app_seqs n has used
  net,      \* the envelopes on their way
  thread,   \* thread[n]: the MSG rows of n's ledger, by message
  tombs,    \* tombs[n]: n's tombstones
  cut,      \* cut[n]: relationships.history_cut_seq
  wipes,    \* history: wipes[n] are the DELETE_ALLs n sent or applied
  missed,   \* history: messages an EDIT of which was dropped at the receiver
  deleted,  \* history: deleted[n] are the messages n deleted, by DELETE
  lost,     \* history: the messages the cut dropped though they were sent
            \* after every wipe their receiver knew of
  lapses,
  prunes

threadVars == <<seq, net, thread, tombs, cut, wipes, missed, deleted, lost, lapses, prunes>>

Peer(n) == CHOOSE m \in Nodes : m # n

\* A message or envelope name.
Name(n, s) == [from |-> n, seq |-> s]

\* A MSG row: text and last_edit_seq are the seq of the EDIT it shows.
Original == [text |-> 0, edits |-> 0, tomb |-> FALSE]

NoRows == [id \in {} |-> Original]

\* insert_message: an INSERT of a row that is there fails.
Insert(rows, id) ==
  [i \in DOMAIN rows \cup {id} |-> IF i \in DOMAIN rows THEN rows[i] ELSE Original]

Wiped == -1

-----------------------------------------------------------------------------
ThreadInit ==
  /\ seq = [n \in Nodes |-> 0]
  /\ net = {}
  /\ thread = [n \in Nodes |-> NoRows]
  /\ tombs = [n \in Nodes |-> {}]
  /\ cut = [n \in Nodes |-> 0]
  /\ wipes = [n \in Nodes |-> {}]
  /\ missed = {}
  /\ deleted = [n \in Nodes |-> {}]
  /\ lost = {}
  /\ lapses = 0
  /\ prunes = 0

\* EDIT_MAX_EDITS, in can_offer_edit and edit_decision.
CapReached(row) == row.edits >= MaxEdits

\* Mutant: an edit brings a deleted message back.
MarkEditedAlways(rows, id, s) ==
  [rows EXCEPT ![id].text = s, ![id].edits = @ + 1]

\* mark_edited leaves a tombstoned row alone.
MarkEdited(rows, id, s) ==
  IF rows[id].tomb THEN rows
    ELSE [rows EXCEPT ![id] = [text |-> s, edits |-> @.edits + 1, tomb |-> FALSE]]

\* mark_tombstoned, if the row is there.
MarkTombstoned(rows, id) ==
  IF id \in DOMAIN rows
    THEN [rows EXCEPT ![id] = [text |-> Wiped, edits |-> @.edits, tomb |-> TRUE]]
    ELSE rows

\* send_envelope: the next app_seq of n goes out with op and ref.  The field
\* after is history, the wipes n knew of.
SendEnvelope(n, op, ref) ==
  /\ seq[n] < Quota[n]
  /\ seq' = [seq EXCEPT ![n] = @ + 1]
  /\ net' = net \cup {[from |-> n, seq |-> seq[n] + 1, op |-> op, ref |-> ref,
                       after |-> wipes[n]]}

-----------------------------------------------------------------------------
\* send_text.
SendText(n) ==
  /\ n \in Writers
  /\ SendEnvelope(n, "msg", Name(n, seq[n] + 1))
  /\ thread' = [thread EXCEPT ![n] = Insert(@, Name(n, seq[n] + 1))]
  /\ UNCHANGED <<tombs, cut, wipes, missed, deleted, lost, lapses, prunes>>

\* send_edit: can_offer_edit takes our own live message, within the cap and the
\* window.
SendEdit(n, id) ==
  /\ id.from = n
  /\ ~thread[n][id].tomb /\ ~CapReached(thread[n][id])
  /\ SendEnvelope(n, "edit", id)
  /\ thread' = [thread EXCEPT ![n] = MarkEdited(@, id, seq[n] + 1)]
  /\ UNCHANGED <<tombs, cut, wipes, missed, deleted, lost, lapses, prunes>>

\* send_delete, for a message of either side that the thread holds.
SendDelete(n, id) ==
  /\ SendEnvelope(n, "delete", id)
  /\ thread' = [thread EXCEPT ![n] = MarkTombstoned(@, id)]
  /\ tombs' = [tombs EXCEPT ![n] = @ \cup {id}]
  /\ deleted' = [deleted EXCEPT ![n] = @ \cup {id}]
  /\ UNCHANGED <<cut, wipes, missed, lost, lapses, prunes>>

\* Mutant: the latest DELETE_ALL to come decides.
RaiseCutLatest(old, s) == s

\* raise_history_cut.
RaiseCut(old, s) == IF s > old THEN s ELSE old

\* send_delete_all: the cut rises to our own app_seq and every row goes.
SendDeleteAll(n) ==
  LET da == Name(n, seq[n] + 1)
  IN  /\ n \in Wipers
      /\ SendEnvelope(n, "delete_all", da)
      /\ cut' = [cut EXCEPT ![n] = RaiseCut(@, da.seq)]
      /\ thread' = [thread EXCEPT ![n] = NoRows]
      /\ wipes' = [wipes EXCEPT ![n] = @ \cup {da}]
      /\ UNCHANGED <<tombs, missed, deleted, lost, lapses, prunes>>

-----------------------------------------------------------------------------
\* The history cut drops the envelope m at n.
Cut(n, m) == cut[n] > 0 /\ m.seq < cut[n]

\* should_drop_inbound of a history type, and the ledger: a MSG.
ReceiveMsg(m) ==
  LET n  == Peer(m.from)
      id == Name(m.from, m.seq)
  IN  /\ m.op = "msg"
      /\ net' = net \ {m}
      /\ IF id \in tombs[n] \/ Cut(n, m)
           THEN UNCHANGED thread
           ELSE thread' = [thread EXCEPT ![n] = Insert(@, id)]
      /\ lost' = IF id \notin tombs[n] /\ Cut(n, m) /\ wipes[n] \subseteq m.after
                   THEN lost \cup {id} ELSE lost
      /\ UNCHANGED <<seq, tombs, cut, wipes, missed, deleted, lapses, prunes>>

\* Mutant: any EDIT replaces the text.
StaleNever(row, s) == FALSE

\* edit_decision drops an EDIT older than the one shown.
Stale(row, s) == s <= row.text

\* edit_decision finds the target, above the cut.
Targeted(n, m) == m.ref \in DOMAIN thread[n] /\ ~Cut(n, m)

\* apply_edit: the EDIT is applied, dropped as stale, or dropped for a target
\* that is missing, capped or past its window (lapsed).
ReceiveEdit(m) ==
  LET n    == Peer(m.from)
      rows == thread[n]
      here == Targeted(n, m)
  IN  /\ m.op = "edit"
      /\ net' = net \ {m}
      /\ \/ /\ here /\ ~CapReached(rows[m.ref])
            /\ thread' = [thread EXCEPT ![n] = IF Stale(rows[m.ref], m.seq) THEN @
                                               ELSE MarkEdited(@, m.ref, m.seq)]
            /\ UNCHANGED <<missed, lapses>>
         \/ /\ here => CapReached(rows[m.ref])
            /\ missed' = missed \cup {m.ref}
            /\ UNCHANGED <<thread, lapses>>
         \/ /\ here /\ lapses < MaxLapses
            /\ lapses' = lapses + 1
            /\ missed' = missed \cup {m.ref}
            /\ UNCHANGED thread
      /\ UNCHANGED <<seq, tombs, cut, wipes, deleted, lost, prunes>>

\* apply_delete: the tombstone is recorded even when the target never came.
ReceiveDelete(m) ==
  LET n == Peer(m.from)
  IN  /\ m.op = "delete"
      /\ net' = net \ {m}
      /\ thread' = [thread EXCEPT ![n] = MarkTombstoned(@, m.ref)]
      /\ tombs' = [tombs EXCEPT ![n] = @ \cup {m.ref}]
      /\ deleted' = [deleted EXCEPT ![n] = @ \cup {m.ref}]
      /\ UNCHANGED <<seq, cut, wipes, missed, lost, lapses, prunes>>

\* DELETE_ALL: the cut rises to the sender's app_seq and every row goes.
ReceiveDeleteAll(m) ==
  LET n == Peer(m.from)
  IN  /\ m.op = "delete_all"
      /\ net' = net \ {m}
      /\ cut' = [cut EXCEPT ![n] = RaiseCut(@, m.seq)]
      /\ thread' = [thread EXCEPT ![n] = NoRows]
      /\ wipes' = [wipes EXCEPT ![n] = @ \cup {m.ref}]
      /\ UNCHANGED <<seq, tombs, missed, deleted, lost, lapses, prunes>>

\* prune_tombstones: a tombstone is past its day, or beyond the cap.
PruneTombstone(n, id) ==
  /\ prunes < MaxPrunes
  /\ prunes' = prunes + 1
  /\ tombs' = [tombs EXCEPT ![n] = @ \ {id}]
  /\ UNCHANGED <<seq, net, thread, cut, wipes, missed, deleted, lost, lapses>>

ThreadNext ==
  \/ \E n \in Nodes :
       \/ SendText(n)
       \/ \E id \in DOMAIN thread[n] : SendEdit(n, id) \/ SendDelete(n, id)
       \/ SendDeleteAll(n)
       \/ \E id \in tombs[n] : PruneTombstone(n, id)
  \/ \E m \in net :
       ReceiveMsg(m) \/ ReceiveEdit(m) \/ ReceiveDelete(m) \/ ReceiveDeleteAll(m)

ThreadSpec == ThreadInit /\ [][ThreadNext]_threadVars

-----------------------------------------------------------------------------
(* Properties.                                                             *)

\* thread_visible: a row under a tombstone is no bubble.
Visible(n) == {id \in DOMAIN thread[n] : ~thread[n][id].tomb}

\* While no tombstone was pruned, a message an engine has deleted is not in
\* thread_visible and has no text left, although the message itself, or an
\* EDIT of it, arrives after the DELETE (add_tombstone, should_drop_inbound,
\* mark_edited).
DeletedStaysDeleted ==
  \A n \in Nodes : \A id \in deleted[n] :
    prunes = 0 =>
      /\ id \notin Visible(n)
      /\ id \in DOMAIN thread[n] => thread[n][id].text = Wiped

\* However EDITs overtake each other, once they have all arrived the receiver
\* shows the text the author shows, unless an EDIT met no target, a full edit
\* count or a closed window, or a tombstone was pruned (edit_decision,
\* last_edit_seq).
EditsConverge ==
  \A n \in Nodes : \A id \in DOMAIN thread[n] \cap DOMAIN thread[Peer(n)] :
    LET settled == \A m \in net : m.op \in {"edit", "delete"} => m.ref # id
    IN  (prunes = 0 /\ settled /\ id \notin missed)
          => thread[n][id].text = thread[Peer(n)][id].text

\* The cut drops no message sent after every wipe its receiver knows of
\* (sync_testnet.rs, "later seqs are above the cut").
CutSparesNew == lost = {}

\* A DELETE_ALL wipes neither less nor more than it should.  No engine shows a
\* message its author sent before a DELETE_ALL of theirs that the engine has
\* applied, in whatever order several of them arrive (raise_history_cut is
\* monotonic).  And a message that the cut drops though it is new met a cut
\* its receiver had raised by a wipe of its own (should_drop_inbound).
WipeIsExact ==
  /\ \A n \in Nodes : \A da \in wipes[n], id \in DOMAIN thread[n] :
       da.from = id.from => id.seq > da.seq
  /\ \A id \in lost : \E da \in wipes[Peer(id.from)] : da.from # id.from
=============================================================================
