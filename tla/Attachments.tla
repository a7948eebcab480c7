---------------------------- MODULE Attachments ----------------------------
(***************************************************************************)
(* The receiving side of attachment transfers in one relationship:         *)
(* on_attach_head, on_attach_chunk, try_complete, attachment_viewed        *)
(* (attach/mod.rs), DELETE (apply_delete of engine/inbound.rs), the        *)
(* erasure when the capability goes off (policy/store.rs) and the sweep    *)
(* (engine/drain.rs), over the tables attachments, attachment_chunks,      *)
(* tombstones and messages.                                                *)
(*                                                                         *)
(* An envelope is dispatched at most once, in any order, perhaps never     *)
(* (Delivery), so every transfer and every DELETE may as well be on its    *)
(* way from the start.  Pads change nothing and are left out.  The content *)
(* hash matches unless the transfer is one of Damaged.                     *)
(***************************************************************************)
EXTENDS Integers, FiniteSets

CONSTANTS
  Heads,            \* the transfers, named by their head_id
  ChunkCount,       \* ChunkCount[h]: chunks of h; 0 when sent inline
  Damaged,          \* the transfers whose content fails the hash check
  ViewOnce,         \* the transfers with FLAG_VIEW_ONCE
  Recalled,         \* the transfers their sender deletes
  MaxPerHead,       \* MAX_ORPHAN_CHUNKS_PER_HEAD
  MaxPerRel,        \* MAX_ORPHAN_CHUNKS_PER_REL
  MaxSwitches,      \* bound: changes of the attachment capability
  MaxCrashes        \* bound: crashes

ASSUME AttachAssumption ==
  /\ ChunkCount \in [Heads -> Nat]
  /\ Damaged \subseteq Heads /\ ViewOnce \subseteq Heads
  /\ Recalled \subseteq Heads
  /\ MaxPerHead \in Nat /\ MaxPerRel \in Nat
  /\ MaxSwitches \in Nat /\ MaxCrashes \in Nat

VARIABLES
  queue,    \* the envelopes sent and not dispatched yet
  row,      \* row[h]: the attachments row of h
  chunks,   \* chunks[h]: the indexes in attachment_chunks for h
  ledger,   \* ledger[h]: the ATTACH_HEAD row of messages
  tombed,   \* tombstones
  allowed,  \* the attachment capability is enforced
  early,    \* history: early[h] are the chunks dispatched before the head
  recalls,  \* history: the transfers whose DELETE was dispatched
  switches,
  crashes

attachVars == <<queue, row, chunks, ledger, tombed, allowed, early, recalls, switches, crashes>>

HeadEnv(h) == [op |-> "head", head |-> h, index |-> 0]

ChunkEnv(h, i) == [op |-> "chunk", head |-> h, index |-> i]

DeleteEnv(h) == [op |-> "delete", head |-> h, index |-> 0]

\* The chunks stored when the content of h is all there: an inline content is
\* stored as chunk 0.
Content(h) == IF ChunkCount[h] = 0 THEN {0} ELSE 0 .. ChunkCount[h] - 1

NoRow == [there |-> FALSE, bitmap |-> {}, complete |-> FALSE, consumed |-> FALSE]

NewRow == [NoRow EXCEPT !.there = TRUE]

-----------------------------------------------------------------------------
AttachInit ==
  /\ queue = {HeadEnv(h) : h \in Heads} \cup {DeleteEnv(h) : h \in Recalled}
             \cup UNION {{ChunkEnv(h, i) : i \in 0 .. ChunkCount[h] - 1} : h \in Heads}
  /\ row = [h \in Heads |-> NoRow]
  /\ chunks = [h \in Heads |-> {}]
  /\ ledger = [h \in Heads |-> "none"]
  /\ tombed = {}
  /\ allowed = TRUE
  /\ early = [h \in Heads |-> {}]
  /\ recalls = {}
  /\ switches = 0
  /\ crashes = 0

Crash == crashes < MaxCrashes /\ crashes' = crashes + 1

\* The row and the chunks of h become r and c.
Transfer(h, r, c) ==
  /\ row' = [row EXCEPT ![h] = r]
  /\ chunks' = [chunks EXCEPT ![h] = c]

\* Mutant: the hash is not checked.
TryCompleteUnchecked(h, r, c) ==
  IF r.complete \/ Cardinality(c) < ChunkCount[h] THEN Transfer(h, r, c)
  ELSE Transfer(h, [r EXCEPT !.bitmap = c, !.complete = TRUE], c)

\* Mutant: one chunk more than there are is waited for.
TryCompleteLate(h, r, c) ==
  IF r.complete \/ Cardinality(c) <= ChunkCount[h] THEN Transfer(h, r, c)
  ELSE IF h \in Damaged THEN Transfer(h, NoRow, {})
  ELSE Transfer(h, [r EXCEPT !.bitmap = Content(h), !.complete = TRUE], c)

\* try_complete: judged by the number of stored chunks.
TryComplete(h, r, c) ==
  IF r.complete \/ Cardinality(c) < ChunkCount[h] THEN Transfer(h, r, c)
  ELSE IF h \in Damaged THEN Transfer(h, NoRow, {})
  ELSE Transfer(h, [r EXCEPT !.bitmap = Content(h), !.complete = TRUE], c)

-----------------------------------------------------------------------------
\* on_attach_head after handle_plaintext's drop of tombstoned ids: the head is
\* ledgered, and kept when the capability is on.  The engine may die between
\* the ledger, insert_head and the rest.
ReceiveHead(h) ==
  /\ HeadEnv(h) \in queue
  /\ queue' = queue \ {HeadEnv(h)}
  /\ ledger' = [ledger EXCEPT ![h] = IF h \in tombed THEN @ ELSE "live"]
  /\ IF h \in tombed \/ ~allowed
       THEN UNCHANGED <<row, chunks, crashes>>
       ELSE \/ /\ IF ChunkCount[h] # 0 THEN TryComplete(h, NewRow, chunks[h])
                  ELSE IF h \in Damaged THEN Transfer(h, NoRow, chunks[h])
                  ELSE Transfer(h, [NewRow EXCEPT !.complete = TRUE], {0})
               /\ UNCHANGED crashes
            \/ \E r \in {NoRow, NewRow} : Transfer(h, r, chunks[h]) /\ Crash
  /\ UNCHANGED <<tombed, allowed, early, recalls, switches>>

OrphanChunks == UNION {{h} \X chunks[h] : h \in {g \in Heads : ~row[g].there}}

\* The orphan caps leave room for one more chunk of h.
OrphanRoom(h) ==
  Cardinality(chunks[h]) < MaxPerHead /\ Cardinality(OrphanChunks) < MaxPerRel

\* note_chunk.
NoteChunk(r, i) == [r EXCEPT !.bitmap = @ \cup {i}]

\* on_attach_chunk: an orphan is stored within its caps; a chunk of a known
\* head is stored, noted in the bitmap, and may complete it.  The engine may
\* die between put_chunk and note_chunk.
ReceiveChunk(h, i) ==
  LET c == chunks[h] \cup {i}
      r == NoteChunk(row[h], i)
  IN  /\ ChunkEnv(h, i) \in queue
      /\ queue' = queue \ {ChunkEnv(h, i)}
      /\ early' = [early EXCEPT ![h] = IF HeadEnv(h) \in queue THEN @ \cup {i} ELSE @]
      /\ \/ /\ ~row[h].there
            /\ IF OrphanRoom(h) THEN Transfer(h, NoRow, c) ELSE UNCHANGED <<row, chunks>>
            /\ UNCHANGED crashes
         \/ /\ row[h].there
            /\ IF Cardinality(r.bitmap) >= ChunkCount[h]
                 THEN TryComplete(h, r, c) ELSE Transfer(h, r, c)
            /\ UNCHANGED crashes
         \/ /\ row[h].there
            /\ Transfer(h, row[h], c)
            /\ Crash
      /\ UNCHANGED <<ledger, tombed, allowed, recalls, switches>>

\* add_tombstone, also for a target that has not arrived.
Buried(h) == tombed \cup {h}

\* on_delete_target: the payload of a transfer that has a row goes with it.
OnDeleteTarget(h) ==
  IF row[h].there THEN Transfer(h, NoRow, {}) ELSE UNCHANGED <<row, chunks>>

\* apply_delete: the chunks and the row of a known transfer go, the target is
\* tombstoned and its ledger row wiped.  The engine may die after each of the
\* first three statements.
ReceiveRecall(h) ==
  /\ DeleteEnv(h) \in queue
  /\ queue' = queue \ {DeleteEnv(h)}
  /\ \/ /\ OnDeleteTarget(h)
        /\ tombed' = Buried(h)
        /\ ledger' = [ledger EXCEPT ![h] = IF @ = "live" THEN "wiped" ELSE @]
        /\ recalls' = recalls \cup {h}
        /\ UNCHANGED crashes
     \/ /\ row[h].there
        /\ \E r \in {row[h], NoRow} : Transfer(h, r, {})
        /\ Crash
        /\ UNCHANGED <<tombed, ledger, recalls>>
     \/ /\ OnDeleteTarget(h)
        /\ tombed' = Buried(h)
        /\ Crash
        /\ UNCHANGED <<ledger, recalls>>
  /\ UNCHANGED <<allowed, early, switches>>

\* attachment_bytes gives the client something to show.
Shown(h) == row[h].complete /\ ~row[h].consumed /\ chunks[h] # {}

\* Mutant: a viewed attachment keeps its chunks.
ViewedKeeps(h) ==
  /\ Shown(h) /\ h \in ViewOnce
  /\ Transfer(h, [row[h] EXCEPT !.consumed = TRUE], chunks[h])
  /\ UNCHANGED <<queue, ledger, tombed, allowed, early, recalls, switches, crashes>>

\* attachment_viewed, called when the client has rendered a view-once content.
\* The engine may die between its two statements.
Viewed(h) ==
  /\ Shown(h) /\ h \in ViewOnce
  /\ \/ Transfer(h, [row[h] EXCEPT !.consumed = TRUE], {}) /\ UNCHANGED crashes
     \/ Transfer(h, row[h], {}) /\ Crash
  /\ UNCHANGED <<queue, ledger, tombed, allowed, early, recalls, switches>>

\* The capability goes off: erase_attach_messages erases the transfers of the
\* ATTACH_HEAD rows that are live; or it comes back on.
SwitchCapability ==
  LET erased == {h \in Heads : allowed /\ ledger[h] = "live"}
  IN  /\ switches < MaxSwitches
      /\ switches' = switches + 1
      /\ allowed' = ~allowed
      /\ row' = [h \in Heads |-> IF h \in erased THEN NoRow ELSE row[h]]
      /\ chunks' = [h \in Heads |-> IF h \in erased THEN {} ELSE chunks[h]]
      /\ ledger' = [h \in Heads |-> IF h \in erased THEN "wiped" ELSE ledger[h]]
      /\ UNCHANGED <<queue, tombed, early, recalls, crashes>>

\* sweep: the ledger row of the head expires.  Engine::sweep does not reach
\* the tables of this module.
Sweep(h) ==
  /\ ledger[h] \in {"live", "wiped"}
  /\ ledger' = [ledger EXCEPT ![h] = "swept"]
  /\ UNCHANGED <<queue, row, chunks, tombed, allowed, early, recalls, switches, crashes>>

AttachNext ==
  \/ SwitchCapability
  \/ \E h \in Heads :
       \/ ReceiveHead(h)
       \/ \E i \in 0 .. ChunkCount[h] - 1 : ReceiveChunk(h, i)
       \/ ReceiveRecall(h)
       \/ Viewed(h)
       \/ Sweep(h)

AttachSpec == AttachInit /\ [][AttachNext]_attachVars

-----------------------------------------------------------------------------
(* Properties.                                                             *)

\* What attachment_bytes hands to the client is the whole content, with the
\* right hash, whatever the order of head, chunks, DELETE and switches and
\* wherever the engine died.
ShownIsWhole ==
  \A h \in Heads : Shown(h) => chunks[h] = Content(h) /\ h \notin Damaged

\* What is gone stays gone, across crashes: a consumed view-once content has
\* no chunk left (attachment_viewed), and a deleted attachment is never there
\* again, not even when its head comes after the DELETE (add_tombstone:
\* "dropping the late copy").
GoneStaysGone ==
  /\ \A h \in Heads : row[h].consumed => chunks[h] = {}
  /\ \A h \in recalls : ~row[h].there /\ ledger[h] # "live"

\* Once the head and all chunks are in, the transfer is complete, when the
\* chunks came all before the head or all after it and no engine died between
\* put_chunk and note_chunk (on_attach_head, on_attach_chunk, try_complete).
CompletesInEitherOrder ==
  \A h \in Heads :
    (crashes = 0 /\ row[h].there /\ chunks[h] = Content(h) /\ early[h] \in {{}, Content(h)})
      => row[h].complete

\* Once the head and all chunks are in, the transfer is complete
\* (attach/mod.rs, "Orphans (head not yet seen) are stored - the head's arrival
\* completes them").
AllInIsComplete ==
  \A h \in Heads :
    (row[h].there /\ chunks[h] = Content(h)) => row[h].complete
=============================================================================
