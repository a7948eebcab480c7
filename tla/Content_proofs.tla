-------------------------- MODULE Content_proofs ----------------------------
(***************************************************************************)
(* Proofs about what arrives: the inbound path of a hosted service, for any *)
(* connections, frames and ring; Attachments, for any transfers, caps,     *)
(* switches and crashes; and AttachWire, for files, hints and captions of  *)
(* every length.                                                           *)
(*                                                                         *)
(* Sound says of each transfer what every handler relies on: an envelope   *)
(* is dispatched once, so that a head in its row and a stored chunk are    *)
(* never on their way again, and a complete transfer has none under way.   *)
(*                                                                         *)
(* HeadIsRead is arithmetic: the division of the plan, the bytes of an     *)
(* envelope, and that no two readings of an inline head leave the same     *)
(* rest.                                                                   *)
(*                                                                         *)
(* The inbound path has an invariant for each of its parts: what is read   *)
(* (transport/inbound.rs, framing.rs), the ring of frames seen (seen.rs)   *)
(* and the arrivals (services.rs).                                         *)
(***************************************************************************)
EXTENDS Attachments, AttachWire, Inbound, FiniteSetTheorems, TLAPS

\* A leaf is for Zenon unless it names another prover.
USE Zenon

-----------------------------------------------------------------------------
(* Transfers *)

RowType == [there : BOOLEAN, bitmap : SUBSET Nat, complete : BOOLEAN, consumed : BOOLEAN]

AttachTypeOK ==
  /\ row \in [Heads -> RowType]
  /\ chunks \in [Heads -> SUBSET Nat]
  /\ ledger \in [Heads -> {"none", "live", "wiped", "swept"}]
  /\ early \in [Heads -> SUBSET Nat]
  /\ tombed \subseteq Heads /\ recalls \subseteq tombed
  /\ crashes \in Nat

\* Chunk i of h is on its way.
OnWay(Q, h, i) == ChunkEnv(h, i) \in Q

\* What holds of a transfer with row r and chunks c, Q being on its way.
Sound(h, r, c, Q) ==
  /\ c \subseteq Content(h)
  /\ \A i \in Nat : OnWay(Q, h, i) => i < ChunkCount[h]
  /\ \A i \in c : ~OnWay(Q, h, i)
  /\ r.there => HeadEnv(h) \notin Q
  /\ r.complete => /\ r.there /\ h \notin Damaged
                   /\ c \in {{}, Content(h)}
                   /\ \A i \in Nat : ~OnWay(Q, h, i)
  /\ r.consumed => r.complete /\ c = {}

\* How far it has come, e being the chunks before its head: what was stored
\* before the head is among them, and until an engine dies the bitmap of an
\* incomplete transfer without early chunks tells what is stored.
Tracked(h, r, c, e, Q, calm) ==
  /\ \A i \in e : ~OnWay(Q, h, i)
  /\ HeadEnv(h) \in Q => c \subseteq e
  /\ calm /\ r.there /\ ~r.complete /\ e \in {{}, Content(h)} =>
       c # Content(h) /\ (e = {} => c = r.bitmap)

IInv ==
  /\ AttachTypeOK
  /\ \A h \in Heads :
       /\ Sound(h, row[h], chunks[h], queue)
       /\ Tracked(h, row[h], chunks[h], early[h], queue, crashes = 0)
       /\ h \in recalls => ~row[h].there /\ ledger[h] # "live"

-----------------------------------------------------------------------------
\* Envelopes that differ.
LEMMA EnvelopesDiffer ==
  ASSUME NEW g, NEW h, NEW i, NEW j
  PROVE  /\ HeadEnv(g) # ChunkEnv(h, i) /\ DeleteEnv(g) # ChunkEnv(h, i)
         /\ HeadEnv(g) # DeleteEnv(h)
         /\ HeadEnv(g) = HeadEnv(h) <=> g = h
         /\ ChunkEnv(g, i) = ChunkEnv(h, j) <=> g = h /\ i = j
  BY DEF HeadEnv, ChunkEnv, DeleteEnv

\* As many chunks as the head announces are all of them (try_complete counts).
LEMMA CountIsWhole ==
  ASSUME NEW h \in Heads, ChunkCount[h] # 0, NEW c, c \subseteq Content(h),
         ~(Cardinality(c) < ChunkCount[h])
  PROVE  c = Content(h)
<1>1. ChunkCount[h] \in Nat /\ Content(h) = 0 .. ChunkCount[h] - 1
  BY AttachAssumption DEF Content
<1>2. IsFiniteSet(Content(h)) /\ Cardinality(Content(h)) = ChunkCount[h]
  BY SMT, <1>1, FS_Interval
<1>3. Cardinality(c) \in Nat /\ IsFiniteSet(c)  BY <1>2, FS_Subset, FS_CardinalityType
<1>4. Cardinality(c) <= Cardinality(Content(h))  BY <1>2, FS_Subset
<1>5. Cardinality(c) = Cardinality(Content(h))  BY SMT, <1>1, <1>2, <1>3, <1>4
<1> QED  BY <1>2, <1>5, FS_Subset

\* A row without its transfer, and a new one.
LEMMA RowFacts ==
  /\ NoRow \in RowType /\ ~NoRow.there /\ ~NoRow.complete /\ ~NoRow.consumed
  /\ NewRow \in RowType /\ NewRow.there /\ ~NewRow.complete /\ ~NewRow.consumed
  /\ NewRow.bitmap = {}
  BY DEF NoRow, NewRow, RowType

\* Both survive when envelopes leave the queue or an engine dies.
LEMMA FewerOnWay ==
  ASSUME NEW h, NEW r, NEW c, NEW e, NEW Q, NEW Q2, Q2 \subseteq Q,
         NEW calm \in BOOLEAN, NEW calm2 \in BOOLEAN, calm2 => calm
  PROVE  /\ Sound(h, r, c, Q) => Sound(h, r, c, Q2)
         /\ Tracked(h, r, c, e, Q, calm) => Tracked(h, r, c, e, Q2, calm2)
  BY DEF Sound, Tracked, OnWay

\* A step that moves one transfer keeps the invariant if it does for that one.
LEMMA MoveOne ==
  ASSUME IInv, NEW h \in Heads, NEW r \in RowType, NEW c \in SUBSET Nat, NEW e \in SUBSET Nat,
         Transfer(h, r, c), queue' \subseteq queue, early' = [early EXCEPT ![h] = e],
         crashes' \in Nat, crashes' = 0 => crashes = 0,
         ledger' \in [Heads -> {"none", "live", "wiped", "swept"}],
         \A g \in Heads \ {h} : ledger'[g] = ledger[g],
         tombed' \subseteq Heads, recalls' \subseteq tombed', recalls' \subseteq recalls \cup {h},
         h \in recalls' => ~r.there /\ ledger'[h] # "live",
         Sound(h, r, c, queue'), Tracked(h, r, c, e, queue', crashes' = 0)
  PROVE  IInv'
<1>1. /\ row \in [Heads -> RowType] /\ chunks \in [Heads -> SUBSET Nat]
      /\ early \in [Heads -> SUBSET Nat]
  BY DEF IInv, AttachTypeOK
<1>2. /\ row' \in [Heads -> RowType] /\ chunks' \in [Heads -> SUBSET Nat]
      /\ early' \in [Heads -> SUBSET Nat]
      /\ \A g \in Heads : /\ row'[g] = IF g = h THEN r ELSE row[g]
                          /\ chunks'[g] = IF g = h THEN c ELSE chunks[g]
                          /\ early'[g] = IF g = h THEN e ELSE early[g]
  BY <1>1 DEF Transfer
<1>3. AttachTypeOK'  BY <1>2 DEF AttachTypeOK
<1>4. ASSUME NEW g \in Heads
      PROVE  /\ Sound(g, row'[g], chunks'[g], queue')
             /\ Tracked(g, row'[g], chunks'[g], early'[g], queue', crashes' = 0)
             /\ g \in recalls' => ~row'[g].there /\ ledger'[g] # "live"
  <2>1. CASE g = h  BY <1>2, <2>1
  <2>2. CASE g # h
    <3>1. /\ Sound(g, row[g], chunks[g], queue)
          /\ Tracked(g, row[g], chunks[g], early[g], queue, crashes = 0)
          /\ g \in recalls => ~row[g].there /\ ledger[g] # "live"
      BY DEF IInv
    <3>2. row'[g] = row[g] /\ chunks'[g] = chunks[g] /\ early'[g] = early[g]
          /\ ledger'[g] = ledger[g]
      BY <1>2, <2>2
    <3>3. /\ Sound(g, row[g], chunks[g], queue')
          /\ Tracked(g, row[g], chunks[g], early[g], queue', crashes' = 0)
      BY <3>1, FewerOnWay
    <3> QED  BY <2>2, <3>1, <3>2, <3>3
  <2> QED  BY <2>1, <2>2
<1> QED  BY <1>3, <1>4 DEF IInv

\* A row that is not there asks little of its chunks.
LEMMA NotThere ==
  ASSUME NEW h, NEW r, NEW c, NEW e, NEW Q, NEW calm \in BOOLEAN,
         ~r.there, ~r.complete, ~r.consumed
  PROVE  /\ c \subseteq Content(h) /\ (\A i \in c : ~OnWay(Q, h, i))
              /\ (\A i \in Nat : OnWay(Q, h, i) => i < ChunkCount[h])
            => Sound(h, r, c, Q)
         /\ (\A i \in e : ~OnWay(Q, h, i)) /\ (HeadEnv(h) \in Q => c \subseteq e)
            => Tracked(h, r, c, e, Q, calm)
  BY DEF Sound, Tracked

\* try_complete of an incomplete row: it waits, it drops a damaged content, or
\* it completes a whole one.
LEMMA TryCompleteMoves ==
  ASSUME NEW h \in Heads, NEW r \in RowType, r.there, ~r.complete, ~r.consumed,
         NEW c \in SUBSET Nat, c \subseteq Content(h), ChunkCount[h] # 0, TryComplete(h, r, c)
  PROVE  \/ Transfer(h, r, c) /\ c # Content(h)
         \/ Transfer(h, NoRow, {})
         \/ \E r2 \in RowType :
              /\ Transfer(h, r2, c) /\ c = Content(h) /\ h \notin Damaged
              /\ r2.there /\ r2.complete /\ ~r2.consumed
<1>1. ChunkCount[h] \in Nat /\ Content(h) = 0 .. ChunkCount[h] - 1 /\ Content(h) \in SUBSET Nat
  BY SMT, AttachAssumption DEF Content
<1>2. Cardinality(Content(h)) = ChunkCount[h]  BY SMT, <1>1, FS_Interval
<1>3. CASE Cardinality(c) < ChunkCount[h]
  <2>1. Transfer(h, r, c)  BY <1>3 DEF TryComplete
  <2>2. c # Content(h)  BY SMT, <1>1, <1>2, <1>3
  <2> QED  BY <2>1, <2>2
<1>4. CASE ~(Cardinality(c) < ChunkCount[h])
  <2>1. c = Content(h)  BY <1>4, CountIsWhole
  <2>2. CASE h \in Damaged  BY <1>4, <2>2 DEF TryComplete
  <2>3. CASE h \notin Damaged
    <3> DEFINE r2 == [r EXCEPT !.bitmap = Content(h), !.complete = TRUE]
    <3>1. r2 \in RowType /\ r2.there /\ r2.complete /\ ~r2.consumed  BY <1>1 DEF RowType
    <3>2. Transfer(h, r2, c)  BY <1>4, <2>3 DEF TryComplete
    <3> QED  BY <2>1, <2>3, <3>1, <3>2
  <2> QED  BY <2>2, <2>3
<1> QED  BY <1>3, <1>4

\* What the invariant says of one transfer.
LEMMA TransferFacts ==
  ASSUME IInv, NEW h \in Heads
  PROVE  /\ row[h] \in RowType /\ chunks[h] \in SUBSET Nat /\ early[h] \in SUBSET Nat
         /\ ledger[h] \in {"none", "live", "wiped", "swept"}
         /\ early = [early EXCEPT ![h] = early[h]]
         /\ Sound(h, row[h], chunks[h], queue)
         /\ Tracked(h, row[h], chunks[h], early[h], queue, crashes = 0)
         /\ h \in recalls => ~row[h].there /\ ledger[h] # "live"
         /\ Content(h) \in SUBSET Nat /\ ChunkCount[h] \in Nat
  BY SMT, AttachAssumption DEF IInv, AttachTypeOK, Content

\* on_attach_head.
LEMMA HeadKeeps ==
  ASSUME IInv, NEW h \in Heads, ReceiveHead(h)
  PROVE  IInv'
<1> DEFINE Q == queue \ {HeadEnv(h)}
           c == chunks[h]
<1>1. HeadEnv(h) \in queue /\ queue' = Q /\ UNCHANGED <<tombed, early, recalls>>
  BY DEF ReceiveHead
<1>2. /\ ledger' \in [Heads -> {"none", "live", "wiped", "swept"}]
      /\ \A g \in Heads \ {h} : ledger'[g] = ledger[g]
      /\ h \in tombed => ledger'[h] = ledger[h]
  BY DEF ReceiveHead, IInv, AttachTypeOK
<1>3. tombed \subseteq Heads /\ recalls \subseteq tombed /\ crashes \in Nat
  BY DEF IInv, AttachTypeOK
<1>4. /\ ~row[h].there /\ ~row[h].complete /\ ~row[h].consumed
      /\ c \subseteq Content(h) /\ c \subseteq early[h]
      /\ \A i \in early[h] : ~OnWay(queue, h, i)
      /\ \A i \in Nat : OnWay(queue, h, i) => i < ChunkCount[h]
  BY <1>1, TransferFacts DEF Sound, Tracked
<1>5. /\ \A i \in early[h] : ~OnWay(Q, h, i)
      /\ \A i \in Nat : OnWay(Q, h, i) => i < ChunkCount[h]
      /\ HeadEnv(h) \notin Q
  BY <1>4 DEF OnWay
<1>6. ASSUME NEW r \in RowType, NEW d \in SUBSET Nat, Transfer(h, r, d),
             crashes' \in Nat, crashes' = 0 => crashes = 0,
             h \in recalls => ~r.there,
             Sound(h, r, d, Q), Tracked(h, r, d, early[h], Q, crashes' = 0)
      PROVE  IInv'
  <2>1. h \in recalls => ~r.there /\ ledger'[h] # "live"  BY <1>2, <1>3, <1>6, TransferFacts
  <2>2. early' = [early EXCEPT ![h] = early[h]] /\ early[h] \in SUBSET Nat
    BY <1>1, TransferFacts
  <2> QED  BY <1>1, <1>2, <1>3, <1>6, <2>1, <2>2, MoveOne
<1> HIDE DEF Q
<1>7. CASE h \in tombed \/ ~allowed
  <2>1. UNCHANGED <<row, chunks, crashes>>  BY <1>7 DEF ReceiveHead
  <2>2. Transfer(h, row[h], c)  BY <2>1 DEF Transfer, IInv, AttachTypeOK
  <2>3. row[h] \in RowType /\ c \in SUBSET Nat  BY TransferFacts
  <2>4. Sound(h, row[h], c, Q) /\ Tracked(h, row[h], c, early[h], Q, crashes' = 0)
    BY <1>4, <1>5, NotThere
  <2> QED  BY <1>3, <1>4, <1>6, <2>1, <2>2, <2>3, <2>4
<1>8. CASE ~(h \in tombed \/ ~allowed)
  <2>0. h \notin recalls  BY <1>3, <1>8
  <2>1. /\ Sound(h, NoRow, c, Q) /\ Tracked(h, NoRow, c, early[h], Q, crashes' = 0)
        /\ Sound(h, NoRow, {}, Q) /\ Tracked(h, NoRow, {}, early[h], Q, crashes' = 0)
    BY <1>4, <1>5, RowFacts, NotThere
  <2>2. CASE \E r \in {NoRow, NewRow} : Transfer(h, r, chunks[h]) /\ Crash
    <3>1. PICK r \in {NoRow, NewRow} : Transfer(h, r, c) /\ Crash  BY <2>2
    <3>2. crashes' \in Nat /\ crashes' # 0  BY SMT, <1>3, <3>1 DEF Crash
    <3>3. Sound(h, NewRow, c, Q) /\ Tracked(h, NewRow, c, early[h], Q, crashes' = 0)
      BY <1>4, <1>5, <3>2, RowFacts DEF Sound, Tracked
    <3>4. r \in RowType /\ c \in SUBSET Nat  BY RowFacts, TransferFacts
    <3>5. Sound(h, r, c, Q) /\ Tracked(h, r, c, early[h], Q, crashes' = 0)  BY <2>1, <3>3
    <3> QED  BY <1>6, <2>0, <3>1, <3>2, <3>4, <3>5
  <2>3. CASE UNCHANGED crashes /\ ChunkCount[h] # 0 /\ TryComplete(h, NewRow, c)
    <3>1. c \in SUBSET Nat  BY TransferFacts
    <3>2. \/ Transfer(h, NewRow, c) /\ c # Content(h)
          \/ Transfer(h, NoRow, {})
          \/ \E r2 \in RowType :
               /\ Transfer(h, r2, c) /\ c = Content(h) /\ h \notin Damaged
               /\ r2.there /\ r2.complete /\ ~r2.consumed
      BY <1>4, <2>3, <3>1, RowFacts, TryCompleteMoves
    <3>3. CASE Transfer(h, NewRow, c) /\ c # Content(h)
      <4>1. Sound(h, NewRow, c, Q)  BY <1>4, <1>5, RowFacts DEF Sound
      <4>2. Tracked(h, NewRow, c, early[h], Q, crashes' = 0)
        BY <1>4, <1>5, <3>3, RowFacts DEF Tracked
      <4> QED  BY <1>3, <1>6, <2>0, <2>3, <3>1, <3>3, <4>1, <4>2, RowFacts
    <3>4. CASE Transfer(h, NoRow, {})  BY <1>3, <1>6, <2>0, <2>1, <2>3, <3>4, RowFacts
    <3>5. ASSUME NEW r2 \in RowType, Transfer(h, r2, c), c = Content(h), h \notin Damaged,
                 r2.there, r2.complete, ~r2.consumed
          PROVE  IInv'
      <4>1. \A i \in Nat : i < ChunkCount[h] => i \in c
        BY SMT, <2>3, <3>5, TransferFacts DEF Content
      <4>2. \A i \in Nat : ~OnWay(Q, h, i)  BY <1>4, <1>5, <4>1
      <4>3. Sound(h, r2, c, Q)  BY <1>5, <3>1, <3>5, <4>2 DEF Sound
      <4>4. Tracked(h, r2, c, early[h], Q, crashes' = 0)  BY <1>4, <1>5, <3>5 DEF Tracked
      <4> QED  BY <1>3, <1>6, <2>0, <2>3, <3>1, <3>5, <4>3, <4>4
    <3> QED  BY <3>2, <3>3, <3>4, <3>5
  <2>4. CASE UNCHANGED crashes /\ ChunkCount[h] = 0 /\ Transfer(h, NoRow, c)
    <3>1. c \in SUBSET Nat  BY TransferFacts
    <3> QED  BY <1>3, <1>6, <2>0, <2>1, <2>4, <3>1, RowFacts
  <2>5. CASE /\ UNCHANGED crashes /\ ChunkCount[h] = 0 /\ h \notin Damaged
             /\ Transfer(h, [NewRow EXCEPT !.complete = TRUE], {0})
    <3> DEFINE r2 == [NewRow EXCEPT !.complete = TRUE]
    <3>1. r2 \in RowType /\ r2.there /\ r2.complete /\ ~r2.consumed
      BY DEF NoRow, NewRow, RowType
    <3>2. Content(h) = {0} /\ \A i \in Nat : ~OnWay(Q, h, i)  BY SMT, <1>5, <2>5 DEF Content
    <3> HIDE DEF r2
    <3>3. Sound(h, r2, {0}, Q)  BY SMT, <1>5, <2>5, <3>1, <3>2 DEF Sound
    <3>4. Tracked(h, r2, {0}, early[h], Q, crashes' = 0)  BY <1>5, <3>1 DEF Tracked
    <3>5. Transfer(h, r2, {0}) /\ {0} \in SUBSET Nat  BY SMT, <2>5 DEF r2
    <3> QED  BY <1>3, <1>6, <2>0, <2>5, <3>1, <3>3, <3>4, <3>5
  <2> QED  BY <1>8, <2>2, <2>3, <2>4, <2>5 DEF ReceiveHead
<1> QED  BY <1>7, <1>8

\* on_attach_chunk.
LEMMA ChunkKeeps ==
  ASSUME IInv, NEW h \in Heads, NEW i \in 0 .. ChunkCount[h] - 1, ReceiveChunk(h, i)
  PROVE  IInv'
<1> DEFINE Q == queue \ {ChunkEnv(h, i)}
           c == chunks[h] \cup {i}
           e == IF HeadEnv(h) \in queue THEN early[h] \cup {i} ELSE early[h]
           r == NoteChunk(row[h], i)
<1>1. /\ OnWay(queue, h, i) /\ queue' = Q /\ UNCHANGED <<ledger, tombed, recalls>>
      /\ early' = [early EXCEPT ![h] = e]
  BY TransferFacts DEF ReceiveChunk, OnWay, IInv, AttachTypeOK
<1>2. /\ ledger' \in [Heads -> {"none", "live", "wiped", "swept"}]
      /\ tombed' \subseteq Heads /\ recalls' \subseteq tombed' /\ crashes \in Nat
  BY <1>1 DEF IInv, AttachTypeOK
<1>3. ChunkCount[h] \in Nat /\ ChunkCount[h] # 0 /\ i \in Nat /\ i \in Content(h)
  BY SMT, TransferFacts DEF Content
<1>4. /\ row[h] \in RowType /\ chunks[h] \in SUBSET Nat /\ early[h] \in SUBSET Nat
      /\ Sound(h, row[h], chunks[h], queue)
      /\ Tracked(h, row[h], chunks[h], early[h], queue, crashes = 0)
      /\ h \in recalls => ~row[h].there /\ ledger[h] # "live"
  BY TransferFacts
<1>5. c \in SUBSET Nat /\ e \in SUBSET Nat /\ c \subseteq Content(h)
  BY <1>3, <1>4 DEF Sound
<1>6. /\ ~row[h].complete /\ ~row[h].consumed
      /\ \A j \in Nat : OnWay(Q, h, j) => j < ChunkCount[h] /\ OnWay(queue, h, j)
      /\ \A j \in c : ~OnWay(Q, h, j)
      /\ \A j \in e : ~OnWay(Q, h, j)
      /\ HeadEnv(h) \in Q <=> HeadEnv(h) \in queue
  <2>1. ~row[h].complete /\ ~row[h].consumed  BY <1>1, <1>3, <1>4 DEF Sound
  <2>2. ~OnWay(Q, h, i) /\ \A j \in Nat : OnWay(Q, h, j) => OnWay(queue, h, j)  BY DEF OnWay
  <2>3. HeadEnv(h) \in Q <=> HeadEnv(h) \in queue  BY SMT, EnvelopesDiffer
  <2>4. \A j \in Nat : OnWay(queue, h, j) => j < ChunkCount[h]  BY <1>4 DEF Sound
  <2>5. \A j \in chunks[h] : ~OnWay(Q, h, j)  BY <1>4, <2>2 DEF Sound
  <2>6. \A j \in early[h] : ~OnWay(Q, h, j)  BY <1>4, <2>2 DEF Tracked
  <2> QED  BY <2>1, <2>2, <2>3, <2>4, <2>5, <2>6
<1>7. r \in RowType /\ r.there = row[h].there /\ ~r.complete /\ ~r.consumed
      /\ r.bitmap = row[h].bitmap \cup {i}
  BY <1>3, <1>4, <1>6 DEF NoteChunk, RowType
<1> HIDE DEF Q, r
<1>8. ASSUME NEW r2 \in RowType, NEW d \in SUBSET Nat, Transfer(h, r2, d),
             crashes' \in Nat, crashes' = 0 => crashes = 0,
             h \in recalls => ~r2.there,
             Sound(h, r2, d, Q), Tracked(h, r2, d, e, Q, crashes' = 0)
      PROVE  IInv'
  <2>1. h \in recalls' => ~r2.there /\ ledger'[h] # "live"  BY <1>1, <1>4, <1>8
  <2>2. queue' \subseteq queue /\ recalls' \subseteq recalls \cup {h}
        /\ \A g \in Heads \ {h} : ledger'[g] = ledger[g]
    BY <1>1 DEF Q
  <2> QED  BY <1>1, <1>2, <1>5, <1>8, <2>1, <2>2, MoveOne
<1>9. CASE ~row[h].there /\ UNCHANGED crashes /\ Transfer(h, NoRow, c)
  <2>1. HeadEnv(h) \in Q => c \subseteq e  BY <1>4, <1>6 DEF Tracked
  <2>2. Sound(h, NoRow, c, Q) /\ Tracked(h, NoRow, c, e, Q, crashes' = 0)
    BY <1>5, <1>6, <2>1, NotThere, RowFacts
  <2> QED  BY <1>2, <1>5, <1>8, <1>9, <2>2, RowFacts
<1>10. CASE ~row[h].there /\ UNCHANGED <<row, chunks, crashes>>
  <2>1. HeadEnv(h) \in Q => chunks[h] \subseteq e  BY <1>4, <1>6 DEF Tracked
  <2>2. chunks[h] \subseteq c /\ chunks[h] \subseteq Content(h)  BY <1>5
  <2>3. Sound(h, row[h], chunks[h], Q) /\ Tracked(h, row[h], chunks[h], e, Q, crashes' = 0)
    BY <1>6, <1>10, <2>1, <2>2, NotThere
  <2>4. Transfer(h, row[h], chunks[h])  BY <1>10 DEF Transfer, IInv, AttachTypeOK
  <2> QED  BY <1>2, <1>4, <1>8, <1>10, <2>3, <2>4
<1>11. ASSUME row[h].there
       PROVE  /\ h \notin recalls /\ HeadEnv(h) \notin Q /\ e = early[h]
              /\ (crashes = 0 /\ e \in {{}, Content(h)}) => e = {} /\ c = r.bitmap
  <2>1. h \notin recalls /\ HeadEnv(h) \notin queue /\ e = early[h]
    BY <1>4, <1>11 DEF Sound
  <2>2. i \notin early[h]  BY <1>1, <1>4 DEF Tracked
  <2>3. ASSUME crashes = 0, e \in {{}, Content(h)}  PROVE e = {} /\ c = r.bitmap
    <3>1. e = {}  BY <1>3, <2>1, <2>2, <2>3
    <3>2. chunks[h] = row[h].bitmap  BY <1>4, <1>6, <1>11, <2>1, <2>3, <3>1 DEF Tracked
    <3> QED  BY <1>7, <3>1, <3>2
  <2> QED  BY <1>6, <2>1, <2>3
<1>12. ASSUME row[h].there, NEW r2 \in RowType, r2.there, ~r2.complete, ~r2.consumed
       PROVE  Sound(h, r2, c, Q)
  BY <1>5, <1>6, <1>11, <1>12 DEF Sound
<1> HIDE DEF e
<1>13. CASE row[h].there /\ Transfer(h, row[h], c) /\ Crash
  <2>1. crashes' \in Nat /\ crashes' # 0  BY SMT, <1>2, <1>13 DEF Crash
  <2>2. Sound(h, row[h], c, Q)  BY <1>4, <1>6, <1>12, <1>13
  <2>3. Tracked(h, row[h], c, e, Q, crashes' = 0)  BY <1>6, <1>11, <1>13, <2>1 DEF Tracked
  <2> QED  BY <1>4, <1>5, <1>8, <1>11, <1>13, <2>1, <2>2, <2>3
<1>14. ASSUME row[h].there, UNCHANGED crashes, Transfer(h, r, c), c = r.bitmap => c # Content(h)
       PROVE  IInv'
  <2>1. Sound(h, r, c, Q)  BY <1>7, <1>12, <1>14
  <2>2. Tracked(h, r, c, e, Q, crashes' = 0)  BY <1>6, <1>11, <1>14 DEF Tracked
  <2> QED  BY <1>2, <1>5, <1>7, <1>8, <1>11, <1>14, <2>1, <2>2
<1>15. CASE row[h].there /\ UNCHANGED crashes /\ ~(Cardinality(r.bitmap) >= ChunkCount[h])
            /\ Transfer(h, r, c)
  <2>1. Content(h) = 0 .. ChunkCount[h] - 1  BY <1>3 DEF Content
  <2>2. Cardinality(Content(h)) = ChunkCount[h]  BY SMTT(60), <1>3, <2>1, FS_Interval
  <2>3. r.bitmap # Content(h)  BY SMT, <1>3, <1>15, <2>2
  <2> QED  BY <1>14, <1>15, <2>3
<1>16. CASE row[h].there /\ UNCHANGED crashes /\ TryComplete(h, r, c)
  <2>1. \/ Transfer(h, r, c) /\ c # Content(h)
        \/ Transfer(h, NoRow, {})
        \/ \E r2 \in RowType :
             /\ Transfer(h, r2, c) /\ c = Content(h) /\ h \notin Damaged
             /\ r2.there /\ r2.complete /\ ~r2.consumed
    BY <1>3, <1>5, <1>7, <1>16, TryCompleteMoves
  <2>2. CASE Transfer(h, r, c) /\ c # Content(h)  BY <1>14, <1>16, <2>2
  <2>3. CASE Transfer(h, NoRow, {})
    <3>1. Sound(h, NoRow, {}, Q) /\ Tracked(h, NoRow, {}, e, Q, crashes' = 0)
      BY <1>6, NotThere, RowFacts
    <3> QED  BY <1>2, <1>8, <1>16, <2>3, <3>1, RowFacts
  <2>4. ASSUME NEW r2 \in RowType, Transfer(h, r2, c), c = Content(h), h \notin Damaged,
               r2.there, r2.complete, ~r2.consumed
        PROVE  IInv'
    <3>1. \A j \in Nat : j < ChunkCount[h] => j \in c  BY SMT, <1>3, <2>4 DEF Content
    <3>2. \A j \in Nat : ~OnWay(Q, h, j)  BY <1>6, <3>1
    <3>3. Sound(h, r2, c, Q)  BY <1>5, <1>6, <1>11, <1>16, <2>4, <3>2 DEF Sound
    <3>4. Tracked(h, r2, c, e, Q, crashes' = 0)  BY <1>6, <1>11, <1>16, <2>4 DEF Tracked
    <3> QED  BY <1>2, <1>5, <1>8, <1>11, <1>16, <2>4, <3>3, <3>4
  <2> QED  BY <2>1, <2>2, <2>3, <2>4
<1>17. \/ ~row[h].there /\ UNCHANGED crashes /\ Transfer(h, NoRow, c)
       \/ ~row[h].there /\ UNCHANGED <<row, chunks, crashes>>
       \/ row[h].there /\ Transfer(h, row[h], c) /\ Crash
       \/ row[h].there /\ UNCHANGED crashes /\ ~(Cardinality(r.bitmap) >= ChunkCount[h])
          /\ Transfer(h, r, c)
       \/ row[h].there /\ UNCHANGED crashes /\ TryComplete(h, r, c)
  BY DEF ReceiveChunk, r
<1> QED  BY <1>9, <1>10, <1>13, <1>15, <1>16, <1>17

\* apply_delete.
LEMMA RecallKeeps ==
  ASSUME IInv, NEW h \in Heads, ReceiveRecall(h)
  PROVE  IInv'
<1> DEFINE Q == queue \ {DeleteEnv(h)}
           c == chunks[h]
<1>1. /\ queue' = Q /\ UNCHANGED early
      /\ early' = [early EXCEPT ![h] = early[h]] /\ early[h] \in SUBSET Nat
  BY TransferFacts DEF ReceiveRecall
<1>2. tombed \subseteq Heads /\ recalls \subseteq tombed /\ crashes \in Nat
      /\ ledger \in [Heads -> {"none", "live", "wiped", "swept"}]
  BY DEF IInv, AttachTypeOK
<1>3. /\ ledger' \in [Heads -> {"none", "live", "wiped", "swept"}]
      /\ \A g \in Heads \ {h} : ledger'[g] = ledger[g]
      /\ recalls' \subseteq recalls \cup {h} /\ recalls' \subseteq tombed'
      /\ tombed' \subseteq Heads
      /\ crashes' \in Nat /\ (crashes' = 0 => crashes = 0)
      /\ h \in recalls' => ledger'[h] # "live"
      /\ h \in recalls' => h \in recalls \/ OnDeleteTarget(h)
  <2>1. h \in recalls => ledger[h] # "live"  BY TransferFacts
  <2> QED  BY SMT, <1>2, <2>1 DEF ReceiveRecall, Buried, Crash
<1>4. /\ row[h] \in RowType /\ c \in SUBSET Nat
      /\ Sound(h, row[h], c, Q)
      /\ Tracked(h, row[h], c, early[h], Q, crashes' = 0)
      /\ h \in recalls => ~row[h].there
  BY <1>3, TransferFacts, FewerOnWay
<1>5. /\ Sound(h, NoRow, {}, Q) /\ Tracked(h, NoRow, {}, early[h], Q, crashes' = 0)
      /\ Sound(h, row[h], {}, Q)
      /\ crashes' # 0 => Tracked(h, row[h], {}, early[h], Q, crashes' = 0)
  BY <1>4, RowFacts DEF Sound, Tracked
<1> HIDE DEF Q
<1>6. ASSUME NEW r \in RowType, NEW d \in SUBSET Nat, Transfer(h, r, d),
             h \in recalls' => ~r.there,
             Sound(h, r, d, Q), Tracked(h, r, d, early[h], Q, crashes' = 0)
      PROVE  IInv'
  <2>1. queue' \subseteq queue  BY <1>1 DEF Q
  <2> QED  BY <1>1, <1>3, <1>6, <2>1, MoveOne
<1>7. CASE OnDeleteTarget(h)
  <2>1. CASE row[h].there
    <3>1. Transfer(h, NoRow, {})  BY <1>7, <2>1 DEF OnDeleteTarget
    <3> QED  BY <1>5, <1>6, <3>1, RowFacts
  <2>2. CASE ~row[h].there
    <3>1. Transfer(h, row[h], c)  BY <1>7, <2>2 DEF OnDeleteTarget, Transfer, IInv, AttachTypeOK
    <3> QED  BY <1>4, <1>6, <2>2, <3>1
  <2> QED  BY <2>1, <2>2
<1>8. CASE /\ row[h].there /\ Crash /\ UNCHANGED recalls
           /\ \E r \in {row[h], NoRow} : Transfer(h, r, {})
  <2>1. h \notin recalls' /\ crashes' # 0  BY SMT, <1>2, <1>4, <1>8 DEF Crash
  <2>2. CASE Transfer(h, row[h], {})  BY SMT, <1>4, <1>5, <1>6, <2>1, <2>2
  <2>3. CASE Transfer(h, NoRow, {})  BY <1>5, <1>6, <2>3, RowFacts
  <2> QED  BY <1>8, <2>2, <2>3
<1> QED  BY <1>7, <1>8 DEF ReceiveRecall

\* attachment_viewed.
LEMMA ViewingKeeps ==
  ASSUME IInv, NEW h \in Heads, Viewed(h)
  PROVE  IInv'
<1>1. /\ row[h].complete /\ ~row[h].consumed
      /\ UNCHANGED <<queue, ledger, tombed, early, recalls>>
  BY DEF Viewed, Shown
<1>2. /\ tombed \subseteq Heads /\ recalls \subseteq tombed /\ crashes \in Nat
      /\ ledger \in [Heads -> {"none", "live", "wiped", "swept"}]
  BY DEF IInv, AttachTypeOK
<1>3. /\ row[h] \in RowType /\ early[h] \in SUBSET Nat
      /\ early' = [early EXCEPT ![h] = early[h]]
      /\ Sound(h, row[h], chunks[h], queue)
      /\ Tracked(h, row[h], chunks[h], early[h], queue, crashes = 0)
      /\ h \in recalls => ~row[h].there /\ ledger[h] # "live"
  BY <1>1, TransferFacts
<1> DEFINE r2 == [row[h] EXCEPT !.consumed = TRUE]
<1>4. /\ r2 \in RowType /\ r2.there = row[h].there /\ r2.complete /\ r2.consumed
  BY <1>1, <1>3 DEF RowType
<1>5. crashes' \in Nat /\ (crashes' = 0 => crashes = 0)
      /\ (Transfer(h, row[h], {}) \/ Transfer(h, r2, {}))
  BY SMT, <1>2 DEF Viewed, Crash
<1> HIDE DEF r2
<1>6. ASSUME NEW r \in {row[h], r2}, Transfer(h, r, {})  PROVE IInv'
  <2>1. r \in RowType /\ r.there = row[h].there /\ r.complete  BY <1>1, <1>3, <1>4
  <2>2. Sound(h, r, {}, queue)  BY <1>1, <1>3, <2>1 DEF Sound
  <2>3. Tracked(h, r, {}, early[h], queue, crashes' = 0)  BY <1>3, <2>1 DEF Tracked
  <2> QED  BY <1>1, <1>2, <1>3, <1>5, <1>6, <2>1, <2>2, <2>3, MoveOne
<1> QED  BY <1>5, <1>6

\* The erasure when the capability goes off, and its return.
LEMMA SwitchKeeps ==
  ASSUME IInv, SwitchCapability
  PROVE  IInv'
<1> DEFINE erased == {h \in Heads : allowed /\ ledger[h] = "live"}
<1>1. /\ UNCHANGED <<queue, tombed, early, recalls, crashes>>
      /\ row' = [h \in Heads |-> IF h \in erased THEN NoRow ELSE row[h]]
      /\ chunks' = [h \in Heads |-> IF h \in erased THEN {} ELSE chunks[h]]
      /\ ledger' = [h \in Heads |-> IF h \in erased THEN "wiped" ELSE ledger[h]]
  BY DEF SwitchCapability
<1> HIDE DEF erased
<1>2. AttachTypeOK'  BY <1>1, RowFacts DEF IInv, AttachTypeOK
<1>3. ASSUME NEW h \in Heads
      PROVE  /\ Sound(h, row'[h], chunks'[h], queue')
             /\ Tracked(h, row'[h], chunks'[h], early'[h], queue', crashes' = 0)
             /\ h \in recalls' => ~row'[h].there /\ ledger'[h] # "live"
  <2>1. /\ Sound(h, row[h], chunks[h], queue)
        /\ Tracked(h, row[h], chunks[h], early[h], queue, crashes = 0)
        /\ h \in recalls => ~row[h].there /\ ledger[h] # "live"
    BY TransferFacts
  <2>2. CASE h \in erased
    <3>1. row'[h] = NoRow /\ chunks'[h] = {} /\ ledger'[h] = "wiped"  BY <1>1, <2>2
    <3>2. Sound(h, NoRow, {}, queue) /\ Tracked(h, NoRow, {}, early[h], queue, crashes = 0)
      BY <2>1, RowFacts DEF Sound, Tracked
    <3> QED  BY <1>1, <3>1, <3>2, RowFacts
  <2>3. CASE h \notin erased
    <3>1. row'[h] = row[h] /\ chunks'[h] = chunks[h] /\ ledger'[h] = ledger[h]  BY <1>1, <2>3
    <3> QED  BY <1>1, <2>1, <3>1
  <2> QED  BY <2>2, <2>3
<1> QED  BY <1>2, <1>3 DEF IInv

\* sweep expires ledger rows and nothing else.
LEMMA SweepKeeps ==
  ASSUME IInv, NEW h \in Heads, Sweep(h)
  PROVE  IInv'
<1>1. /\ UNCHANGED <<queue, row, chunks, tombed, early, recalls, crashes>>
      /\ ledger' = [ledger EXCEPT ![h] = "swept"]
  BY DEF Sweep
<1>2. AttachTypeOK'  BY <1>1 DEF IInv, AttachTypeOK
<1>3. \A g \in Heads : ledger'[g] = "live" => ledger[g] = "live"
  BY <1>1 DEF IInv, AttachTypeOK
<1> QED  BY <1>1, <1>2, <1>3 DEF IInv

-----------------------------------------------------------------------------
\* The invariant holds when nothing was dispatched yet.
LEMMA InitKeeps == AttachInit => IInv
<1> SUFFICES ASSUME AttachInit  PROVE IInv
  OBVIOUS
<1>1. AttachTypeOK  BY RowFacts DEF AttachInit, AttachTypeOK
<1>2. ASSUME NEW h \in Heads
      PROVE  /\ Sound(h, row[h], chunks[h], queue)
             /\ Tracked(h, row[h], chunks[h], early[h], queue, crashes = 0)
             /\ h \notin recalls
  <2>1. row[h] = NoRow /\ chunks[h] = {} /\ early[h] = {} /\ recalls = {}  BY DEF AttachInit
  <2>2. ASSUME NEW i \in Nat, OnWay(queue, h, i)  PROVE i < ChunkCount[h]
    <3>1. ChunkEnv(h, i) \in UNION {{ChunkEnv(g, j) : j \in 0 .. ChunkCount[g] - 1} : g \in Heads}
      <4>1. ChunkEnv(h, i) \notin {HeadEnv(g) : g \in Heads}  BY SMT, EnvelopesDiffer
      <4>2. ChunkEnv(h, i) \notin {DeleteEnv(g) : g \in Recalled}  BY SMT, EnvelopesDiffer
      <4> QED  BY <2>2, <4>1, <4>2 DEF AttachInit, OnWay
    <3>2. PICK g \in Heads : ChunkEnv(h, i) \in {ChunkEnv(g, j) : j \in 0 .. ChunkCount[g] - 1}
      BY <3>1
    <3>3. g = h /\ i \in 0 .. ChunkCount[g] - 1  BY SMT, <3>2, EnvelopesDiffer
    <3> QED  BY SMT, <3>3, AttachAssumption
  <2> QED  BY <2>1, <2>2, RowFacts DEF Sound, Tracked
<1> QED  BY <1>1, <1>2 DEF IInv

\* The invariant holds throughout.
LEMMA Invariance == AttachSpec => []IInv
<1>1. IInv /\ [AttachNext]_attachVars => IInv'
  <2> SUFFICES ASSUME IInv, [AttachNext]_attachVars  PROVE IInv'
    OBVIOUS
  <2>1. CASE UNCHANGED attachVars  BY <2>1 DEF attachVars, IInv, AttachTypeOK
  <2>2. CASE SwitchCapability  BY <2>2, SwitchKeeps
  <2>3. ASSUME NEW h \in Heads,
               \/ ReceiveHead(h)
               \/ \E i \in 0 .. ChunkCount[h] - 1 : ReceiveChunk(h, i)
               \/ ReceiveRecall(h) \/ Viewed(h) \/ Sweep(h)
        PROVE  IInv'
    BY <2>3, HeadKeeps, ChunkKeeps, RecallKeeps, ViewingKeeps, SweepKeeps
  <2> QED  BY <2>1, <2>2, <2>3 DEF AttachNext
<1> QED  BY <1>1, InitKeeps, PTL DEF AttachSpec

\* What attachment_bytes hands out is whole and has the right hash, for any
\* number of transfers, chunks, caps, switches and crashes.
THEOREM ShownWhole == AttachSpec => []ShownIsWhole
<1>1. IInv => ShownIsWhole  BY TransferFacts DEF ShownIsWhole, Shown, Sound
<1> QED  BY <1>1, Invariance, PTL

\* A consumed view-once content and a deleted attachment never come back,
\* wherever the engine dies (attachment_viewed, apply_delete, add_tombstone).
THEOREM StaysGone == AttachSpec => []GoneStaysGone
<1>1. IInv => GoneStaysGone
  BY TransferFacts DEF IInv, AttachTypeOK, GoneStaysGone, Sound
<1> QED  BY <1>1, Invariance, PTL

\* With all its chunks before or all after its head, a transfer that is all in
\* is complete, whatever its number of chunks (try_complete, note_chunk).
THEOREM Completes == AttachSpec => []CompletesInEitherOrder
<1>1. IInv => CompletesInEitherOrder  BY TransferFacts DEF CompletesInEitherOrder, Tracked
<1> QED  BY <1>1, Invariance, PTL

-----------------------------------------------------------------------------
(* The wire *)

\* What SendAttachment plans, field by field.
IsPlan(h) ==
  /\ h.n \in Nat /\ 1 <= h.n /\ h.n <= MaxAttach /\ h.mime \in Nat /\ h.cap \in Nat
  /\ h.flags \in {0, 1}
  /\ h.count = IF h.n <= InlineMax THEN 0 ELSE DivCeil(h.n, ChunkDataMax)
  /\ h.bucket = DivCeil(h.count, BucketGranularity) * BucketGranularity

\* chunk_count pieces of CHUNK_DATA_MAX hold the file, one less do not, and the
\* bucket of the largest file is within MAX_CHUNKS (plan_transfer).
LEMMA PlanBounds ==
  ASSUME NEW h, IsPlan(h), ~Inline(h)
  PROVE  /\ h.count \in Nat /\ h.bucket \in Nat /\ ValidPlan(h)
         /\ h.count * ChunkDataMax >= h.n /\ (h.count - 1) * ChunkDataMax < h.n
  <1>1. h.n \in Nat /\ h.n <= 26214400 /\ h.n > 27000
    BY SMT DEF IsPlan, Inline, MaxAttach, InlineMax
  <1>2. h.count = (h.n + 27899) \div 27900
    BY SMT, <1>1 DEF IsPlan, DivCeil, InlineMax, ChunkDataMax
  <1>3. /\ h.count \in Nat /\ 1 <= h.count /\ h.count <= 940
        /\ h.count * 27900 >= h.n /\ (h.count - 1) * 27900 < h.n
    BY SMT, <1>1, <1>2
  <1>4. h.bucket = ((h.count + 7) \div 8) * 8
    BY SMT, <1>3 DEF IsPlan, DivCeil, BucketGranularity
  <1>5. h.bucket \in Nat /\ h.count <= h.bucket /\ h.bucket <= 944
    BY SMT, <1>3, <1>4
  <1>6. ValidPlan(h)
    BY SMT, <1>3, <1>5 DEF ValidPlan, MaxChunks
  <1> QED BY SMT, <1>3, <1>5, <1>6 DEF ChunkDataMax

\* decode_inline takes the tail for what encode_inline wrote.
LEMMA InlineIsRead ==
  ASSUME NEW h, IsPlan(h), h.cap <= MaxCaption
  PROVE  DecodeInline(h) = Good(h.cap, h.flags)
  <1>1. h.n \in Nat /\ h.n > 0 /\ h.cap \in Nat /\ h.flags \in {0, 1} /\ h.cap <= 16384
    BY SMT DEF IsPlan, MaxAttach, MaxCaption
  <1>2. CASE h.cap = 0 /\ h.flags = 0
    BY SMT, <1>1, <1>2 DEF DecodeInline, CaptionTail, TailBytes, MaxCaption
  <1>3. CASE h.cap # 0 /\ h.flags = 0
    BY SMT, <1>1, <1>3 DEF DecodeInline, CaptionTail, TailBytes, MaxCaption
  <1>4. CASE h.flags # 0
    BY SMT, <1>1, <1>4 DEF DecodeInline, CaptionTail, TailBytes, MaxCaption
  <1> QED BY SMT, <1>1, <1>2, <1>3, <1>4

\* decode_caption_tail takes it for what encode_chunked wrote.
LEMMA TailIsRead ==
  ASSUME NEW h, IsPlan(h), h.cap <= MaxCaption
  PROVE  DecodeCaptionTail(h) = Good(h.cap, h.flags)
  <1>1. h.cap \in Nat /\ h.flags \in {0, 1} /\ ~(h.cap > MaxCaption)
    BY SMT DEF IsPlan, MaxCaption
  <1>2. CASE h.cap = 0 /\ h.flags = 0
    BY SMT, <1>2 DEF DecodeCaptionTail, CaptionTail
  <1>3. CASE h.cap # 0 /\ h.flags = 0
    BY SMT, <1>1, <1>3 DEF DecodeCaptionTail, CaptionTail
  <1>4. CASE h.flags # 0
    BY SMT, <1>1, <1>4 DEF DecodeCaptionTail, CaptionTail
  <1> QED BY SMT, <1>2, <1>3, <1>4

\* The i-th chunk is a pad exactly past the count, and fits its envelope.
LEMMA ChunkFits ==
  ASSUME NEW h, IsPlan(h), ~Inline(h), NEW i \in 0 .. h.bucket - 1
  PROVE  /\ IsPad(h, i) <=> i >= h.count
         /\ ChunkIsRead(h, i) /\ Fits(EncodeChunk(h, i))
  <1>1. h.n \in Nat /\ h.count \in Nat /\ h.bucket \in Nat /\ i \in Nat
    BY SMT, PlanBounds DEF IsPlan
  <1>2. h.count * 27900 >= h.n /\ (h.count - 1) * 27900 < h.n
    BY SMT, PlanBounds DEF ChunkDataMax
  <1>3. IsPad(h, i) <=> i >= h.count
    BY SMT, <1>1, <1>2 DEF IsPad, ChunkDataMax
  <1>4. Data(h, i) \in Nat /\ Data(h, i) <= 27900 /\ (IsPad(h, i) => Data(h, i) = 0)
    BY SMT, <1>1 DEF Data, IsPad, ChunkDataMax
  <1> QED BY SMT, <1>3, <1>4 DEF ChunkIsRead, EncodeChunk, Fits, Enveloped, ChunkDataMax,
                               MaxEnvelopeBytes

\* The bytes of a tail.
LEMMA TailLength ==
  ASSUME NEW h, IsPlan(h)
  PROVE  TailBytes(h) \in Nat /\ TailBytes(h) <= 5 + h.cap
  BY SMT DEF TailBytes, CaptionTail, IsPlan

\* HeadIsRead holds for all lengths: the peer reads every head that
\* send_attachment sends as it was planned, its pieces are the announced ones
\* and fit, and no shorter caption than 837 bytes makes it fail.
THEOREM PlannedIsRead == WireSpec => []HeadIsRead
  <1>1. WireInit => HeadIsRead
    BY SMT DEF WireInit, HeadIsRead, Unsent
  <1>2. HeadIsRead /\ [WireNext]_sent => HeadIsRead'
    <2> SUFFICES ASSUME HeadIsRead, [WireNext]_sent PROVE HeadIsRead'
      BY SMT
    <2>1. CASE UNCHANGED sent
      BY SMT, <2>1 DEF HeadIsRead
    <2>2. ASSUME NEW n \in FileSizes, NEW mime \in HintSizes, NEW ascii \in BOOLEAN,
                 NEW cap \in Captions, NEW flags \in {0, 1},
                 SendAttachment(n, mime, ascii, cap, flags)
          PROVE  HeadIsRead'
      <3> DEFINE h == PlanTransfer(n, mime, ascii, cap, flags)
      <3>1. IsPlan(h) /\ h.ascii = ascii
        BY SMT, <2>2, WireAssumption DEF SendAttachment, PlanTransfer, IsPlan
      <3>2. CASE sent' = [st |-> "sent", head |-> h, read |-> Decode(h)] /\ ValidateCommon(h)
        <4> HIDE DEF h
        <4>1. sent'.st = "sent" /\ sent'.head = h /\ sent'.read = Decode(h)
          BY SMT, <3>2
        <4>2. h.cap <= MaxCaption
          BY SMT, <3>2 DEF ValidateCommon
        <4>3. h.ascii => Decode(h) = Good(h.cap, h.flags)
          BY SMT, <3>1, <3>2, <4>2, PlanBounds, InlineIsRead, TailIsRead DEF Decode
        <4>4. ASSUME ~Inline(h)
              PROVE  /\ h.bucket * ChunkDataMax >= h.n
                     /\ \A i \in 0 .. h.bucket - 1 :
                          /\ IsPad(h, i) <=> i >= h.count
                          /\ ChunkIsRead(h, i) /\ Fits(EncodeChunk(h, i))
          <5>1. h.bucket * ChunkDataMax >= h.n
            BY SMT, <3>1, <4>4, PlanBounds DEF ValidPlan, ChunkDataMax, IsPlan
          <5> QED BY SMT, <3>1, <4>4, <5>1, ChunkFits
        <4> QED BY SMT, <4>1, <4>3, <4>4 DEF HeadIsRead
      <3>3. CASE /\ sent' = [st |-> "refused", head |-> h]
                 /\ ~(/\ ValidateCommon(h)
                      /\ IF Inline(h) THEN Fits(EncodeInline(h))
                                      ELSE ValidPlan(h) /\ Fits(EncodeChunked(h)))
        <4> HIDE DEF h
        <4>1. sent'.st = "refused" /\ sent'.head = h
          BY SMT, <3>3
        <4>2. ASSUME ValidateCommon(h) PROVE Inline(h) /\ h.cap > 836
          <5>0. /\ h.n \in Nat /\ h.cap \in Nat /\ h.mime \in Nat
                /\ h.mime <= 64 /\ h.cap <= 16384
                /\ TailBytes(h) \in Nat /\ TailBytes(h) <= 5 + h.cap
            BY SMT, <3>1, <4>2, TailLength
            DEF IsPlan, ValidateCommon, MaxAttach, MaxMime, MaxCaption
          <5>1. Fits(EncodeChunked(h))
            BY SMT, <5>0 DEF EncodeChunked, Fits, Enveloped, OrigExt, MaxEnvelopeBytes
          <5>2. Inline(h)
            BY SMT, <3>1, <3>3, <4>2, <5>1, PlanBounds
          <5>3. ~Fits(EncodeInline(h))
            BY SMT, <3>3, <4>2, <5>2
          <5>4. h.cap > 836
            BY SMT, <5>0, <5>2, <5>3 DEF EncodeInline, Fits, Enveloped, Inline, InlineMax, OrigExt,
                                        MaxEnvelopeBytes
          <5> QED BY SMT, <5>2, <5>4
        <4> QED BY SMT, <4>1, <4>2 DEF HeadIsRead
      <3> QED BY SMTT(60), <2>2, <3>2, <3>3 DEF SendAttachment
    <2> QED BY SMT, <2>1, <2>2 DEF WireNext
  <1> QED BY <1>1, <1>2, PTL DEF WireSpec

-----------------------------------------------------------------------------
(* The inbound path *)

\* The first element and the others.
LEMMA Tailed ==
  ASSUME NEW S, NEW q \in Seq(S), q # <<>>
  PROVE  /\ Head(q) \in S /\ Tail(q) \in Seq(S) /\ Head(q) = q[1]
         /\ Range(q) = {Head(q)} \cup Range(Tail(q))
         /\ \A i \in DOMAIN Tail(q) : i + 1 \in DOMAIN q /\ Tail(q)[i] = q[i + 1] /\ 1 < i + 1
<1>1. Head(q) \in S /\ Tail(q) \in Seq(S) /\ Head(q) = q[1] /\ 1 \in DOMAIN q  BY SMT
<1>2. ASSUME NEW i \in DOMAIN Tail(q)
      PROVE  i + 1 \in DOMAIN q /\ Tail(q)[i] = q[i + 1] /\ 1 < i + 1
  BY SMT
<1>3. ASSUME NEW i \in DOMAIN q  PROVE q[i] \in {Head(q)} \cup Range(Tail(q))
  <2>1. CASE i = 1  BY <1>1, <2>1
  <2>2. CASE i # 1
    <3>1. i - 1 \in DOMAIN Tail(q) /\ Tail(q)[i - 1] = q[i]  BY SMT, <2>2
    <3> QED  BY <3>1 DEF Range
  <2> QED  BY <2>1, <2>2
<1> QED  BY SMT, <1>1, <1>2, <1>3 DEF Range

\* Append adds one element, at the end.
LEMMA Appended ==
  ASSUME NEW S, NEW q \in Seq(S), NEW x \in S
  PROVE  /\ Append(q, x) \in Seq(S) /\ Range(Append(q, x)) = Range(q) \cup {x}
         /\ DOMAIN Append(q, x) = 1 .. Len(q) + 1
         /\ Append(q, x)[Len(q) + 1] = x
         /\ \A i \in 1 .. Len(q) : Append(q, x)[i] = q[i]
<1>1. /\ Append(q, x) \in Seq(S) /\ DOMAIN Append(q, x) = 1 .. Len(q) + 1
      /\ Append(q, x)[Len(q) + 1] = x /\ Len(q) + 1 \in DOMAIN Append(q, x)
  BY SMT
<1>2. ASSUME NEW i \in 1 .. Len(q)  PROVE Append(q, x)[i] = q[i] /\ i \in DOMAIN Append(q, x)
  BY SMT
<1>3. DOMAIN q = 1 .. Len(q)  BY SMT
<1>4. ASSUME NEW i \in DOMAIN Append(q, x)  PROVE i \in 1 .. Len(q) \/ i = Len(q) + 1
  BY SMT, <1>1
<1>5. Range(Append(q, x)) \subseteq Range(q) \cup {x}  BY <1>1, <1>2, <1>3, <1>4 DEF Range
<1>6. Range(q) \cup {x} \subseteq Range(Append(q, x))  BY <1>1, <1>2, <1>3 DEF Range
<1> QED  BY <1>1, <1>2, <1>5, <1>6

-----------------------------------------------------------------------------
(* The invariant *)

GotType == [frame : Payloads, alert : BOOLEAN, first : BOOLEAN]
ConnType == [st : {"closed", "read", "mark", "push"}, packets : Nat, got : Seq(GotType)]

InboundTypeOK ==
  /\ conn \in [Conns -> ConnType]
  /\ \A c \in Conns : conn[c].st \in {"mark", "push"} => conn[c].got # <<>>
  /\ ring \in Seq(Payloads) /\ marks \in Seq(Payloads) /\ sink \in Seq(GotType)
  /\ drops \in Nat /\ arrivals \in [Payloads -> Nat]

Distinct(q) == \A i, j \in DOMAIN q : q[i] = q[j] => i = j

\* The ring holds a frame once, and every frame while it has room for them.
RingIsTrue ==
  /\ Distinct(ring)
  /\ IsFiniteSet(Range(marks)) /\ Range(ring) \subseteq Range(marks)
  /\ Len(ring) = Cardinality(Range(ring))
  /\ Cardinality(Range(marks)) <= RingCapacity => Range(ring) = Range(marks)

\* First sights on their way: in the channel, in the hands of a connection.
Queued(p) == {i \in DOMAIN sink : sink[i].frame = p /\ sink[i].first}
Carried(p) == {c \in Held : conn[c].got[1].frame = p /\ conn[c].got[1].first}

\* A frame has at most one first sight: announced, queued or carried.
FirstOnce(p) ==
  /\ \A i, j \in Queued(p) : i = j
  /\ \A c, d \in Carried(p) : c = d
  /\ Queued(p) = {} \/ Carried(p) = {}
  /\ arrivals[p] <= 1
  /\ arrivals[p] = 1 => Queued(p) = {} /\ Carried(p) = {}
  /\ p \notin Range(marks) => arrivals[p] = 0 /\ Queued(p) = {} /\ Carried(p) = {}

NoneMissing == Len(marks) = drops + Len(sink) + Cardinality(Held)

InboundInv ==
  /\ InboundTypeOK /\ RingIsTrue /\ lost = {} /\ NoneMissing
  /\ Cardinality(Range(marks)) <= RingCapacity => \A p \in Payloads : FirstOnce(p)

-----------------------------------------------------------------------------
\* The flag tells an introduction and an alert.
LEMMA FlagFacts ==
  ASSUME NEW intro \in {0, MaxIntro}, NEW alert \in BOOLEAN
  PROVE  /\ Flag(intro, alert) \in {5, 6, 252, 253}
         /\ Flag(intro, alert) \in {252, 253} => intro \in 1 .. MaxIntro
         /\ (Flag(intro, alert) \in {6, 253}) = alert
<1>1. MaxIntro \in 1 .. MaxIntro  BY SMT DEF MaxIntro
<1> QED  BY SMT, <1>1 DEF Flag

\* What a peer builds and packs is read back.
LEMMA FrameBack ==
  ASSUME NEW p \in Payloads, NEW intro \in {0, MaxIntro}, NEW alert \in BOOLEAN,
         BuildRecord(p).size # 0
  PROVE  LET f == ReadFrame(Pack(intro, BuildRecord(p), alert))
         IN  f.ok /\ ParseRecord(f.record) = p /\ f.alert = alert
<1> DEFINE B == Range(Buckets)
           fits == {b \in B : Header + p <= b}
           r == BuildRecord(p)
           g == Pack(intro, r, alert)
<1>1. B = {256, 512, 1024, 4096, 16384, 32768}  BY SMT DEF Buckets, Range
<1>2. p \in Nat  BY SMT, InboundAssumption
<1>3. r.size = BucketFor(p) /\ r.version = Version /\ r.len = p % 65536  BY SMT DEF BuildRecord
<1>4. fits # {}  BY SMT, <1>3 DEF BucketFor
<1>5. \E b \in fits : \A c \in fits : b <= c  BY SMT, <1>1, <1>2, <1>4 DEF Header
<1>6. BucketFor(p) \in fits
  <2>1. BucketFor(p) = CHOOSE b \in fits : \A c \in fits : b <= c  BY SMT, <1>4 DEF BucketFor
  <2> HIDE DEF fits
  <2> QED  BY <1>5, <2>1
<1>7. BucketFor(p) \in B /\ Header + p <= BucketFor(p) /\ BucketFor(p) <= 32768  BY SMT, <1>1, <1>6
<1>8. p < 65536 /\ r.len = p /\ BucketFor(p) % 65536 = BucketFor(p)
  BY SMT, <1>1, <1>2, <1>3, <1>7 DEF Header
<1>9. ParseRecord(r) = p
  <2> HIDE DEF r
  <2>1. IsBucket(r.size) /\ ~(Header + r.len > r.size)
    BY SMTT(60), <1>1, <1>2, <1>3, <1>7, <1>8 DEF IsBucket, Header
  <2> QED  BY SMT, <1>3, <1>8, <2>1 DEF ParseRecord
<1>10. /\ g.flag = Flag(intro, alert) /\ g.intro = intro /\ g.len = BucketFor(p) /\ g.record = r
  BY SMTT(60), <1>3, <1>8 DEF Pack
<1> HIDE DEF g, r
<1>11. /\ g.flag \in {5, 6, 252, 253} /\ (g.flag \in {252, 253} => intro \in 1 .. MaxIntro)
       /\ (g.flag \in {6, 253}) = alert
  <2>1. g.flag = Flag(intro, alert)  BY <1>10
  <2> QED  BY SMT, <2>1, FlagFacts
<1>12. IsBucket(g.len)  BY SMTT(60), <1>7, <1>10 DEF IsBucket
<1>13. ReadFrame(g) = [ok |-> TRUE, alert |-> g.flag \in {6, 253}, record |-> r]
  BY SMT, <1>3, <1>10, <1>11, <1>12 DEF ReadFrame
<1> QED  BY SMT, <1>9, <1>11, <1>13 DEF g, r

\* The hands a frame may be in are finitely many.
LEMMA HeldFinite ==
  ASSUME NEW S \in SUBSET Conns
  PROVE  IsFiniteSet(S) /\ Cardinality(S) \in Nat
BY InboundAssumption, FS_Subset, FS_CardinalityType

\* A step that neither marks, pushes nor pumps.
LEMMA QuietKeeps ==
  ASSUME InboundInv, NEW c \in Conns, NEW w \in ConnType, conn' = [conn EXCEPT ![c] = w],
         conn[c].st # "push", w.st # "push", w.st \in {"mark", "push"} => w.got # <<>>,
         UNCHANGED <<ring, sink, drops, marks, arrivals, lost>>
  PROVE  InboundInv'
<1>1. conn \in [Conns -> ConnType]  BY DEF InboundInv, InboundTypeOK
<1>2. conn' \in [Conns -> ConnType] /\ conn'[c] = w /\ \A d \in Conns : d # c => conn'[d] = conn[d]
  BY <1>1
<1>3. \A d \in Conns : conn'[d].st \in {"mark", "push"} => conn'[d].got # <<>>
  BY <1>2 DEF InboundInv, InboundTypeOK
<1>4. InboundTypeOK'  BY <1>2, <1>3 DEF InboundInv, InboundTypeOK
<1>5. Held' = Held  BY <1>2 DEF Held
<1>6. \A p \in Payloads : Queued(p)' = Queued(p) /\ Carried(p)' = Carried(p)
  <2> SUFFICES ASSUME NEW p \in Payloads  PROVE Queued(p)' = Queued(p) /\ Carried(p)' = Carried(p)
    OBVIOUS
  <2>1. \A d \in Held : d # c /\ d \in Conns  BY DEF Held
  <2>2. Carried(p)' = Carried(p)  BY <1>2, <1>5, <2>1 DEF Carried
  <2> QED  BY <2>2 DEF Queued
<1>7. \A p \in Payloads : FirstOnce(p) => FirstOnce(p)'  BY <1>6 DEF FirstOnce
<1>8. RingIsTrue' /\ NoneMissing' /\ lost' = {}  BY <1>5 DEF InboundInv, RingIsTrue, NoneMissing
<1> QED  BY <1>4, <1>7, <1>8 DEF InboundInv

\* What a connection is before it is accepted and after its end.
LEMMA ShutType == Shut \in ConnType /\ Shut.st = "closed"
BY SMT DEF Shut, ConnType

\* A connection begins or ends.
LEMMA AcceptKeeps ==
  ASSUME InboundInv, NEW c \in Conns, Accept(c) \/ Close(c)
  PROVE  InboundInv'
<1> DEFINE w == [conn[c] EXCEPT !.st = "read"]
<1>1. conn[c] \in ConnType  BY DEF InboundInv, InboundTypeOK
<1>2. w \in ConnType /\ w.st = "read"  BY <1>1 DEF ConnType
<1>3. CASE Accept(c)
  <2>1. conn' = [conn EXCEPT ![c] = w] /\ conn[c].st # "push"
    /\ UNCHANGED <<ring, sink, drops, marks, arrivals, lost>>
    BY <1>3 DEF Accept
  <2> HIDE DEF w
  <2> QED  BY <1>2, <2>1, QuietKeeps
<1>4. CASE Close(c)
  <2>1. conn' = [conn EXCEPT ![c] = Shut] /\ conn[c].st # "push"
    /\ UNCHANGED <<ring, sink, drops, marks, arrivals, lost>>
    BY <1>4 DEF Close
  <2> QED  BY <2>1, ShutType, QuietKeeps
<1> QED  BY <1>3, <1>4

\* A frame is read: it is never malformed, and may be over a budget.
LEMMA ReadKeeps ==
  ASSUME InboundInv, NEW c \in Conns, NEW p \in Payloads, NEW intro \in {0, MaxIntro},
         NEW alert \in BOOLEAN, Read(c, p, intro, alert)
  PROVE  InboundInv'
<1> DEFINE r == BuildRecord(p)
           f == ReadFrame(Pack(intro, r, alert))
           g == [frame |-> p, alert |-> alert, first |-> FALSE]
           u == [conn[c] EXCEPT !.packets = @ + 1]
           q == <<g>>
           v == [conn[c] EXCEPT !.packets = @ + 1, !.st = "mark", !.got = q]
<1>1. conn[c].st = "read" /\ r.size # 0 /\ UNCHANGED <<ring, sink, drops, marks, arrivals>>
  BY DEF Read
<1>2. f.ok /\ ParseRecord(f.record) = p /\ f.alert = alert  BY <1>1, FrameBack
<1>3. /\ lost' = lost
      /\ \/ conn' = [conn EXCEPT ![c] = Shut] \/ conn' = [conn EXCEPT ![c] = u]
         \/ conn' = [conn EXCEPT ![c] = v]
  <2> HIDE DEF f, r
  <2> QED  BY <1>2 DEF Read, f, r
<1>4. conn[c] \in ConnType  BY DEF InboundInv, InboundTypeOK
<1>5. q \in Seq(GotType) /\ q # <<>>
  <2>1. g \in GotType  BY DEF GotType
  <2> QED  BY SMT, <2>1
<1>6. u \in ConnType /\ u.st = "read"  BY SMT, <1>1, <1>4 DEF ConnType
<1>7. v \in ConnType /\ v.st = "mark" /\ v.got # <<>>
  <2> HIDE DEF q
  <2>1. conn[c].packets + 1 \in Nat  BY SMT, <1>4 DEF ConnType
  <2> QED  BY <1>4, <1>5, <2>1 DEF ConnType
<1> HIDE DEF u, v
<1>8. CASE conn' = [conn EXCEPT ![c] = Shut]  BY <1>1, <1>3, <1>8, ShutType, QuietKeeps
<1>9. CASE conn' = [conn EXCEPT ![c] = u]  BY <1>1, <1>3, <1>6, <1>9, QuietKeeps
<1>10. CASE conn' = [conn EXCEPT ![c] = v]  BY <1>1, <1>3, <1>7, <1>10, QuietKeeps
<1> QED  BY <1>3, <1>8, <1>9, <1>10

-----------------------------------------------------------------------------
\* What is where in a joined sequence.
LEMMA JoinedAt ==
  ASSUME NEW S, NEW u \in Seq(S), NEW v \in Seq(S)
  PROVE  /\ u \o v \in Seq(S) /\ Len(u \o v) = Len(u) + Len(v)
         /\ \A i \in 1 .. Len(u) : (u \o v)[i] = u[i]
         /\ \A i \in 1 .. Len(v) : (u \o v)[Len(u) + i] = v[i]
BY SMT

\* Where the element at k comes from when the one at n has moved to the end.
Pos(k, n, N) == IF k < n THEN k ELSE IF k < N THEN k + 1 ELSE n

\* That is a permutation of the places.
LEMMA PosFacts ==
  ASSUME NEW N \in Nat, NEW n \in 1 .. N
  PROVE  /\ \A i, j \in 1 .. N : Pos(i, n, N) = Pos(j, n, N) => i = j
         /\ \A k \in 1 .. N : \E i \in 1 .. N : Pos(i, n, N) = k
         /\ \A k \in 1 .. N : k < n \/ (k >= n /\ k < N) \/ k = N
<1>1. \A i, j \in 1 .. N : Pos(i, n, N) = Pos(j, n, N) => i = j  BY SMT DEF Pos
<1>2. ASSUME NEW k \in 1 .. N  PROVE \E i \in 1 .. N : Pos(i, n, N) = k
  <2>1. CASE k < n  BY <2>1 DEF Pos
  <2>2. CASE k = n
    <3>1. N \in 1 .. N /\ Pos(N, n, N) = n  BY SMT DEF Pos
    <3> QED  BY <2>2, <3>1
  <2>3. CASE k > n
    <3>1. k - 1 \in 1 .. N /\ Pos(k - 1, n, N) = k  BY SMT, <2>3 DEF Pos
    <3> QED  BY <3>1
  <2> QED  BY SMT, <2>1, <2>2, <2>3
<1>3. \A k \in 1 .. N : k < n \/ (k >= n /\ k < N) \/ k = N  BY SMT
<1> QED  BY <1>1, <1>2, <1>3

\* An element that moves to the end.
LEMMA MovedLast ==
  ASSUME NEW S, NEW q \in Seq(S), Distinct(q), NEW n \in DOMAIN q
  PROVE  LET r == SubSeq(q, 1, n - 1) \o SubSeq(q, n + 1, Len(q)) \o <<q[n]>>
         IN  r \in Seq(S) /\ Len(r) = Len(q) /\ Range(r) = Range(q) /\ Distinct(r)
<1> DEFINE u == SubSeq(q, 1, n - 1)
           v == SubSeq(q, n + 1, Len(q))
           e == <<q[n]>>
           w == u \o v
           r == w \o e
<1>1. Len(q) \in Nat /\ n \in Nat /\ n >= 1 /\ n <= Len(q) /\ DOMAIN q = 1 .. Len(q) /\ q[n] \in S
  BY SMT
<1>2. u \in Seq(S) /\ Len(u) = n - 1 /\ \A i \in 1 .. (n - 1) : u[i] = q[i]  BY SMT, <1>1
<1>3. v \in Seq(S) /\ Len(v) = Len(q) - n /\ \A i \in 1 .. (Len(q) - n) : v[i] = q[i + n]
  <2>1. v \in Seq(S) /\ Len(v) = Len(q) - n  BY SMT, <1>1
  <2>2. ASSUME NEW i \in 1 .. (Len(q) - n)  PROVE v[i] = q[i + n]  BY SMT, <1>1
  <2> QED  BY <2>1, <2>2
<1>4. e \in Seq(S) /\ Len(e) = 1 /\ e[1] = q[n]  BY SMT, <1>1
<1> HIDE DEF u, v, e
<1>5. Len(u) = n - 1 /\ Len(v) = Len(q) - n /\ Len(e) = 1  BY <1>2, <1>3, <1>4
<1>6. /\ w \in Seq(S) /\ Len(w) = Len(u) + Len(v)
      /\ \A i \in 1 .. Len(u) : w[i] = u[i]
      /\ \A i \in 1 .. Len(v) : w[Len(u) + i] = v[i]
  <2>1. u \in Seq(S) /\ v \in Seq(S)  BY <1>2, <1>3
  <2> QED  BY SMT, <2>1, JoinedAt
<1> HIDE DEF w
<1>7. /\ r \in Seq(S) /\ Len(r) = Len(w) + Len(e)
      /\ \A i \in 1 .. Len(w) : r[i] = w[i]
      /\ \A i \in 1 .. Len(e) : r[Len(w) + i] = e[i]
  <2>1. w \in Seq(S) /\ e \in Seq(S)  BY <1>4, <1>6
  <2> QED  BY SMT, <2>1, JoinedAt
<1> HIDE DEF r
<1>8. r \in Seq(S) /\ Len(r) = Len(q) /\ DOMAIN r = 1 .. Len(q)
  <2>1. r \in Seq(S) /\ Len(r) = Len(w) + Len(e)  BY <1>7
  <2>2. Len(w) = Len(u) + Len(v)  BY <1>6
  <2>3. Len(r) = Len(q)  BY SMTT(60), <1>1, <1>4, <1>5, <2>1, <2>2
  <2>4. DOMAIN r = 1 .. Len(r)  BY SMT, <2>1
  <2> QED  BY <2>1, <2>3, <2>4
<1>9. \A k \in 1 .. Len(q) : r[k] = q[Pos(k, n, Len(q))] /\ Pos(k, n, Len(q)) \in 1 .. Len(q)
  <2> SUFFICES ASSUME NEW k \in 1 .. Len(q)
               PROVE  r[k] = q[Pos(k, n, Len(q))] /\ Pos(k, n, Len(q)) \in 1 .. Len(q)
    OBVIOUS
  <2>0. Len(w) = Len(q) - 1  BY SMT, <1>1, <1>5, <1>6
  <2>4. k \in Nat /\ k >= 1 /\ k <= Len(q)  BY SMT, <1>1
  <2>1. CASE k < n
    <3>1. k \in 1 .. Len(u) /\ k \in 1 .. Len(w)  BY SMT, <1>1, <1>2, <2>0, <2>1
    <3>2. r[k] = q[k]  BY <1>2, <1>6, <1>7, <3>1
    <3> QED  BY <1>1, <2>1, <3>2 DEF Pos
  <2>2. CASE k >= n /\ k < Len(q)
    <3>1. /\ k \in 1 .. Len(w) /\ k - n + 1 \in 1 .. Len(v) /\ Len(u) + (k - n + 1) = k
          /\ (k - n + 1) + n = k + 1
      BY SMTT(60), <1>1, <1>5, <2>0, <2>2
    <3>2. r[k] = v[k - n + 1]  BY ZenonT(60), <1>6, <1>7, <3>1
    <3>3. v[k - n + 1] = q[k + 1]
      <4>1. k - n + 1 \in 1 .. (Len(q) - n)  BY <1>5, <3>1
      <4>2. v[k - n + 1] = q[(k - n + 1) + n]  BY <1>3, <4>1
      <4> QED  BY <3>1, <4>2
    <3>4. Pos(k, n, Len(q)) = k + 1  BY SMT, <1>1, <2>2 DEF Pos
    <3> QED  BY SMT, <1>1, <2>2, <3>2, <3>3, <3>4
  <2>3. CASE k = Len(q)
    <3>1. 1 \in 1 .. Len(e) /\ Len(w) + 1 = k  BY SMT, <1>1, <1>4, <2>0, <2>3
    <3>2. r[k] = q[n]  BY <1>4, <1>7, <3>1
    <3>3. Pos(k, n, Len(q)) = n  BY SMT, <1>1, <2>3 DEF Pos
    <3> QED  BY <1>1, <3>2, <3>3
  <2>5. k < n \/ (k >= n /\ k < Len(q)) \/ k = Len(q)
    <3>1. n \in 1 .. Len(q)  BY <1>1
    <3> QED  BY <1>1, <3>1, PosFacts
  <2> QED  BY <2>1, <2>2, <2>3, <2>5
<1>10. /\ \A i, j \in 1 .. Len(q) : Pos(i, n, Len(q)) = Pos(j, n, Len(q)) => i = j
       /\ \A k \in 1 .. Len(q) : \E i \in 1 .. Len(q) : Pos(i, n, Len(q)) = k
  <2>1. n \in 1 .. Len(q)  BY <1>1
  <2> QED  BY <1>1, <2>1, PosFacts
<1>11. Distinct(r)
  <2> SUFFICES ASSUME NEW i \in 1 .. Len(q), NEW j \in 1 .. Len(q), r[i] = r[j]  PROVE i = j
    BY <1>8 DEF Distinct
  <2>1. Pos(i, n, Len(q)) = Pos(j, n, Len(q))  BY <1>1, <1>9 DEF Distinct
  <2> QED  BY <1>10, <2>1
<1>12. Range(r) \subseteq Range(q)  BY ZenonT(60), <1>1, <1>8, <1>9 DEF Range
<1>13. \A k \in 1 .. Len(q) : q[k] \in Range(r)  BY SMT, <1>8, <1>9, <1>10 DEF Range
<1>14. Range(r) = Range(q)  BY <1>1, <1>12, <1>13 DEF Range
<1> QED  BY <1>8, <1>11, <1>14 DEF r, w, u, v, e

\* A new element comes in.
LEMMA DistinctGrows ==
  ASSUME NEW S, NEW q \in Seq(S), Distinct(q), NEW x \in S, x \notin Range(q)
  PROVE  Distinct(Append(q, x))
<1> SUFFICES ASSUME NEW i \in DOMAIN Append(q, x), NEW j \in DOMAIN Append(q, x),
                    Append(q, x)[i] = Append(q, x)[j]
             PROVE  i = j
  BY DEF Distinct
<1>1. /\ DOMAIN Append(q, x) = 1 .. Len(q) + 1 /\ Append(q, x)[Len(q) + 1] = x
      /\ \A k \in 1 .. Len(q) : Append(q, x)[k] = q[k]
  BY SMT, Appended
<1>2. DOMAIN q = 1 .. Len(q) /\ Len(q) \in Nat  BY SMT
<1>3. \A k \in 1 .. Len(q) : q[k] # x  BY <1>2 DEF Range
<1>4. i \in 1 .. Len(q) \/ i = Len(q) + 1  BY SMT, <1>1, <1>2
<1>5. j \in 1 .. Len(q) \/ j = Len(q) + 1  BY SMT, <1>1, <1>2
<1> QED  BY <1>1, <1>2, <1>3, <1>4, <1>5 DEF Distinct

\* The first element leaves.
LEMMA DistinctShrinks ==
  ASSUME NEW S, NEW q \in Seq(S), Distinct(q), q # <<>>
  PROVE  Distinct(Tail(q)) /\ Range(Tail(q)) = Range(q) \ {Head(q)} /\ Len(Tail(q)) = Len(q) - 1
<1>1. /\ Range(q) = {Head(q)} \cup Range(Tail(q)) /\ Head(q) = q[1]
      /\ \A i \in DOMAIN Tail(q) : i + 1 \in DOMAIN q /\ Tail(q)[i] = q[i + 1] /\ 1 < i + 1
  BY Tailed
<1>2. /\ Len(Tail(q)) = Len(q) - 1 /\ 1 \in DOMAIN q
      /\ \A i \in DOMAIN Tail(q) : i \in Nat
  BY SMT
<1>3. Distinct(Tail(q))
  <2> SUFFICES ASSUME NEW i \in DOMAIN Tail(q), NEW j \in DOMAIN Tail(q), Tail(q)[i] = Tail(q)[j]
               PROVE  i = j
    BY DEF Distinct
  <2>1. i + 1 = j + 1  BY SMT, <1>1 DEF Distinct
  <2> QED  BY SMT, <1>2, <2>1
<1>4. Head(q) \notin Range(Tail(q))
  <2> SUFFICES ASSUME NEW i \in DOMAIN Tail(q), Tail(q)[i] = q[1]  PROVE FALSE
    BY <1>1 DEF Range
  <2>1. i + 1 = 1  BY <1>1, <1>2 DEF Distinct
  <2> QED  BY SMT, <1>2, <2>1
<1> QED  BY <1>1, <1>2, <1>3, <1>4

\* The ring is asked about a frame (seen_or_mark).
LEMMA RingKeeps ==
  ASSUME ring \in Seq(Payloads), marks \in Seq(Payloads), RingIsTrue, NEW f \in Payloads,
         ring' = SeenOrMark(f), marks' = Append(marks, f)
  PROVE  /\ ring' \in Seq(Payloads) /\ RingIsTrue' /\ marks' \in Seq(Payloads)
         /\ Range(marks') = Range(marks) \cup {f}
         /\ Cardinality(Range(marks')) <= RingCapacity =>
              Cardinality(Range(marks)) <= RingCapacity /\ (~Seen(f) => f \notin Range(marks))
<1>1. marks' \in Seq(Payloads) /\ Range(marks') = Range(marks) \cup {f}  BY SMT, Appended
<1>2. /\ IsFiniteSet(Range(marks)) /\ Range(ring) \subseteq Range(marks) /\ Distinct(ring)
      /\ Len(ring) = Cardinality(Range(ring)) /\ Len(ring) \in Nat
      /\ Cardinality(Range(marks)) <= RingCapacity => Range(ring) = Range(marks)
  BY SMT DEF RingIsTrue
<1>3. /\ IsFiniteSet(Range(marks'))
      /\ Cardinality(Range(marks')) = IF f \in Range(marks) THEN Cardinality(Range(marks))
                                                            ELSE Cardinality(Range(marks)) + 1
  <2> DEFINE M == Range(marks)
  <2>1. IsFiniteSet(M) /\ Range(marks') = M \cup {f}  BY <1>1, <1>2
  <2> HIDE DEF M
  <2>2. /\ IsFiniteSet(M \cup {f})
        /\ Cardinality(M \cup {f}) = IF f \in M THEN Cardinality(M) ELSE Cardinality(M) + 1
    BY <2>1, FS_AddElement
  <2> QED  BY <2>1, <2>2 DEF M
<1>4. Cardinality(Range(marks)) \in Nat /\ RingCapacity \in Nat /\ RingCapacity > 0
  BY SMT, <1>2, FS_CardinalityType, InboundAssumption
<1>5. IsFiniteSet(Range(ring))  BY <1>2, FS_Subset
<1>6. Cardinality(Range(marks')) <= RingCapacity => Cardinality(Range(marks)) <= RingCapacity
  BY SMT, <1>3, <1>4
<1>7. CASE Seen(f)
  <2>1. f \in Range(ring) /\ f \in Range(marks)  BY <1>2, <1>7 DEF Seen
  <2> DEFINE i == CHOOSE i \in DOMAIN ring : ring[i] = f
  <2>2. i \in DOMAIN ring /\ ring[i] = f  BY <2>1 DEF Range
  <2>3. ring' = SubSeq(ring, 1, i - 1) \o SubSeq(ring, i + 1, Len(ring)) \o <<ring[i]>>
    BY <1>7, <2>2 DEF SeenOrMark
  <2> HIDE DEF i
  <2>4. /\ ring' \in Seq(Payloads) /\ Len(ring') = Len(ring)
        /\ Range(ring') = Range(ring) /\ Distinct(ring')
    <3>1. i \in DOMAIN ring /\ Distinct(ring)  BY <1>2, <2>2
    <3> QED  BY ZenonT(60), <2>3, <3>1, MovedLast
  <2>5. Range(marks') = Range(marks)  BY <1>1, <2>1
  <2> QED  BY <1>1, <1>2, <1>6, <1>7, <2>4, <2>5 DEF RingIsTrue
<1>8. CASE ~Seen(f)
  <2> DEFINE m == Append(ring, f)
  <2>1. f \notin Range(ring)  BY <1>8 DEF Seen
  <2>2. /\ m \in Seq(Payloads) /\ Range(m) = Range(ring) \cup {f}
        /\ Len(m) = Len(ring) + 1 /\ m # <<>>
    <3>1. Len(m) = Len(ring) + 1 /\ m # <<>>  BY SMT
    <3> QED  BY SMT, <3>1, Appended
  <2>3. Distinct(m)  BY <1>2, <2>1, DistinctGrows
  <2>4. ring' = IF Len(m) > RingCapacity THEN Tail(m) ELSE m  BY <1>8 DEF SeenOrMark
  <2> HIDE DEF m
  <2>5. IsFiniteSet(Range(m)) /\ Cardinality(Range(m)) = Len(m)
    BY SMTT(60), <1>2, <1>5, <2>1, <2>2, FS_AddElement
  <2>6. Cardinality(Range(marks')) <= RingCapacity =>
          /\ f \notin Range(marks) /\ Range(m) = Range(marks') /\ ~(Len(m) > RingCapacity)
    <3> SUFFICES ASSUME Cardinality(Range(marks')) <= RingCapacity
                 PROVE  /\ f \notin Range(marks) /\ Range(m) = Range(marks')
                        /\ ~(Len(m) > RingCapacity)
      OBVIOUS
    <3>1. Range(ring) = Range(marks)  BY <1>2, <1>6
    <3>2. f \notin Range(marks) /\ Range(m) = Range(marks')  BY <1>1, <2>1, <2>2, <3>1
    <3>3. Cardinality(Range(marks')) = Len(m)  BY <2>5, <3>2
    <3>4. Len(m) \in Nat  BY SMT, <1>2, <2>2
    <3> QED  BY SMT, <1>4, <3>2, <3>3, <3>4
  <2>7. Range(m) \subseteq Range(marks')  BY <1>1, <1>2, <2>2
  <2>8. CASE Len(m) > RingCapacity
    <3>1. ring' = Tail(m)  BY <2>4, <2>8
    <3>2. /\ ring' \in Seq(Payloads) /\ Distinct(ring') /\ Len(ring') = Len(m) - 1
          /\ Range(ring') = Range(m) \ {Head(m)} /\ Head(m) \in Range(m)
      <4>1. Tail(m) \in Seq(Payloads) /\ Head(m) \in Range(m)  BY SMT, <2>2, Tailed
      <4> QED  BY <2>2, <2>3, <3>1, <4>1, DistinctShrinks
    <3>3. Cardinality(Range(ring')) = Len(ring')  BY <2>5, <3>2, FS_RemoveElement
    <3>4. ~(Cardinality(Range(marks')) <= RingCapacity)  BY <2>6, <2>8
    <3> QED  BY <1>1, <1>3, <2>7, <3>2, <3>3, <3>4 DEF RingIsTrue
  <2>9. CASE ~(Len(m) > RingCapacity)
    <3>1. ring' = m  BY <2>4, <2>9
    <3> QED  BY ZenonT(60), <1>1, <1>3, <1>6, <2>2, <2>3, <2>5, <2>6, <2>7, <3>1 DEF RingIsTrue
  <2> QED  BY <2>8, <2>9
<1> QED  BY <1>7, <1>8

-----------------------------------------------------------------------------
\* A task learns under the lock whether its frame is new.
LEMMA MarkKeeps ==
  ASSUME InboundInv, NEW c \in Conns, Mark(c)
  PROVE  InboundInv'
<1> DEFINE g == conn[c].got[1]
           f == g.frame
           new == ~Seen(f)
           h == [g EXCEPT !.first = new]
           q == [conn[c].got EXCEPT ![1] = h]
           w == [conn[c] EXCEPT !.st = "push", !.got = q]
<1>1. /\ conn[c].st = "mark" /\ ring' = SeenOrMark(f) /\ marks' = Append(marks, f)
      /\ UNCHANGED <<sink, drops, arrivals, lost, reads, floods>>
  BY DEF Mark
<1>2. /\ conn \in [Conns -> ConnType] /\ conn[c] \in ConnType /\ conn[c].got # <<>>
      /\ ring \in Seq(Payloads) /\ marks \in Seq(Payloads) /\ RingIsTrue
  BY <1>1 DEF InboundInv, InboundTypeOK
<1>3. conn[c].got \in Seq(GotType) /\ 1 \in DOMAIN conn[c].got  BY SMT, <1>2 DEF ConnType
<1>4. g \in GotType /\ f \in Payloads
  <2>1. g \in GotType  BY SMT, <1>3
  <2> HIDE DEF g
  <2> QED  BY <2>1 DEF GotType
<1>5. new \in BOOLEAN  BY DEF Seen
<1>6. conn' = [conn EXCEPT ![c] = w]
  <2>1. conn' = [conn EXCEPT ![c].st = "push", ![c].got[1].first = ~Seen(f)]  BY DEF Mark
  <2> QED  BY <1>2, <1>3, <2>1
<1> HIDE DEF new
<1>7. h \in GotType /\ h.frame = f /\ h.first = new  BY <1>4, <1>5 DEF GotType
<1> HIDE DEF h
<1>8. q \in Seq(GotType) /\ q # <<>> /\ q[1] = h  BY SMT, <1>3, <1>7
<1> HIDE DEF q
<1>9. w \in ConnType /\ w.st = "push" /\ w.got = q  BY <1>2, <1>8 DEF ConnType
<1> HIDE DEF w, f, g
<1>10. conn' \in [Conns -> ConnType] /\ conn'[c] = w /\ \A d \in Conns : d # c => conn'[d] = conn[d]
  BY <1>2, <1>6, <1>9
<1>11. /\ ring' \in Seq(Payloads) /\ RingIsTrue' /\ marks' \in Seq(Payloads)
       /\ Range(marks') = Range(marks) \cup {f}
       /\ Cardinality(Range(marks')) <= RingCapacity =>
            Cardinality(Range(marks)) <= RingCapacity /\ (~Seen(f) => f \notin Range(marks))
  BY <1>1, <1>2, <1>4, RingKeeps
<1>12. InboundTypeOK'
  <2>1. \A d \in Conns : conn'[d].st \in {"mark", "push"} => conn'[d].got # <<>>
    BY <1>8, <1>9, <1>10 DEF InboundInv, InboundTypeOK
  <2> QED  BY <1>1, <1>10, <1>11, <2>1 DEF InboundInv, InboundTypeOK
<1>13. Held' = Held \cup {c} /\ c \notin Held  BY <1>1, <1>9, <1>10 DEF Held
<1>14. NoneMissing'
  <2>1. Held \in SUBSET Conns  BY DEF Held
  <2>2. IsFiniteSet(Held) /\ Cardinality(Held) \in Nat  BY <2>1, HeldFinite
  <2> DEFINE H == Held
  <2>3. IsFiniteSet(H) /\ c \notin H  BY <1>13, <2>2
  <2> HIDE DEF H
  <2>4. Cardinality(H \cup {c}) = Cardinality(H) + 1  BY <2>3, FS_AddElement
  <2>5. Cardinality(Held') = Cardinality(Held) + 1  BY <1>13, <2>4 DEF H
  <2>6. Len(marks') = Len(marks) + 1  BY SMTT(60), <1>1, <1>2
  <2>7. Len(marks) = drops + Len(sink) + Cardinality(Held) /\ drops \in Nat /\ Len(sink) \in Nat
    BY SMT DEF InboundInv, NoneMissing, InboundTypeOK
  <2>8. sink' = sink /\ drops' = drops  BY <1>1
  <2> QED  BY SMTT(60), <2>2, <2>5, <2>6, <2>7, <2>8 DEF NoneMissing
<1>15. ASSUME Cardinality(Range(marks')) <= RingCapacity, NEW p \in Payloads  PROVE FirstOnce(p)'
  <2>1. FirstOnce(p)  BY <1>11, <1>15 DEF InboundInv
  <2>2. Queued(p)' = Queued(p)  BY <1>1 DEF Queued
  <2>3. \A d \in Held : d # c /\ d \in Conns  BY <1>1 DEF Held
  <2>4. \A d : d \in Carried(p)' <=> d \in Carried(p) \/ (d = c /\ f = p /\ new)
    BY ZenonT(60), <1>7, <1>8, <1>9, <1>10, <1>13, <2>3 DEF Carried
  <2>5. CASE f = p /\ new
    <3>1. p \notin Range(marks)  BY <1>11, <1>15, <2>5 DEF new
    <3>2. arrivals[p] = 0 /\ Queued(p) = {} /\ Carried(p) = {}  BY <2>1, <3>1 DEF FirstOnce
    <3>3. Carried(p)' = {c}  BY <2>4, <2>5, <3>2
    <3>4. p \in Range(marks')  BY <1>11, <2>5
    <3> QED  BY SMT, <1>1, <2>2, <3>2, <3>3, <3>4 DEF FirstOnce
  <2>6. CASE ~(f = p /\ new)
    <3>1. Carried(p)' = Carried(p)  BY <2>4, <2>6
    <3> QED  BY <1>1, <1>11, <2>1, <2>2, <3>1 DEF FirstOnce
  <2> QED  BY <2>5, <2>6
<1>16. lost' = {}  BY <1>1 DEF InboundInv
<1> QED  BY <1>11, <1>12, <1>14, <1>15, <1>16 DEF InboundInv

\* The frame goes into the channel.
LEMMA PushKeeps ==
  ASSUME InboundInv, NEW c \in Conns, Push(c)
  PROVE  InboundInv'
<1> DEFINE g == conn[c].got[1]
           w == [conn[c] EXCEPT !.st = "read", !.got = <<>>]
<1>1. /\ conn[c].st = "push" /\ sink' = Append(sink, g) /\ conn' = [conn EXCEPT ![c] = w]
      /\ UNCHANGED <<ring, drops, marks, arrivals, lost, reads, floods>>
  BY DEF Push
<1>2. /\ conn \in [Conns -> ConnType] /\ conn[c] \in ConnType /\ conn[c].got # <<>>
      /\ sink \in Seq(GotType)
  BY <1>1 DEF InboundInv, InboundTypeOK
<1>3. conn[c].got \in Seq(GotType) /\ 1 \in DOMAIN conn[c].got  BY SMT, <1>2 DEF ConnType
<1>4. g \in GotType  BY SMT, <1>3
<1>5. <<>> \in Seq(GotType)  BY SMT
<1>6. w \in ConnType /\ w.st = "read"  BY <1>2, <1>5 DEF ConnType
<1> HIDE DEF w
<1>7. conn' \in [Conns -> ConnType] /\ conn'[c] = w /\ \A d \in Conns : d # c => conn'[d] = conn[d]
  BY <1>1, <1>2, <1>6
<1>8. c \in Held /\ Held' = Held \ {c}  BY <1>1, <1>6, <1>7 DEF Held
<1>9. \A p : c \in Carried(p) <=> g.frame = p /\ g.first  BY <1>8 DEF Carried
<1> HIDE DEF g
<1>10. /\ sink' \in Seq(GotType) /\ DOMAIN sink' = 1 .. Len(sink) + 1 /\ sink'[Len(sink) + 1] = g
       /\ \A i \in 1 .. Len(sink) : sink'[i] = sink[i]
  BY SMT, <1>1, <1>2, <1>4, Appended
<1>11. Len(sink') = Len(sink) + 1 /\ DOMAIN sink = 1 .. Len(sink) /\ Len(sink) \in Nat
  BY SMT, <1>1, <1>2, <1>4
<1>12. InboundTypeOK'
  <2>1. \A d \in Conns : conn'[d].st \in {"mark", "push"} => conn'[d].got # <<>>
    BY <1>6, <1>7 DEF InboundInv, InboundTypeOK
  <2> QED  BY <1>1, <1>7, <1>10, <2>1 DEF InboundInv, InboundTypeOK
<1>13. NoneMissing'
  <2>1. Held \in SUBSET Conns  BY DEF Held
  <2>2. IsFiniteSet(Held) /\ Cardinality(Held) \in Nat  BY <2>1, HeldFinite
  <2> DEFINE H == Held
  <2>3. IsFiniteSet(H) /\ c \in H  BY <1>8, <2>2
  <2> HIDE DEF H
  <2>4. Cardinality(H \ {c}) = Cardinality(H) - 1  BY <2>3, FS_RemoveElement
  <2>5. Cardinality(Held') = Cardinality(Held) - 1  BY <1>8, <2>4 DEF H
  <2>6. Len(marks) = drops + Len(sink) + Cardinality(Held) /\ drops \in Nat
    BY DEF InboundInv, NoneMissing, InboundTypeOK
  <2>7. marks' = marks /\ drops' = drops  BY <1>1
  <2> QED  BY SMTT(60), <1>11, <2>2, <2>5, <2>6, <2>7 DEF NoneMissing
<1>14. ASSUME Cardinality(Range(marks)) <= RingCapacity, NEW p \in Payloads  PROVE FirstOnce(p)'
  <2>1. FirstOnce(p)  BY <1>14 DEF InboundInv
  <2>2. Carried(p)' = Carried(p) \ {c}
    <3>1. \A d \in Held : d \in Conns  BY DEF Held
    <3> QED  BY <1>7, <1>8, <3>1 DEF Carried
  <2>3. \A i : i \in Queued(p)' <=> i \in Queued(p) \/ (i = Len(sink) + 1 /\ g.frame = p /\ g.first)
    <3> SUFFICES ASSUME NEW i
                 PROVE  i \in Queued(p)' <=>
                          i \in Queued(p) \/ (i = Len(sink) + 1 /\ g.frame = p /\ g.first)
      OBVIOUS
    <3>1. CASE i \in DOMAIN sink
      <4>1. i \in DOMAIN sink' /\ sink'[i] = sink[i] /\ i # Len(sink) + 1
        BY SMT, <1>10, <1>11, <3>1
      <4> QED  BY <3>1, <4>1 DEF Queued
    <3>2. CASE i = Len(sink) + 1
      <4>1. i \in DOMAIN sink' /\ i \notin DOMAIN sink /\ sink'[i] = g  BY SMT, <1>10, <1>11, <3>2
      <4> QED  BY <3>2, <4>1 DEF Queued
    <3>3. CASE i \notin DOMAIN sink /\ i # Len(sink) + 1
      <4>1. i \notin DOMAIN sink'  BY SMTT(60), <1>10, <1>11, <3>3
      <4> QED  BY <3>3, <4>1 DEF Queued
    <3> QED  BY <3>1, <3>2, <3>3
  <2>4. CASE g.frame = p /\ g.first
    <3>1. c \in Carried(p)  BY <1>9, <2>4
    <3>2. Carried(p) = {c} /\ Queued(p) = {} /\ arrivals[p] # 1 /\ p \in Range(marks)
      BY <2>1, <3>1 DEF FirstOnce
    <3>3. Carried(p)' = {} /\ \A i : i \in Queued(p)' <=> i = Len(sink) + 1
      BY <2>2, <2>3, <2>4, <3>2
    <3> QED  BY SMT, <1>1, <2>1, <3>2, <3>3 DEF FirstOnce
  <2>5. CASE ~(g.frame = p /\ g.first)
    <3>1. Carried(p)' = Carried(p) /\ Queued(p)' = Queued(p)  BY <1>9, <2>2, <2>3, <2>5
    <3> QED  BY <1>1, <2>1, <3>1 DEF FirstOnce
  <2> QED  BY <2>4, <2>5
<1>15. RingIsTrue' /\ lost' = {} /\ marks' = marks  BY <1>1 DEF InboundInv, RingIsTrue
<1> QED  BY <1>12, <1>13, <1>14, <1>15 DEF InboundInv

\* The pump broadcasts the frame, and announces a first sight that alerts.
LEMMA PumpKeeps ==
  ASSUME InboundInv, Pump
  PROVE  InboundInv'
<1> DEFINE g == Head(sink)
<1>1. /\ sink # <<>> /\ sink' = Tail(sink) /\ drops' = drops + 1
      /\ arrivals' = IF g.alert /\ g.first THEN [arrivals EXCEPT ![g.frame] = @ + 1] ELSE arrivals
      /\ UNCHANGED <<conn, ring, marks, lost, reads, floods>>
  BY DEF Pump
<1>2. sink \in Seq(GotType) /\ drops \in Nat /\ arrivals \in [Payloads -> Nat]
  BY DEF InboundInv, InboundTypeOK
<1>3. /\ g \in GotType /\ sink' \in Seq(GotType) /\ g = sink[1]
      /\ \A i \in DOMAIN sink' : i + 1 \in DOMAIN sink /\ sink'[i] = sink[i + 1] /\ 1 < i + 1
  BY ZenonT(60), <1>1, <1>2, Tailed
<1>4. Len(sink') = Len(sink) - 1 /\ Len(sink) \in Nat /\ Len(sink) > 0 /\ 1 \in DOMAIN sink
  BY SMT, <1>1, <1>2
<1> HIDE DEF g
<1>5. g.frame \in Payloads  BY <1>3 DEF GotType
<1>6. /\ arrivals' \in [Payloads -> Nat]
      /\ \A p \in Payloads : arrivals'[p] = IF g.alert /\ g.first /\ g.frame = p
                                             THEN arrivals[p] + 1 ELSE arrivals[p]
  BY SMT, <1>1, <1>2, <1>5
<1>7. Held' = Held  BY <1>1 DEF Held
<1>8. InboundTypeOK'
  <2>1. drops' \in Nat  BY SMT, <1>1, <1>2
  <2> QED  BY <1>1, <1>3, <1>6, <2>1 DEF InboundInv, InboundTypeOK
<1>9. NoneMissing'
  <2>1. Held \in SUBSET Conns  BY DEF Held
  <2>2. Cardinality(Held) \in Nat  BY <2>1, HeldFinite
  <2>3. Len(marks) = drops + Len(sink) + Cardinality(Held)  BY DEF InboundInv, NoneMissing
  <2>4. marks' = marks /\ drops' = drops + 1  BY <1>1
  <2> QED  BY SMT, <1>2, <1>4, <1>7, <2>2, <2>3, <2>4 DEF NoneMissing
<1>10. ASSUME Cardinality(Range(marks)) <= RingCapacity, NEW p \in Payloads  PROVE FirstOnce(p)'
  <2>1. FirstOnce(p) /\ arrivals[p] \in Nat  BY <1>2, <1>10 DEF InboundInv
  <2>2. Carried(p)' = Carried(p)  BY <1>1, <1>7 DEF Carried
  <2>3. \A i \in Queued(p)' : i + 1 \in Queued(p) /\ i \in Nat /\ i + 1 # 1
    <3> SUFFICES ASSUME NEW i \in Queued(p)'  PROVE i + 1 \in Queued(p) /\ i \in Nat /\ i + 1 # 1
      OBVIOUS
    <3>1. i \in DOMAIN sink' /\ sink'[i].frame = p /\ sink'[i].first  BY DEF Queued
    <3>2. i \in Nat /\ i > 0  BY SMT, <1>3, <3>1
    <3>3. i + 1 \in DOMAIN sink /\ sink'[i] = sink[i + 1]  BY <1>3, <3>1
    <3> QED  BY SMT, <3>1, <3>2, <3>3 DEF Queued
  <2>4. ASSUME NEW i \in Queued(p)', NEW j \in Queued(p)'  PROVE i = j
    <3>1. i + 1 = j + 1  BY <2>1, <2>3 DEF FirstOnce
    <3>2. i \in Nat /\ j \in Nat  BY <2>3
    <3> QED  BY SMT, <3>1, <3>2
  <2>5. Queued(p) = {} => Queued(p)' = {}  BY <2>3
  <2>6. CASE g.frame = p /\ g.first
    <3>1. 1 \in Queued(p)  BY <1>3, <1>4, <2>6 DEF Queued
    <3>2. Carried(p) = {} /\ arrivals[p] # 1 /\ p \in Range(marks)  BY <2>1, <3>1 DEF FirstOnce
    <3>3. Queued(p)' = {}  BY <2>1, <2>3, <3>1 DEF FirstOnce
    <3>4. arrivals[p] <= 1  BY <2>1 DEF FirstOnce
    <3>5. arrivals[p] = 0  BY SMT, <2>1, <3>2, <3>4
    <3>6. arrivals'[p] \in {0, 1}  BY SMT, <1>6, <3>5
    <3> QED  BY SMT, <1>1, <2>2, <3>2, <3>3, <3>6 DEF FirstOnce
  <2>7. CASE ~(g.frame = p /\ g.first)
    <3>1. arrivals'[p] = arrivals[p]  BY <1>6, <2>7
    <3> QED  BY <1>1, <2>1, <2>2, <2>4, <2>5, <3>1 DEF FirstOnce
  <2> QED  BY <2>6, <2>7
<1>11. RingIsTrue' /\ lost' = {} /\ marks' = marks  BY <1>1 DEF InboundInv, RingIsTrue
<1> QED  BY <1>8, <1>9, <1>10, <1>11 DEF InboundInv

\* A service that has just been hosted.
LEMMA InboundInitKeeps == InboundInit => InboundInv
<1> SUFFICES ASSUME InboundInit  PROVE InboundInv  OBVIOUS
<1> USE DEF InboundInit
<1>1. \A c \in Conns : conn[c].st = "closed"  BY ShutType
<1>2. <<>> \in Seq(Payloads) /\ <<>> \in Seq(GotType) /\ Len(<<>>) = 0  BY SMT
<1>3. conn \in [Conns -> ConnType]  BY ShutType
<1>4. InboundTypeOK  BY <1>1, <1>2, <1>3 DEF InboundTypeOK
<1>5. Range(marks) = {} /\ Range(ring) = {} /\ Held = {}  BY SMT, <1>1 DEF Range, Held
<1>6. RingIsTrue
  <2>1. Distinct(ring) /\ Len(ring) = 0  BY SMT DEF Distinct
  <2>2. IsFiniteSet(Range(marks)) /\ Cardinality(Range(ring)) = 0  BY <1>5, FS_EmptySet
  <2> QED  BY <1>5, <2>1, <2>2 DEF RingIsTrue
<1>7. NoneMissing  BY SMT, <1>2, <1>5, FS_EmptySet DEF NoneMissing
<1>8. \A p \in Payloads : Queued(p) = {} /\ Carried(p) = {}  BY SMT, <1>5 DEF Queued, Carried
<1>9. \A p \in Payloads : FirstOnce(p)  BY SMT, <1>8 DEF FirstOnce
<1> QED  BY <1>4, <1>6, <1>7, <1>9 DEF InboundInv

\* A step of another part.
LEMMA InboundStutters == InboundInv /\ UNCHANGED inbound => InboundInv'
<1> SUFFICES ASSUME InboundInv, UNCHANGED inbound  PROVE InboundInv'  OBVIOUS
<1>1. UNCHANGED <<conn, ring, sink, drops, marks, arrivals, lost>>  BY DEF inbound
<1>2. Held' = Held /\ InboundTypeOK' /\ RingIsTrue' /\ lost' = {}
  BY <1>1 DEF Held, InboundInv, InboundTypeOK, RingIsTrue
<1>3. NoneMissing'  BY <1>1, <1>2 DEF InboundInv, NoneMissing
<1>4. \A p \in Payloads : Queued(p)' = Queued(p) /\ Carried(p)' = Carried(p)
  BY <1>1, <1>2 DEF Queued, Carried
<1>5. \A p \in Payloads : FirstOnce(p) => FirstOnce(p)'  BY <1>1, <1>4 DEF FirstOnce
<1> QED  BY <1>1, <1>2, <1>3, <1>5 DEF InboundInv

\* The invariant of the inbound path holds in every behaviour.
LEMMA InboundInvariance == InboundSpec => []InboundInv
<1>1. ASSUME InboundInv, InboundNext  PROVE InboundInv'
  <2>1. CASE \E c \in Conns : Accept(c) \/ Close(c) \/ Mark(c) \/ Push(c)
    BY <1>1, <2>1, AcceptKeeps, MarkKeeps, PushKeeps
  <2>2. CASE \E c \in Conns : \E p \in Payloads, intro \in {0, MaxIntro}, alert \in BOOLEAN :
               Read(c, p, intro, alert)
    BY <1>1, <2>2, ReadKeeps
  <2> QED  BY <1>1, <2>1, <2>2, PumpKeeps DEF InboundNext
<1> QED  BY <1>1, InboundInitKeeps, InboundStutters, PTL DEF InboundSpec

(* Whatever a peer builds is read, a frame is announced at most once while *)
(* the ring has room for the frames it was asked about, and every frame    *)
(* that was marked is broadcast, queued or in the hands of its task:       *)
(* inbound.rs, seen.rs and the pump of services.rs.                        *)
THEOREM FramesArriveOnce == InboundSpec => []ArrivesOnce
<1>1. InboundInv => ArrivesOnce  BY DEF InboundInv, NoneMissing, FirstOnce, ArrivesOnce
<1> QED  BY <1>1, InboundInvariance, PTL

=============================================================================
