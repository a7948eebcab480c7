------------------------------ MODULE Delivery ------------------------------
(***************************************************************************)
(* Message delivery between the two engines of one established             *)
(* relationship: the outbound pipeline (engine/send.rs), the outbox drain  *)
(* and sweeps (engine/drain.rs), the inbound pipeline (pairing/ingest.rs,  *)
(* session/mod.rs, engine/inbound.rs) and the resync protocol              *)
(* (sync/resync.rs), over a transport that loses, delays, reorders and     *)
(* repeats records.                                                        *)
(*                                                                         *)
(* An engine is single threaded, so a handler is one action; a crash       *)
(* inside a handler leaves the autocommitted statements before it, and is  *)
(* a choice of the same action (crashes counts them, MaxCrashes bounds     *)
(* them).  Time is abstracted: whenever the code compares a stored time    *)
(* with the clock, either answer may come out, for any subset of the rows. *)
(* An envelope is identified by its sender and app_seq.  Of its payload    *)
(* only the distinction "RESYNC_REQ or not" and the receive view of a      *)
(* RESYNC_REQ are kept.  Sequence number 1 stands for the first one after  *)
(* the activation burst.                                                   *)
(***************************************************************************)
EXTENDS Integers, FiniteSets

CONSTANTS
  Nodes,        \* the two engines
  Talkers,      \* the engines whose user writes messages
  MaxSeq,       \* bound: the largest app_seq
  Quota,        \* bound: Quota[n] app_seqs may be consumed by n
  BitmapBits,   \* width of the repair window, BITMAP_BITS = 4096
  ScanLimit,    \* rows receive_view reads, VIEW_SCAN_LIMIT = 65536
  MaxCrashes,   \* bound: crashes and handlers cut short
  MaxSweeps     \* bound: sweeps that find something expired

ASSUME NodesAssumption == \E a, b \in Nodes : a # b /\ Nodes = {a, b}
ASSUME TalkersAssumption == Talkers \subseteq Nodes
ASSUME BoundsAssumption ==
  /\ Quota \in [Nodes -> 0 .. MaxSeq]
  /\ MaxSeq \in Nat /\ MaxCrashes \in Nat /\ MaxSweeps \in Nat
  /\ BitmapBits \in Nat /\ ScanLimit \in Nat

VARIABLES
  out,      \* out[n]: the sending half of n's store, and its frames in flight
  inn,      \* inn[n]: the receiving half of n's store
  session,  \* session[n]: relationships.session_state
  crashes,
  sweeps

vars == <<out, inn, session, crashes, sweeps>>

Seqs == 1 .. MaxSeq

Peer(n) == CHOOSE m \in Nodes : m # n

-----------------------------------------------------------------------------
(* Envelopes and the receive view.                                         *)

NoEnv == [kind |-> "none", max |-> 0, bits |-> {}]

Data == [kind |-> "data", max |-> 0, bits |-> {}]

\* The rows a receive_view query returns: the ScanLimit lowest noted seqs.
Scanned(S) == {s \in S : Cardinality({t \in S : t <= s}) <= ScanLimit}

MaxContiguous(S) ==
  CHOOSE k \in 0 .. MaxSeq : 1 .. k \subseteq S /\ k + 1 \notin S

\* build_request: the view of the noted seqs S, as a RESYNC_REQ envelope.
BuildRequest(S) ==
  LET scan == Scanned(S)
      max  == MaxContiguous(scan)
  IN  [kind |-> "resync",
       max  |-> max,
       bits |-> {s \in scan : s > max + 1 /\ s - max - 1 < BitmapBits}]

\* Mutant: the seq after the horizon counts as covered.
IsMissingOffByOne(view, s) ==
  /\ s > view.max + 1
  /\ s - view.max - 1 < BitmapBits => s \notin view.bits

IsMissing(view, s) ==
  /\ s > view.max
  /\ s - view.max - 1 < BitmapBits => s \notin view.bits

OpensGap(S, s) == s > 1 /\ s > MaxContiguous(Scanned(S)) + 1

-----------------------------------------------------------------------------
(* The sending half.  A row of the outbound ledger also stands for its I11 *)
(* ciphertext: both are written by send_envelope and the sweep deletes     *)
(* them together.                                                          *)

RowStates == {"none", "queued", "transmitted", "acknowledged", "failed"}

Undelivered == {"queued", "transmitted"}

Rows(o) == {s \in Seqs : o.row[s] # "none"}

\* Mutant: the sequence restarts when the ledger was swept.
NextOutSeqFromLedger(o) ==
  LET candidates == {1} \cup {s + 1 : s \in Rows(o)}
  IN  CHOOSE k \in candidates : \A j \in candidates : j <= k

\* next_out_seq: one past the ledger's maximum, but never below the floor.
NextOutSeq(o) ==
  LET candidates == {o.floor} \cup {s + 1 : s \in Rows(o)}
  IN  CHOOSE k \in candidates : \A j \in candidates : j <= k

\* How send_envelope ends.  "sent": written and confirmed.  "refused": the
\* write failed.  "unsure": it failed after the record had left.  "burned": the
\* number is taken and encode or encrypt refuses, or the engine dies.
SendResults == {"sent", "refused", "unsure", "burned"}

\* The engine dies after insert_message or after dequeue.
SendCrashes == {"unqueued", "unmarked"}

\* session::encrypt stores the frame under its msg_id before it can leave: a
\* second call returns the stored one (I11), so that s names e for good.
Encrypted(o, s, e) == [o EXCEPT !.floor = s + 1, !.env[s] = e]

\* send_envelope for envelope e, ending in r.
AfterSend(o, e, r) ==
  LET s == NextOutSeq(o)
  IN  IF r = "burned" THEN [o EXCEPT !.floor = s + 1]
      ELSE [Encrypted(o, s, e) EXCEPT
              !.row[s] = IF r = "sent" THEN "transmitted" ELSE "queued",
              !.outbox = IF r \in {"refused", "unsure"} THEN @ \cup {s} ELSE @,
              !.wire = IF r \in {"sent", "unsure", "unmarked"} THEN @ \cup {s} ELSE @]

\* An optional send inside a handler: r = "skip" when the code does not get
\* to it (throttled, gated, or an error returned earlier).
MaybeSend(o, e, r) == IF r = "skip" THEN o ELSE AfterSend(o, e, r)

CanSend(n, o) == NextOutSeq(o) \in 1 .. Quota[n]

\* session::mark_broken and fail_relationship_outbound.
FailOutbound(o) ==
  [o EXCEPT !.row = [s \in Seqs |-> IF o.row[s] \in Undelivered
                                      THEN "failed" ELSE o.row[s]],
            !.outbox = {}]

\* Mutant: settled rows are looked at again.
CandidatesAny(o, view) ==
  {s \in Rows(o) : s <= view.max + BitmapBits}

\* handle_request: covered rows up to the window edge are acknowledged, the
\* missing ones whose TTL has not passed (live) are requeued.
Candidates(o, view) ==
  {s \in Seqs : o.row[s] \in Undelivered /\ s <= view.max + BitmapBits}

Covered(o, view) == {s \in Candidates(o, view) : ~IsMissing(view, s)}

Missing(o, view) == {s \in Candidates(o, view) : IsMissing(view, s)}

AfterRequest(o, acked, requeued) ==
  [o EXCEPT !.row = [s \in Seqs |-> IF s \in acked THEN "acknowledged" ELSE o.row[s]],
            !.outbox = @ \cup requeued]

-----------------------------------------------------------------------------
(* The receiving half.                                                     *)

NoInbound == [frames |-> {}, ratchet |-> {}, seqs |-> {}, stored |-> {}]

\* libsignal consumes the message key of a frame not decrypted before.
KeyConsumed(i, s) == [i EXCEPT !.ratchet = @ \cup {s}]

\* session::decrypt: the replay cache remembers the frame's hash.
Decrypted(i, s) == [KeyConsumed(i, s) EXCEPT !.frames = @ \cup {s}]

\* handle_plaintext up to note_inbound_seq.
Noted(i, s) == [Decrypted(i, s) EXCEPT !.seqs = @ \cup {s}]

\* handle_plaintext up to the dispatch.  stored holds the envelopes that were
\* ledgered and dispatched.
Ledgered(i, s) == [Noted(i, s) EXCEPT !.stored = @ \cup {s}]

-----------------------------------------------------------------------------
(* Actions.                                                                *)

Init ==
  /\ out = [n \in Nodes |-> [floor |-> 1, env |-> [s \in Seqs |-> NoEnv],
                             row |-> [s \in Seqs |-> "none"],
                             outbox |-> {}, wire |-> {}]]
  /\ inn = [n \in Nodes |-> NoInbound]
  /\ session = [n \in Nodes |-> "active"]
  /\ crashes = 0
  /\ sweeps = 0

MayCrash == crashes < MaxCrashes

Crash == MayCrash /\ crashes' = crashes + 1

\* How a send inside a handler may end, and whether that was a crash.
SendEnds == SendResults \cup IF MayCrash THEN SendCrashes ELSE {}

Ends(rs) == IF rs \cap SendCrashes = {} THEN UNCHANGED crashes ELSE Crash

\* send_text and every other typed send: gate, then send_envelope.
Send(n) ==
  /\ n \in Talkers
  /\ session[n] = "active"
  /\ CanSend(n, out[n])
  /\ \E r \in SendEnds :
       /\ out' = [out EXCEPT ![n] = AfterSend(@, Data, r)]
       /\ Ends({r})
  /\ UNCHANGED <<inn, session, sweeps>>

\* encrypt meets a store error or a session libsignal cannot read, takes the
\* session for broken and fails everything that is undelivered.
EncryptBreaks(n) ==
  /\ n \in Talkers
  /\ session[n] = "active"
  /\ CanSend(n, out[n])
  /\ out' = [out EXCEPT ![n] = FailOutbound(AfterSend(@, Data, "burned"))]
  /\ session' = [session EXCEPT ![n] = "broken"]
  /\ Crash
  /\ UNCHANGED <<inn, sweeps>>

\* The record s of n's peer leaves the wire and n's store moves to o and i.
Consume(n, s, o, i) ==
  /\ out' = [m \in Nodes |-> IF m = n THEN o
                             ELSE [out[m] EXCEPT !.wire = @ \ {s}]]
  /\ inn' = [inn EXCEPT ![n] = i]
  /\ UNCHANGED sweeps

\* The session is live and has never decrypted this frame.  A noted seq was
\* decrypted, so handle_plaintext's own dedupe never finds one that is fresh.
Fresh(n, s) ==
  /\ session[n] = "active"
  /\ s \notin inn[n].frames
  /\ s \notin inn[n].ratchet

\* decrypt refuses a frame on a broken session, drops a frame whose hash it
\* remembers, and drops one libsignal reports as duplicated.
DropFrame(n, s) ==
  /\ ~Fresh(n, s)
  /\ Consume(n, s, out[n], inn[n])
  /\ UNCHANGED <<session, crashes>>

\* A repeated frame whose hash was swept: past the receiver chains libsignal
\* retains it cannot tell a duplicate from a desync, and the session breaks.
BreakOnReplay(n, s) ==
  /\ session[n] = "active"
  /\ s \in inn[n].ratchet \ inn[n].frames
  /\ Consume(n, s, FailOutbound(out[n]), inn[n])
  /\ session' = [session EXCEPT ![n] = "broken"]
  /\ UNCHANGED crashes

\* Ingest stops between libsignal and the ledger: a crash before the replay
\* cache is written; a crash or a decode, caps or skew refusal before
\* note_inbound_seq; a crash or a failing activation burst after it.
CutShort(n, s) ==
  /\ Fresh(n, s)
  /\ \E i \in {KeyConsumed(inn[n], s), Decrypted(inn[n], s), Noted(inn[n], s)} :
       Consume(n, s, out[n], i)
  /\ Crash
  /\ UNCHANGED session

\* How handle_plaintext ends for a new envelope s, the store being at o after
\* its dispatch: a feature reply may go out (policy SYNC, profile, sticker
\* answer) where the type has one; then, if s opened a gap and the throttle
\* allows it, a RESYNC_REQ with the view that includes s.  A first one
\* that fails or dies leaves out the second.
HandlerEnds(n, s, o, replies) ==
  \E reply \in {"skip"} \cup IF replies /\ CanSend(n, o) THEN SendEnds ELSE {} :
    LET replied == MaybeSend(o, Data, reply)
        asks == OpensGap(inn[n].seqs, s) /\ CanSend(n, replied)
                  /\ reply \notin SendCrashes \cup {"burned"}
    IN  \E req \in {"skip"} \cup IF asks THEN SendEnds ELSE {} :
          /\ Consume(n, s, MaybeSend(replied, BuildRequest(inn[n].seqs \cup {s}), req),
                     Ledgered(inn[n], s))
          /\ Ends({reply, req})

\* handle_plaintext for every type but RESYNC_REQ.
HandleData(n, s) ==
  /\ Fresh(n, s)
  /\ out[Peer(n)].env[s].kind = "data"
  /\ HandlerEnds(n, s, out[n], TRUE)
  /\ UNCHANGED session

\* handle_plaintext for RESYNC_REQ, apply_resync_req included: the covered
\* rows are acknowledged and the missing ones whose TTL has not passed (live)
\* requeued, unless the rate limiter refuses the request.
HandleResync(n, s) ==
  LET view == out[Peer(n)].env[s]
  IN  /\ Fresh(n, s)
      /\ view.kind = "resync"
      /\ \/ HandlerEnds(n, s, out[n], FALSE)
         \/ \E live \in SUBSET Missing(out[n], view) :
              HandlerEnds(n, s, AfterRequest(out[n], Covered(out[n], view), live), TRUE)
      /\ UNCHANGED session

\* The engine dies inside handle_request, which returns the rows to requeue at
\* its end: some covered rows are acknowledged, nothing is requeued.
CrashInResync(n, s) ==
  LET view == out[Peer(n)].env[s]
  IN  /\ Fresh(n, s)
      /\ view.kind = "resync"
      /\ \E acked \in SUBSET Covered(out[n], view) :
           Consume(n, s, AfterRequest(out[n], acked, {}), Ledgered(inn[n], s))
      /\ Crash
      /\ UNCHANGED session

\* mark_transmitted accepts the row.
MayTransmit(o, s) == o.row[s] \in Undelivered

\* Mutant: no record is ever found overdue.
AfterDrainNoHorizon(o, sent, gone, failed, written) ==
  [o EXCEPT !.row = [s \in Seqs |-> IF s \in sent THEN "transmitted" ELSE o.row[s]],
            !.outbox = @ \ (sent \cup (gone \ failed)),
            !.wire = @ \cup written]

\* What a drain pass does to the rows it sent and to the ones past their
\* delivery horizon: fail_expired deletes the latter from the outbox, then
\* set_delivery marks those whose ledger row is still there, whatever its
\* state.
AfterDrain(o, sent, gone, failed, written) ==
  [o EXCEPT !.row = [s \in Seqs |-> IF s \in sent THEN "transmitted"
                                    ELSE IF s \in failed \cap Rows(o) THEN "failed"
                                    ELSE o.row[s]],
            !.outbox = @ \ (sent \cup gone),
            !.wire = @ \cup written]

\* drain_outbox, to its end: of the due rows some are written (sent), then at
\* most one write fails (late is that row, when its record had left) and the
\* rest back off; then the overdue rows fail.
DrainOutbox(n) ==
  LET o == out[n]
  IN  /\ \E sent \in SUBSET {s \in o.outbox : MayTransmit(o, s)} :
         \E late \in {{}} \cup {{s} : s \in o.outbox \ sent} :
         \E overdue \in SUBSET (o.outbox \ sent) :
           /\ sent \cup late \cup overdue # {}
           /\ out' = [out EXCEPT ![n] = AfterDrain(o, sent, overdue, overdue, sent \cup late)]
      /\ UNCHANGED <<inn, session, crashes, sweeps>>

\* drain_outbox stops at row s, already written and dequeued, because
\* mark_transmitted refuses it (acknowledged, failed or swept) or the engine
\* dies; or the engine dies with the overdue rows dequeued and not yet failed.
DrainStops(n) ==
  LET o == out[n]
  IN  /\ \E sent \in SUBSET {s \in o.outbox : MayTransmit(o, s)} :
         \/ \E s \in o.outbox \ sent :
              /\ out' = [out EXCEPT ![n] = AfterDrain(o, sent, {s}, {}, sent \cup {s})]
              /\ IF MayTransmit(o, s) THEN Crash ELSE UNCHANGED crashes
         \/ \E overdue \in (SUBSET (o.outbox \ sent)) \ {{}} :
              /\ out' = [out EXCEPT ![n] = AfterDrain(o, sent, overdue, {}, sent)]
              /\ Crash
      /\ UNCHANGED <<inn, session, sweeps>>

\* Mutant: the noted seqs are swept with the replay cache.
SweepForgets(n) ==
  /\ sweeps < MaxSweeps
  /\ \E hashes \in (SUBSET inn[n].frames) \ {{}} :
       inn' = [inn EXCEPT ![n].frames = @ \ hashes, ![n].seqs = @ \ hashes]
  /\ sweeps' = sweeps + 1
  /\ UNCHANGED <<out, session, crashes>>

\* sweep: expired ledger rows (with their ciphertexts) and expired replay
\* cache entries are deleted.  The outbox is not touched.
Sweep(n) ==
  /\ sweeps < MaxSweeps
  /\ \E dead \in SUBSET Rows(out[n]), hashes \in SUBSET inn[n].frames :
       /\ dead \cup hashes # {}
       /\ out' = [out EXCEPT ![n].row = [s \in Seqs |-> IF s \in dead THEN "none" ELSE @[s]]]
       /\ inn' = [inn EXCEPT ![n].frames = @ \ hashes]
  /\ sweeps' = sweeps + 1
  /\ UNCHANGED <<session, crashes>>

\* A written record never arrives: the stream dies after the write, the drop
\* channel lags, the rate limiter or the full drop queue discards it.
Lose(n, s) ==
  /\ out' = [out EXCEPT ![n].wire = @ \ {s}]
  /\ UNCHANGED <<inn, session, crashes, sweeps>>

-----------------------------------------------------------------------------
\* A record from n's peer reaches n.
Receive(n, s) ==
  \/ DropFrame(n, s)
  \/ BreakOnReplay(n, s)
  \/ CutShort(n, s)
  \/ HandleData(n, s)
  \/ HandleResync(n, s)
  \/ CrashInResync(n, s)

Next ==
  \E n \in Nodes :
    \/ Send(n)
    \/ EncryptBreaks(n)
    \/ DrainOutbox(n)
    \/ DrainStops(n)
    \/ Sweep(n)
    \/ \E s \in out[Peer(n)].wire : Receive(n, s)
    \/ \E s \in out[n].wire : Lose(n, s)

Spec == Init /\ [][Next]_vars

-----------------------------------------------------------------------------
(* Properties.                                                             *)

Envelopes == [kind : {"none", "data", "resync"}, max : 0 .. MaxSeq, bits : SUBSET Seqs]

\* Type invariant.
TypeOK ==
  /\ out \in [Nodes -> [floor : 1 .. MaxSeq + 1, env : [Seqs -> Envelopes],
                        row : [Seqs -> RowStates],
                        outbox : SUBSET Seqs, wire : SUBSET Seqs]]
  /\ inn \in [Nodes -> [frames : SUBSET Seqs, ratchet : SUBSET Seqs,
                        seqs : SUBSET Seqs, stored : SUBSET Seqs]]
  /\ session \in [Nodes -> {"active", "broken"}]
  /\ crashes \in 0 .. MaxCrashes
  /\ sweeps \in 0 .. MaxSweeps

\* A row is acknowledged only when the peer has noted its app_seq: whatever
\* was lost, repeated or reordered, and however stale the RESYNC_REQ, its
\* view never covers a seq the peer did not receive (resync::handle_request,
\* is_missing, receive_view).
AckMeansNoted ==
  \A n \in Nodes, s \in Seqs :
    out[n].row[s] = "acknowledged" => s \in inn[Peer(n)].seqs

\* An acknowledged message was ledgered and dispatched by the peer
\* (sync/outbox.rs: the peer "already stored the frame"), unless a
\* handler was cut short between note_inbound_seq and insert_message.
AckMeansStored ==
  \A n \in Nodes, s \in Seqs :
    (crashes = 0 /\ out[n].row[s] = "acknowledged") => s \in inn[Peer(n)].stored

\* An app_seq names one envelope, whose frame never changes, even after the
\* ledger rows that next_out_seq reads were swept or the engine died between
\* next_out_seq and insert_message (I11; out_seq_floor).
SeqNamesOneEnvelope ==
  [][\A n \in Nodes, s \in Seqs :
       out[n].env[s] # NoEnv =>
         /\ out'[n].env[s] = out[n].env[s]
         /\ out[n].row[s] = "none" => out'[n].row[s] = "none"]_vars

\* Acknowledged and failed are terminal (tests/state_machine.rs), except for a
\* row whose retransmission is still queued: late views, drains and breaking
\* sessions only ever let the sweep erase it (handle_request, mark_transmitted,
\* fail_relationship_outbound).
SettledStays ==
  [][\A n \in Nodes, s \in Seqs :
       out[n].row[s] \in {"acknowledged", "failed"} /\ s \notin out[n].outbox =>
         out'[n].row[s] \in {out[n].row[s], "none"}]_vars

\* A message that was not delivered fails before it is erased (store/outbox.rs,
\* "never silently dropped - the message row's state becomes `failed`").
NeverSilentlyDropped ==
  [][\A n \in Nodes, s \in Seqs :
       out[n].row[s] \in Undelivered => out'[n].row[s] # "none"]_vars

-----------------------------------------------------------------------------
(* What Delivery implements.                                               *)

C == INSTANCE Channel WITH
       sent     <- [n \in Nodes |-> {s \in Seqs : out[n].env[s] # NoEnv}],
       received <- [n \in Nodes |-> inn[n].seqs],
       acked    <- [n \in Nodes |-> {s \in Seqs : out[n].row[s] = "acknowledged"}]

\* The engines implement the channel their users see: sequence numbers leave
\* in order and are never used twice, only sent ones are received, and only
\* received ones are shown as acknowledged (send_envelope, handle_plaintext,
\* handle_request).
ImplementsChannel == C!Spec

-----------------------------------------------------------------------------
(* Fairness: upkeep runs every five seconds, so a row leaves the outbox at *)
(* the latest when its 24 h horizon passes.  Nothing is assumed of the     *)
(* transport or of the peer.                                               *)

\* The drain pass in which nothing is sent and s is past its horizon.  While s
\* stays in the outbox it remains possible, so that fairness for it says that
\* s leaves, by this pass or another.
Overdue(n, s) ==
  /\ s \in out[n].outbox
  /\ out' = [out EXCEPT ![n] = AfterDrain(@, {}, {s}, {s}, {})]
  /\ UNCHANGED <<inn, session, crashes, sweeps>>

Fairness == \A n \in Nodes : \A s \in 1 .. Quota[n] : WF_vars(Overdue(n, s))

\* A queued message does not stay queued: it is transmitted, acknowledged,
\* failed or erased.  Excluded is an engine that died or stopped between the
\* ledger row and the outbox record (send_envelope, drain_outbox, fail_expired).
QueuedMovesOn ==
  \A n \in Nodes : \A s \in 1 .. Quota[n] :
    out[n].row[s] = "queued" ~> (out[n].row[s] # "queued" \/ crashes > 0)
=============================================================================
