# Verification of the s-chat core

TLA+ models of `src/crates/core` and of the payloads in `src/crates/wire-types`,
the TLC runs that check them on small instances, and TLAPS proofs of results that
hold for every size. The models are translated from the source. `PROJECT.json`
maps each definition to the lines it stands for, lists the runs, the findings and
the hazards the properties are about, and has for every property a mutated
definition that breaks it.

    tlc -workers 2 -config Delivery.cfg MCDelivery     # one run
    tlapm Delivery_proofs.tla                          # the proofs of a module

## The system and its parts

An engine is one user's process: a SQLite store, a libsignal session per
relationship, a transport over Tor onion services and a vault that locks the
store. Two engines with an established relationship exchange envelopes. Every
envelope has an `app_seq` of its sender, is encrypted once and kept, and is
retransmitted as the same ciphertext.

| part | code (under `src/crates/core/src`) | module |
|---|---|---|
| outbound pipeline, outbox, upkeep | `engine/send.rs`, `engine/drain.rs`, `sync/outbox.rs`, `store/outbox.rs` | Delivery |
| inbound pipeline, replay cache | `engine/inbound.rs`, `pairing/ingest.rs`, `session/mod.rs` | Delivery |
| resync (view, gap, repair) | `sync/resync.rs` | Delivery |
| what the three promise | | Channel |
| ledger, edit, delete, wipe, tombstones, history cut | `messages/`, `store/messages.rs`, `store/tombstones.rs` | History |
| chat rules (message lifetime) | `policy/` | PolicyRules |
| capability wants | `policy/`, `engine/lifecycle.rs` | PolicyWants |
| attachments, receiving | `attach/mod.rs`, `store/attachments.rs`, `store/chunks.rs` | Attachments |
| attachments, their envelopes | `attach/mod.rs`, `wire-types/src/attach.rs`, `wire-types/src/envelope.rs` | AttachWire |
| pairing, requests, activation, close, burn | `pairing/`, `engine/lifecycle.rs`, `close/`, `engine/burn.rs` | Contact |
| typing, presence, profiles | `typing/`, `presence/`, `profile/`, `caps/` | Signals |
| rate limits | `ratelimit.rs` | RateLimit |
| stickers and packs | `stickers/`, `store/sticker*.rs`, `wire-types/src/sticker.rs` | Stickers |
| images that become stickers | `media/` | Media |
| vault, locked queue, panic wipe | `vault/` | Vault |
| supervision of tor, services, kill switch | `transport/lifecycle.rs`, `daemon.rs`, `heal.rs`, `killswitch.rs`, `services.rs` | Supervisor |
| pooled sender | `transport/socks/`, `transport/sending.rs` | Sender |
| listener, frames, ring of frames seen | `transport/inbound.rs`, `seen.rs`, `framing.rs`, `wire/frame.rs` | Inbound |
| tor's control connection | `transport/control/` | Control |

How they interact: the user's action goes through the outbound pipeline, which
allocates the `app_seq`, stores the row, encrypts, queues and writes. The pooled
sender writes it to the peer's onion service. The peer's listener reads the frame,
forgets it if the ring has seen it, and hands it to the vault, which queues it
while locked, and then to the inbound pipeline: duplicate check, decrypt, note the
seq, drop what a wipe or tombstone covers, store, dispatch to the handler of its
type. A gap in the noted seqs answers with a RESYNC_REQ that carries the receive
view; the sender acknowledges what the view covers and requeues what it misses.
Upkeep drains the outbox every five seconds and sweeps what expired. Beneath, the
supervisor keeps tor running and the services published on it.

The models meet at promises. Delivery takes from the transport only that records
are lost, delayed, repeated and reordered; Sender, Inbound and Control show what
the transport does with one record. Delivery shows that an envelope is dispatched
at most once, in any order, perhaps never (Channel is that promise, without the
mechanism). PolicyRules, PolicyWants, History, Attachments, Signals and Stickers
take exactly that as their network and model what the handlers do with it.
Contact composes the pipeline, the session and the services of two ends, since a
pairing and a burn go through all of them.

What makes it hard: nothing is ordered or reliable between two engines, a handler
is several committed statements and the process may die between any two, timers
(message TTL, delivery horizon, tombstone expiry, settle window, cool-downs) race
what is still on the way, tasks of the transport await each other, and the queues,
caches and counters have limits.

## Modules

The engine is single threaded, so a handler is one action. A crash inside it is a
choice of the same action that keeps the statements already committed, counted by
a bound. In the transport, where tasks run concurrently, a step ends where the
code awaits. Where the code compares a stored time with the clock and the model
has no clock, either answer may come out.

**Delivery** (with **Channel**). State: `out[n]` is the sending half of n's store
(the `next_app_seq` floor, the envelope each number was used for, the ledger rows,
the outbox) and its records in flight; `inn[n]` the receiving half (frames of the
replay cache, message keys consumed, noted seqs, stored rows); `session[n]`.
Actions: sending, draining, a drain pass that stops at an error, receiving with
every early return, the loss of a record, the session breaking, the sweep. The
wire is a set: repetition needs a retransmission, which the outbox makes. A handler
that stops between two statements (a crash, or a refusal for clock skew, capability
or decoding) is the same choice. The view of a RESYNC_REQ is computed as in the
code, with the scan limit and the bitmap width as constants. Numbering starts after
the activation burst. Left out: libsignal's limit on skipped message keys, back-off
times, and the drops that History models.

**PolicyRules**, **PolicyWants** (with **Pair**, the two engines they share). A rule
is its TTL: PROPOSE and ACCEPT, the local withdrawal and refusal, the rule each
engine enforces, and the expiry of its live messages under a clock; the crash is
between `save_policy` and the clamp. A want is each engine's (local, peer) pair per
capability: CAP_SET, SYNC and its reply, and the attachments kept while the
capability is enforced. An envelope may be taken from any place of its stream; the
history variable `overtaken` records that one was.

**Attachments**. The receiver of transfers: heads, chunks, completion, view-once,
DELETE, erasure by policy, the sweep. All of a transfer's envelopes are under way
from the start. Chunks are numbers, the content hash is a set of damaged transfers.

**AttachWire**. The sender's plan of a transfer (inline or chunked, the count, the
bucket and its pads), the head and the chunks in the sizes of their encodings, the
envelope that refuses what is too large, and the decoder that has to find the
caption in what remains. A step sends one file, of any size, hint and caption.

**History**. The thread of two engines. A text is the seq of the EDIT it came from.
Edit windows close by a bounded choice, tombstones expire by one too.

**Contact**. One inviter and its accepters, from the code to the burn: the pending
offer and its persona, INTROs and requests, the row on each end, the keys and the
ledger besides it (`left`), the services (`hosted`), the frames under way. A crash
or a failing call may cut each operation between any two of its statements; the
restart runs `restore_services`. A refusal that leaves no trace (a paced INTRO, a
full bucket, an expired code) is a step not taken.

**Signals**. A device signals to a peer, which keeps its tables and a client's view
(`shown`) made from the events alone. A tick is a second and all times are relative,
so time has no bound. The gates turn (capability, closing, policy).

**RateLimit**. One bucket per key, the clock an arbitrary reading at each check.
Granted checks are counted in history variables from any moment on.

**Stickers** and **Media**. Two devices make, push, fetch, serve, install, sweep and
remove packs. An item is its number; a chunk of a document also carries the number
of its signature, which is random. A death between the statements of a create, install
or removal leaves one of the states between them (`CreateCuts`, `InstallCuts`,
`RemoveCuts`). Media is what becomes of an image: kind, limits,
scaling with its rounding, the ladder of encodings, the thumbnail.

**Vault**. The data directory (store and key, copy of a migration, Tier-A key, the set
of queue files and temporary files), the host's state and the key in RAM. File operations
fail and the process dies by bounded choices inside the operations.

**Supervisor**. The child, its network and bootstrap, the control connection, the
one service that stands for all, the health loop with its ladder and restart
budget, the kill switch, the roaming reset and two callers of `publish_pending`.
Tor's own part is modelled from how this code uses it and marked external.

**Sender**, **Inbound**, **Control**. The workers of the pooled sender with their
queues, retries, eviction and exit; the connections of a listener with their
budgets, the ring and the pump; the commands on a control connection, tor's answers
in order, the reader. A line of an answer is its command, the shape of the reply and
the place in it. `MAX_CONN_BYTES` is left out: `MAX_CONN_PACKETS` of the
largest record stay below it.

An `MC*` module gives constants their values. Where components share no state it
also puts them side by side: `part` says which of them the behaviour is about.

## Runs

Passing runs. Bounds are named and set in the `.cfg` files.

| run | checks | bounds, and why they are enough |
|---|---|---|
| delivery | AckMeansStored, SeqNamesOneEnvelope, SettledStays, ImplementsChannel, QueuedMovesOn | three messages one way and one back: a hole, a covered seq past it and one past a two bit window, a scan limit of two, requests that cross. One crash anywhere and one sweep; the messages of an engine, the crash and the sweep are at most three together (`MaxEvents`): the crash or the sweep with two messages, both with one. The floor matters once a row is swept. The theorems on this module have no such bound |
| policy | RuleWasAgreed, ExpiryWithinTtl, AcceptIsOnItsWay; OneToDisable, HeldOnlyIfEnforced | two proposals, the least that cross or replace each other; NEVER and finite TTLs, a clock past them. Three CAP_SETs and two SYNCs, overtaking, one attachment. One crash |
| content | ShownIsWhole, GoneStaysGone, CompletesInEitherOrder; DeletedStaysDeleted, EditsConverge, WipeIsExact; HeadIsRead | transfers of zero to three chunks, caps below their sum, one damaged, one deleted, two switches, one crash. Four envelopes one way and two back, edits up to the cap, both sides wipe, one pruned tombstone. Files, hints and captions at and around every limit of the code's own numbers |
| contact | OfferIsWhole, OpenIsInvited, BreaksOnlyByRescan, BurstFollows, BurnedIsGone, CloseIsTold | two accepters and two codes, so that a code is scanned twice and a new offer replaces an old one; room for one request and one contact, so that both limits are met; one crash or failing call anywhere; at most two rows closing at a time (`FewClose`): the two ends of one contact, or two contacts |
| signals | NoFlicker, ProfileConverges, IndicatorsFade; GrantsBounded | the code's own five and three seconds of typing, three sends, one turn of a gate. Two buckets with burst three, refill two, clock to three: refills below, at and above the cap |
| stickers | NeverAHang, PackIsWhole; PreparedFits | a public pack of one device whose signature lies on a chunk boundary, and a private one of the other with an item too large to be pushed; all quotas at one or two so that each is met; two operations and one mishap. Images of every pair of edges around the caps |
| host | KillStopsAfterOneBatch, NoCallerForgotten; ArrivesOnce; ReplyIsOwn; KeptUntilUnlock, CalmLossIsLoud, WipeIsComplete | three calls to two destinations with one live session, so that workers are evicted, die and come back. Two connections, a ring of two, payloads at the bucket boundaries. Three commands, replies of all shapes. Drops that meet the cap on files and the one on bytes, one crash, one failing file operation, one wipe |
| supervisor | KillSwitchHolds, ServedIsHosted, Recovers | two versions of the service, a restart budget of one, two failures on the ladder, two faults: the least at which the budget is spent, and an entry replaced while it is published |

Deadlock is checked in signals. In the others it is not: engines with nothing left
to send may stop, and bounded quotas make them.

Fairness. Delivery: upkeep runs every five seconds
(`cli/src/commands/daemon.rs`), so a row leaves the outbox at the latest when its
24 h horizon passes; `Overdue` is the drain pass in which it does. Signals: time
passes and the peer's drain loop comes round. Supervisor: the task of the health
loop and the calls into tor that have begun are scheduled, timers run out, and tor
bootstraps when its network is enabled. Nothing is assumed of the network between
two engines, of the peer, or of the user.

Violating runs state what a comment, a doc or a test says, and TLC shows a
behaviour of the code that differs; `findings` quotes each line.

| run | property | the code |
|---|---|---|
| delivery_dropped | NeverSilentlyDropped | a lost, transmitted message is swept without ever failing |
| attach_mixed | AllInIsComplete | chunks on both sides of their head: all stored, never complete |
| history_cut | CutSparesNew | our wipe's seq is compared with the peer's seqs: an answer is dropped |
| vault_lost | LossIsLoud | a drain that fails at a later file forgets the ones it removed |

Some properties carry a hypothesis, since the code guarantees them only then; each
names what the code does otherwise.

| property | hypothesis | without it |
|---|---|---|
| AckMeansStored | no handler cut short | a handler that stops between noting the seq and storing the row lets the peer acknowledge a message nobody has |
| QueuedMovesOn | no handler cut short | a crash between dequeuing an overdue record and failing its message leaves it queued for ever |
| SettledStays | not in the outbox | a row acknowledged while its retransmission is queued becomes failed at the horizon |
| ExpiryWithinTtl, AcceptIsOnItsWay, HeldOnlyIfEnforced | no crash | a crash between the save and the clamp, the send or the erasure is never made up for |
| OneToDisable | nothing overtaken, no crash | an old SYNC undoes a CAP_SET off |
| CompletesInEitherOrder | no crash, chunks all before or all after the head | see attach_mixed |
| DeletedStaysDeleted, EditsConverge | nothing pruned | a late copy arrives after its tombstone went |
| WipeIsExact, on what is lost | a wipe of the other user | see history_cut |
| HeadIsRead, on what is read | an ASCII hint | the hint of a video is encoded as it is and refused by the peer's `read_ascii` |
| OfferIsWhole, BreaksOnlyByRescan, BurstFollows, CloseIsTold | no crash; OfferIsWhole also no INTRO at the limit of contacts | offer, activation and close are several statements, and the restart repeats none of them |
| OpenIsInvited | no crash, no failing call | a service whose removal failed stays open |
| BurnedIsGone, on all but the ledger | no crash, no INTRO at the limit | keys of a half-made relationship stay |
| KillSwitchHolds | not `slipped` | the end of a roaming reset and a restart under way enable the network with the switch on |
| ServedIsHosted | not `raced` | an entry replaced while its publisher awaits tor is marked published |
| ReplyIsOwn | no task aborted between the write and the queue | the answers shift by one |
| NeverAHang | `calm`; packs whose documents can be read (`DocumentsAssumption`) | a lost envelope, a full buffer, two documents mixed, a title the reader refuses |
| PackIsWhole | no death between statements | a listed pack lacks items |
| IndicatorsFade, on typing | no stop between expiry and sweep | the entry goes without an event |
| ProfileConverges | no older profile after a newer one; no death in an edit | rows are replaced in the order of arrival |
| KeptUntilUnlock | no wipe | a wipe removes the queue |
| CalmLossIsLoud | no crash, no failing file operation | see vault_lost |
| WipeIsComplete | no crash | the copy an interrupted migration left survives the wipe |

## Proofs

TLAPS proves these for every value of the constants that satisfies the named
assumptions.

**Delivery_proofs** assumes two distinct engines and natural bounds
(`NodesAssumption`, `BoundsAssumption`), nothing about their size. It proves
`TypeCorrect` (TypeOK), `AckSound` (AckMeansNoted), `AckStored` (AckMeansStored),
`OneEnvelopePerSeq` (SeqNamesOneEnvelope), `SettledForGood` (SettledStays) and
`Refinement` (Delivery implements Channel: ImplementsChannel).

None of these is inductive. `IInv` says of each sending half (`GoodOut`) that every
number in use is below the floor, that a row, an outbox record or a record in flight
belongs to an envelope that was sent, that the view in every sent RESYNC_REQ covers
only seqs its sender has noted, and that an acknowledged row is noted by the peer;
and of each receiving half that what it noted was sent by the peer and decrypted.
The conjunct on views carries the argument: a view stays true while it is delayed,
repeated or overtaken because noted seqs are never forgotten, so whatever
`handle_request` acknowledges from it was noted. `CoveredIsNoted` is the arithmetic
of horizon and bitmap, `NextIsFloor` shows the allocation to be the floor. `Evolves`
says what no step undoes. Each action moves one engine's halves and takes records
off the other's wire, so every case is an instance of `EngineStep`, which yields
both `IInv'` and the step of Channel. `AckStored` adds `NotedIsStored`, which only
a handler cut short between `note_inbound_seq` and `insert_message` breaks.

**Policy_proofs** is about the limits and rules of a contact. Of RateLimit it assumes
natural capacity, refill and clock bound, and proves `TypeCorrect`, `Bounded`
(GrantsBounded) and `FirstBurstPasses` (LimitedHadABurst) from the invariant `Inv`:
grants in the window plus the tokens left are at most the capacity plus the refill of the
time since the window began, and all grants plus the tokens left are at least the
capacity. The first fails for a bucket that counts a backward clock as time, the second
for one that does not start full.

Of the policy it assumes two engines, natural TTLs and bounds. On the rules it proves
`RulesAgreed` (RuleWasAgreed), `MessagesExpire` (ExpiryWithinTtl) and `AcceptComes`
(AcceptIsOnItsWay). `RuleWasAgreed` needs the invariant `Traced`: what is pending at
an engine, and every envelope on its way, is about a proposal that was made, with its
TTL and its maker, and an ACCEPT on its way is one the peer's user gave. An engine
applies the TTL in its pending slot, which any newer proposal overwrites; only the
comparison of ids in `apply_accept` ties that TTL to the proposal that was accepted.
On the wants it proves `OffForBoth` (OneToDisable) and `HeldIsEnforced`
(HeldOnlyIfEnforced). OneToDisable speaks of the moment when the mail is empty; what
is inductive is `Silenced`: every envelope on its way that would make the peer believe
in a capability again, and the belief itself, is followed by the CAP_SET off. A SYNC is
built from the wants of the moment, so it revives nothing that is off, and what is
taken from the head leaves the order of the others.

**Content_proofs** assumes, of Attachments, natural chunk counts and caps. It proves
`ShownWhole` (ShownIsWhole), `StaysGone` (GoneStaysGone) and `Completes` (CompletesInEitherOrder)
from one invariant on each transfer. `Sound` says that a stored chunk and the head of a
row are not on their way again, and that a complete row has all its chunks or none and
none under way. `Tracked` says that what was stored before the head is among the early
chunks and that, without a crash, the bitmap of an incomplete row with no early chunk
is what is stored: this is what makes the count in `on_attach_chunk` reach the total.
`MoveOne` reduces each handler to the transfer it moves; `TryCompleteMoves` gives the
three ends of `try_complete`, whose count of chunks is turned into "all of them" by
`CountIsWhole`.

Of AttachWire it proves `PlannedIsRead` (HeadIsRead) for every file size, hint
and caption, with the code's own limits as numbers. The lemmas are the bounds of a
plan (`PlanBounds`), what the decoder makes of an inline head (`InlineIsRead`) and of
the tail of a chunked one (`TailIsRead`, `TailLength`), and that every chunk, the last
and the pads included, fits its envelope (`ChunkFits`).

Of Inbound it proves `FramesArriveOnce` (ArrivesOnce) for any payloads, connections,
packet budgets and sizes of the ring. `RingIsTrue` says that the ring holds a frame
once and, while the frames fit, every frame it was asked about; `MovedLast` is what
`seen_or_mark` does with a frame it knows, a permutation that moves it to the end.
`FirstOnce` says that the one first sight of a frame is announced, in the channel or in
the hands of one connection, and `NoneMissing` counts what the ring was asked about.
`FrameBack` is the conversion: what is built and packed is read back.

**Host_proofs** is about Sender and Vault. It assumes a destination, workers that are
positive numbers, natural bounds and at least one live session; drops with a
natural size and natural caps. It proves `KillStops` (KillStopsAfterOneBatch) and
`CallersAnswered` (NoCallerForgotten) from `SenderInv`: a queued call is in the hands of
the worker it was given to, the map names a worker that still receives and serves that
destination, a batch is held only between the gate and the end of the write, and a
worker that wrote since the switch went on is before the gate. `WorkerMoves` reduces the
steps of a worker to two obligations: what leaves its hands is answered, and the map lets
go of it before it stops receiving. Of Vault it proves `DropsKept` (KeptUntilUnlock),
`CalmIsLoud` (CalmLossIsLoud) and `WipeFreshens` (WipeIsComplete). They need
`KeyInOrder`: a process that runs has the key of the directory, and a directory without
a key has taken nothing, so `load_or_generate_tier_a` never replaces a key that a file
is wrapped with.

**Thread_proofs** is about what two engines show each other. Of History it assumes two
engines and natural quotas and bounds, and proves `DeletionsHold` (DeletedStaysDeleted),
`TextsConverge` (EditsConverge) and `WipesAreExact` (WipeIsExact). EditsConverge speaks of
the moment when all EDITs have arrived; what is inductive (`AuthorsRow`) is that the
author's row has the newest text and the receiver's row either has it too or the EDIT that
carries it is on its way. `edit_decision` compares seqs, so an older EDIT that comes late
does not undo it. DeletedStaysDeleted needs `DeletedInOrder`: whoever deleted has the
tombstone, and its peer has deleted too or the DELETE is on its way. WipeIsExact needs
`WipesInOrder`, that a cut is the highest of the wipes an engine knows, and that a MSG on
its way is neither at its receiver nor a wipe (`PostInOrder`). What a DELETE and a
DELETE_ALL do is the same for the user and for the peer, so each is shown once (`Buries`,
`Clears`).

Of Signals it assumes `TimesAssumption`: natural times with
SendInterval + Latency < TypingTtl, of which the code has the first and the third as 3 and
5 seconds and Latency is what "prompt" means. It proves `NeverFlickers` (NoFlicker) and
`ProfilesConverge` (ProfileConverges). The invariant of the first, `Lasts`, is a bound on
time: what is lit lasts until the throttle lets go and a prompt frame has come, or a frame
on its way arrives before it goes out. `ProfileInv` says which save a frame on its way is
of, and that the last one is at the peer, on its way, or was overtaken.

**Contact_proofs** assumes natural bounds and devices that are no codes
(`BoundsAreNatural`, `DevicesAreNoCodes`). It proves `OffersStayWhole` (OfferIsWhole),
`OpenServicesAreInvited` (OpenIsInvited), `SessionsBreakByRescan` (BreaksOnlyByRescan),
`BurstsFollow` (BurstFollows), `BurnsAreWhole` (BurnedIsGone) and, of every step,
`ClosesAreTold` (CloseIsTold). `ContactInv` says of each row what is stored with it and was
sent for it (`RowFits`: without a row there is no ledger, and without a crash a row has all
its keys, an activated one has sent its burst and a closing one its CONTACT_CLOSE), and
that no row was made from the offer that is still open. A handler
chooses among the outcomes that a crash or a failing call leaves. Every outcome of the
code's statements is shown to fit (`Fine`), and that taking one outcome keeps the
invariant is shown once (`TookKeeps`).

**Tor_proofs** is about Supervisor and Control. Of Supervisor it assumes natural bounds
(the limits of restarts and failures positive), and proves `SwitchHolds` (KillSwitchHolds)
and `ServicesAreHosted` (ServedIsHosted). The first is inductive with the types. The second
speaks of moments at which nobody publishes, and `publish_pending` awaits tor in between;
`Orderly` says what holds at each await: every job is of the entry in the map, and what tor
serves is that entry or what a job under way will drop. `LoopInv` places the health loop:
it publishes only while it is online, and nothing is served before a bootstrap.

Of Control it proves `RepliesAreOwn` (ReplyIsOwn) for any commands and any set of
replies that end at their last line (`ControlAssumption`, which is how tor writes them).
The reader gives a whole reply to the head of the queue without looking whose it is, so
the invariant has to keep two orders in step. `WireInOrder`: the lines on their way and
those in the parser are whole replies in the order of the commands, all before the ones
tor still owes. `QueueInOrder`: the waiters and the commands without an answer start
alike, so that the head of the queue is the command of the reply that ends first.
A timeout keeps its place in the queue, and a command that could not be written
removes only the last waiter, whose answer and all later ones will never come.

**Stickers_proofs** is about Media and Stickers. Of Media it proves `StickerFits`
(PreparedFits) for every width and height: the aspect is tested before scaling, and scaling
rounds. The lemmas are the arithmetic of the rounding: a longer edge scaled to the cap
leaves a shorter one that is at least one and whose ratio to it is still within the limit.

Of Stickers it assumes two devices, natural sizes and items that belong to a pack
(`DevicesAssumption`, `SizesAssumption`), and `DocumentsAssumption`: a document that
`body_bytes` lets pass is accepted by its reader, and so is a preview. The code does not
ensure this: `body_bytes` looks neither at the characters of a title nor for the icon, and
with a pack that has such a document the asker does wait for nothing (see below). It proves
`NobodyHangs` (NeverAHang) and `PacksAreWhole` (PackIsWhole). NeverAHang speaks of moments
at which nothing is on its way. `Pursued` says what settles each want before that: the want
itself, a refusal, or chunks that together with the buffer are all of the content; and
`Partial` that no buffer holds every chunk. The two contradict each other once nothing is
on its way. PackIsWhole needs `Own`: a pack with a key is ours and never a cached one, so
`sweep_cache`, which drops cached packs without looking for keys, leaves ours alone.

The provers slow down with the number of definitions in scope and with the length of a
module, so a proof module covers few components, and the modules it extends take `Range`
from Functions and positions from `SubSeq` rather than all of SequencesExt. Most modules
say `USE Zenon`, which makes Zenon the default of a leaf; a leaf with arithmetic names SMT,
and a number behind either is the time a slow leaf may take.

Only model-checked: the liveness properties (QueuedMovesOn, Recovers, IndicatorsFade),
which are out of the prover's reach. Every invariant, action property and refinement of a
passing run is also a theorem. The properties of the violating runs are false.

## What else the modelling showed

Behaviours of the code met while modelling, each visible in a model as a named
exception or a history variable; where a comment says otherwise it is named.

Transport
- The end of a roaming reset (`policy.rs`) and a daemon restart that was under way
  when the kill switch went on enable the network again (`slipped`).
- A spent restart budget "surfaces `Dead` and healing stops" (`heal.rs`), but the
  health loop runs on and its next poll overwrites `Dead`.
- Removing a service that was hosted anew and not yet published leaves the old one in
  tor; an entry replaced while `publish_pending` awaits is marked published (`raced`).
- A command that cannot be written takes the last waiter off the queue although its own
  is not yet there: another command's caller is told that the connection closed.
- Inbound frames arrive once as far as the ring reaches, not "exactly once".

Delivery
- An envelope that is consumed and refused before it is noted (clock skew, decoding)
  leaves a hole no retransmission fills.
- The receive view looks at `ScanLimit` seqs: past it, what was received is reported
  missing and sent again.
- `send_envelope` takes its number before `encode` may fail, so a number may belong to
  no envelope. A store error while encrypting breaks the session, since
  `classify_signal_error` defaults to that.

Attachments and media
- An inline file (up to 27000 bytes) with a caption of more than 836 bytes is refused
  by the size of the envelope, though each is within its own limit; the same caption
  with a larger file, which is chunked, passes.
- Chunks whose head never comes are never reclaimed. `erase_attach_messages` goes
  through ledger rows that expire before the attachments do.

Contact
- After a crash in `offer` or `ingest_intro` the persona of the old offer stays and later
  offers are refused until it is cleared.
- The caps implied for peers that announce none (`inbound.rs`) are never used.

Signals and profiles
- `broadcast_profile` and `send_presence` stop at the first relationship whose gate is
  shut, so the ones after it get nothing.
- The profile that arrives last wins, not the newest.
- A presence entry that only says "do not disturb" decays without an event. A typing
  stop that comes between expiry and sweep does too (`late`).
- Typing and presence are documented as never stored and never resynced; the sender
  stores, queues and resyncs them like every envelope.
- Presence is sent on transitions only, and decays at the peer after 45 s.

Stickers
- A title of 33 to 128 ASCII characters passes `body_bytes` and is refused by
  `decode_body`.
- Buffers of transfers that never complete count against `MAX_PENDING_ITEMS` for all
  peers, though `limits.rs` says "per peer"; a burn clears everyone's.
- Two deliveries of one document have different random signatures, and chunks of both
  may be mixed; when a signature lies on a chunk boundary the result is refused.
- A PACK_BODY that comes after the pack was removed installs it again. `admit_pack`
  counts the pack that is being replaced. `last_used_at` is never updated, and
  `MAX_PACK_BLOB_BYTES` and `MAX_CACHE_BYTES` are never enforced.

## Not modelled, and why

- Pairing codes, onion addresses, key files, the primitive readers and writers of
  `wire-types`: conversions without state or limits that meet. What a conversion
  decides elsewhere is modelled (frames in Inbound, attachments in AttachWire, sticker
  documents in Stickers).
- Pixels: the image decoders and the GIF encoder. Media models what is decided from
  kinds and sizes.
- libsignal, SQLCipher and Tor are external; the models take from them what the code
  relies on: a message key decrypts once, a statement is atomic, records get lost, tor
  answers commands in order.
- READ, PREF and PROFILE_REQ, and the settings: one record each, which no other handler
  reads.
- The pacing of INTROs and the back-off of the outbox: times, modelled as a choice.
- Bridge configuration and the wording of the status; the FFI and the CLI, but for the
  two wrappers that go over several relationships.
- The store's migrations.
- Out of the prover's reach: liveness under fairness, and what recursive definitions
  compute for every input. These stay with TLC.
