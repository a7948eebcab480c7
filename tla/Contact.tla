------------------------------ MODULE Contact ------------------------------
(***************************************************************************)
(* The life of a contact, from the pairing offer to the burn: one inviter  *)
(* ("host"), the accepters who scan its codes ("peer"), the frames between *)
(* them, the onion services they meet at, and the rows each side keeps.    *)
(*   src/crates/core/src/pairing/*, engine/lifecycle.rs, close/mod.rs,     *)
(*   engine/burn.rs and the parts of engine/inbound.rs, engine/drain.rs    *)
(*   and session/* they rest on.                                           *)
(* An accepter pairs at most once, so it also names the relationship.      *)
(* A frame is under way until it is read or its contact is burned: it may  *)
(* arrive late or never, and a refusal that leaves no trace (an INTRO      *)
(* paced by intro_throttled or met by a full request bucket, an expired    *)
(* code, a frame read before) is a step not taken.  A crash is followed at *)
(* once by the restart, which hosts the services again (restore_services). *)
(***************************************************************************)
EXTENDS Integers, FiniteSets

CONSTANTS
  Accepters,          \* the devices that may scan a code
  MaxOffers,          \* codes the host makes
  MaxRequests,        \* limits::pairing::MAX_PENDING_REQUESTS
  MaxRelationships,   \* limits::pairing::MAX_RELATIONSHIPS
  MaxMishaps          \* bound on crashes and on failing calls, together

ASSUME BoundsAreNatural ==
  {MaxOffers, MaxRequests, MaxRelationships, MaxMishaps} \subseteq Nat

VARIABLES
  issued,    \* how many codes the host has made
  pending,   \* the code of the pending_pairing row, 0 when there is none
  persona,   \* the code whose persona is in the host's pending namespace, or 0
  scanned,   \* the code each accepter took, 0 when none
  row,       \* the relationships row, on each end
  left,      \* what each end still stores of a relationship besides the row
  hosted,    \* who may reach each onion service
  wire,      \* frames under way
  crashes,   \* of any device
  faults,    \* calls into tor or libsignal that failed
  capped     \* an INTRO met MAX_RELATIONSHIPS

vars == <<issued, pending, persona, scanned, row, left, hosted, wire,
          crashes, faults, capped>>

Codes == 1..MaxOffers

\* Services and who may reach them have names of their own.
ASSUME DevicesAreNoCodes ==
  \A a \in Accepters : a \notin Codes /\ a \notin {"off", "open", "host"}

Ends == {"host", "peer"}
Other(e) == IF e = "host" THEN "peer" ELSE "host"

\* What the ends say to each other: the accepter's first message, the
\* activation burst (a RESYNC_REQ and what follows it), and the DELETE_ALL
\* and CONTACT_CLOSE of a close.
Kinds == {"hello", "burst", "close"}


\* state: of the row; session: session_state; intro: intro_pending;
\* activated: the activation_sent setting; closing, late: close_state and the
\* settle window; mute: closed when nothing could be sent; heard: a frame
\* of the peer was decrypted; sent: envelopes made; outbox: the records not yet written.
NoRow == [state |-> "none", session |-> "active", intro |-> FALSE,
          activated |-> FALSE, closing |-> FALSE, late |-> FALSE,
          mute |-> FALSE, heard |-> FALSE, sent |-> {}, outbox |-> {}]

\* session keys, and the tables keyed by rel_id.
Stored == {"keys", "ledger"}

Init ==
  /\ issued = 0 /\ pending = 0 /\ persona = 0
  /\ scanned = [a \in Accepters |-> 0]
  /\ row = [e \in Ends |-> [a \in Accepters |-> NoRow]]
  /\ left = [e \in Ends |-> [a \in Accepters |-> {}]]
  /\ hosted = [s \in Codes \cup Accepters |-> "off"]
  /\ wire = {} /\ crashes = 0 /\ faults = 0 /\ capped = FALSE

-----------------------------------------------------------------------------
(* Services *)

ServiceOf(e, a) == IF e = "host" THEN scanned[a] ELSE a

\* The accepter's service admits the inviter only; the inviter's admits
\* everybody ("open") or the one accepter whose key it was given.
MayReach(e, a) ==
  IF e = "host" THEN hosted[a] = "host"
                ELSE hosted[scanned[a]] \in {"open", a}

AuthFor(e, a, r) ==
  CASE e = "peer" -> "host"
    [] e = "host" /\ r.state = "request" -> "open"
    [] OTHER -> a

\* What restore_services hosts, over the services in base.
RestoredFrom(base, e, rows, p) ==
  LET Mine(s) == {a \in Accepters : rows[a].state # "none" /\ ServiceOf(e, a) = s} IN
  [s \in DOMAIN base |->
     IF Mine(s) # {} THEN LET a == CHOOSE a \in Mine(s) : TRUE IN AuthFor(e, a, rows[a])
     ELSE IF e = "host" /\ s = p THEN "open"
     ELSE base[s]]

\* A crash takes every service of the process with it.
Rebooted(e, a, rows, p) ==
  LET mine == IF e = "host" THEN Codes ELSE {a} IN
  RestoredFrom([s \in DOMAIN hosted |-> IF s \in mine THEN "off" ELSE hosted[s]],
               e, rows, p)

Unlock(e) ==
  /\ hosted' = RestoredFrom(hosted, e, row[e], pending)
  /\ hosted' # hosted
  /\ UNCHANGED <<issued, pending, persona, scanned, row, left, wire,
                 crashes, faults, capped>>

-----------------------------------------------------------------------------
(* The offer *)

\* clear_pending: the service, the row and the persona of the open offer.  A
\* removal that fails is ignored.
Cleared_ServiceStays(h, removed) == h
Cleared(h, removed) ==
  IF pending # 0 /\ removed THEN [h EXCEPT ![pending] = "off"] ELSE h

Fails(b) == faults' = IF b THEN faults + 1 ELSE faults
MayFail == IF pending # 0 /\ crashes + faults < MaxMishaps THEN BOOLEAN ELSE {FALSE}

\* abort_offer, and sweep_expired once OFFER_TTL_SECONDS passed.
ClearOffer ==
  /\ pending # 0
  /\ \E failed \in MayFail :
       /\ hosted' = Cleared(hosted, ~failed)
       /\ Fails(failed)
  /\ pending' = 0
  /\ persona' = 0
  /\ UNCHANGED <<issued, scanned, row, left, wire, crashes, capped>>

\* store_persona finds the pending namespace empty once the old offer is
\* cleared; a persona without an offer is not, and refuses another one.
PersonaFits == pending # 0 \/ persona = 0

\* offer: the old offer is cleared, the new persona hosted, stored, and the
\* row inserted.  If the persona does not fit the service stays hosted.
Offer ==
  LET c == issued + 1
      opened(failed) == [Cleared(hosted, ~failed) EXCEPT ![c] = "open"]
  IN
  /\ issued < MaxOffers
  /\ issued' = c
  /\ \E failed \in MayFail :
       /\ Fails(failed)
       /\ \/ /\ PersonaFits
             /\ persona' = c
             /\ \/ /\ pending' = c
                   /\ hosted' = opened(failed)
                   /\ UNCHANGED crashes
                \/ /\ ~failed /\ crashes + faults < MaxMishaps
                   /\ crashes' = crashes + 1
                   /\ pending' = 0
                   /\ hosted' = Rebooted("host", 0, row["host"], 0)
          \/ /\ ~PersonaFits
             /\ hosted' = opened(failed)
             /\ UNCHANGED <<pending, persona, crashes>>
  /\ UNCHANGED <<scanned, row, left, wire, capped>>

\* accept: the persona is fresh and the row comes last.  An expired code is
\* refused, which only keeps the step from being taken.
\* A failing step removes the service and the keys; a crash leaves the keys.
Accept(a, c) ==
  /\ c \in 1..issued /\ scanned[a] = 0
  /\ scanned' = [scanned EXCEPT ![a] = c]
  /\ \/ /\ row' = [row EXCEPT !["peer"][a] =
                     [NoRow EXCEPT !.state = "active", !.intro = TRUE]]
        /\ left' = [left EXCEPT !["peer"][a] = Stored]
        /\ hosted' = [hosted EXCEPT ![a] = "host"]
        /\ UNCHANGED <<crashes, faults>>
     \/ /\ crashes + faults < MaxMishaps /\ faults' = faults + 1
        /\ UNCHANGED <<row, left, hosted, crashes>>
     \/ /\ crashes + faults < MaxMishaps /\ crashes' = crashes + 1
        /\ left' = [left EXCEPT !["peer"][a] = {"keys"}]
        /\ UNCHANGED <<row, hosted, faults>>
  /\ UNCHANGED <<issued, pending, persona, wire, capped>>

-----------------------------------------------------------------------------
(* Sending *)

Frame(e, a, k, r) == [to |-> Other(e), rel |-> a, kind |-> k, intro |-> r.intro]

\* gate_outbound: a broken session, an inviter's unanswered request and a
\* closing row refuse.
MaySend_ClosingRefuses(e, r, k) ==
  /\ r.session # "broken"
  /\ ~(e = "host" /\ r.state = "request")
  /\ ~r.closing

MaySend(e, r, k) ==
  /\ r.session # "broken"
  /\ ~(e = "host" /\ r.state = "request")
  /\ r.closing => k # "hello"

\* send_envelope: queued, and written at once if the peer can be reached.
\* The outcomes are pairs of the row and the frames written.
Sent(e, a, r, k) ==
  IF ~MaySend(e, r, k) THEN {<<r, {}>>}
  ELSE LET made == [r EXCEPT !.sent = @ \cup {k}] IN
       {<<[made EXCEPT !.outbox = @ \cup {k}], {}>>}
         \cup IF MayReach(e, a) THEN {<<made, {Frame(e, a, k, r)}>>} ELSE {}

Hello(a) ==
  LET r == row["peer"][a] IN
  /\ r.state = "active" /\ r.sent = {} /\ MaySend("peer", r, "hello")
  /\ \E s \in Sent("peer", a, r, "hello") :
       /\ row' = [row EXCEPT !["peer"][a] = s[1]]
       /\ wire' = wire \cup s[2]
  /\ UNCHANGED <<issued, pending, persona, scanned, left, hosted,
                 crashes, faults, capped>>

\* drain_outbox, a due record at a time: a closing row is drained too.
Drain(e, a) ==
  LET r == row[e][a] IN
  /\ r.outbox # {} /\ MayReach(e, a)
  /\ \E k \in r.outbox :
       /\ row' = [row EXCEPT ![e][a].outbox = @ \ {k}]
       /\ wire' = wire \cup {Frame(e, a, k, r)}
  /\ UNCHANGED <<issued, pending, persona, scanned, left, hosted,
                 crashes, faults, capped>>

-----------------------------------------------------------------------------
(* What a handler does to one relationship: the row and the stored parts it
   leaves, the frames it writes, whether its service is gone, and whether the
   process died before the handler was done or a call into tor failed. *)

Did(e, a, r) ==
  [row |-> r, left |-> left[e][a], out |-> {}, gone |-> FALSE, died |-> FALSE,
   failed |-> FALSE]
Dead(d) == [d EXCEPT !.died = TRUE]

\* burn_relationship: service, keys, tables, and the row last.
Burn_RowFirst(d) ==
  LET off == [d EXCEPT !.gone = TRUE, !.row = NoRow] IN
  {[off EXCEPT !.left = {}]}
    \cup {Dead([off EXCEPT !.left = kept]) : kept \in {Stored, {"ledger"}, {}}}

Burn(d) ==
  LET off == [d EXCEPT !.gone = TRUE]
      done == [off EXCEPT !.row = NoRow, !.left = {}]
  IN {done, [done EXCEPT !.gone = FALSE, !.failed = TRUE]}
       \cup {Dead([off EXCEPT !.left = kept]) : kept \in {Stored, {"ledger"}, {}}}

Says(e, a, d, k) ==
  {[d EXCEPT !.row = s[1], !.out = @ \cup s[2]] : s \in Sent(e, a, d.row, k)}

\* on_relationship_active: the RESYNC_REQ and, with it, profile and policy.
Activate_InviterOnly(e, a, d) == IF e = "host" THEN Says(e, a, d, "burst") ELSE {d}
Activate(e, a, d) == Says(e, a, d, "burst")

\* handle_plaintext: the closing gate, the accepter's activation and the
\* dispatch.
Handle(e, a, d, k) ==
  LET marked == [d EXCEPT !.row.activated = TRUE]
      first == e = "peer" /\ ~d.row.activated
      active == IF first THEN Activate(e, a, marked) ELSE {d}
  IN IF d.row.closing /\ k # "burst" THEN {d}
     ELSE (IF k = "close" THEN UNION {Burn(x) : x \in active} ELSE active)
            \cup IF first THEN {Dead(marked)} ELSE {}

\* session::mark_broken, which also fails the queued rows.
Broken(r) == [r EXCEPT !.session = "broken", !.outbox = {}]

\* What libsignal and classify_signal_error make of a frame: an identity that
\* is not the pinned one and a session without keys are beyond repair.
Verdict(e, a, r, trusted) ==
  CASE r.session = "broken" -> "refused"
    [] r.session # "broken" /\ (~trusted \/ "keys" \notin left[e][a]) -> "breaks"
    [] OTHER -> "read"

\* session::decrypt and, the process living on, the handler.
Decrypt(e, a, k, trusted) ==
  LET r == row[e][a]
      read == [Did(e, a, r) EXCEPT !.row.heard = TRUE, !.row.intro = FALSE]
  IN CASE Verdict(e, a, r, trusted) = "refused" -> {Did(e, a, r)}
       [] Verdict(e, a, r, trusted) = "breaks" -> {Did(e, a, Broken(r))}
       [] OTHER -> {Dead(read)} \cup Handle(e, a, read, k)

\* One of the outcomes the bounds allow becomes the next state; up is what
\* the handler has hosted by then, and read the frames it has read.
Take(e, a, outcomes, p, up, read) ==
  \E d \in outcomes :
    /\ crashes' = crashes + (IF d.died THEN 1 ELSE 0)
    /\ faults' = faults + (IF d.failed THEN 1 ELSE 0)
    /\ crashes' + faults' <= MaxMishaps
    /\ row' = [row EXCEPT ![e][a] = d.row]
    /\ left' = [left EXCEPT ![e][a] = d.left]
    /\ hosted' = IF d.died THEN Rebooted(e, a, row'[e], p)
                 ELSE IF d.gone THEN [up EXCEPT ![ServiceOf(e, a)] = "off"]
                 ELSE up
    /\ pending' = p
    /\ wire' = {f \in (wire \ read) \cup d.out :
                  f.to = e /\ f.rel = a /\ row[e][a].state # "none"
                    => d.row.state # "none"}

-----------------------------------------------------------------------------
(* Receiving *)

\* The row that load_relationship_by_service finds.
AtService_AnyRow(s) == {a \in Accepters : row["host"][a].state # "none"}
AtService(s) == {a \in Accepters : row["host"][a].state # "none" /\ scanned[a] = s}

Requests == {a \in Accepters : row["host"][a].state = "request"}
Rows == {a \in Accepters : row["host"][a].state # "none"}

\* ingest_intro goes ahead: the pending persona is there and the bucket of
\* requests has room.
IntroPasses(f) ==
  /\ f.to = "host" /\ pending = scanned[f.rel] /\ f.intro /\ persona # 0
  /\ Cardinality(Requests) < MaxRequests

Full == Cardinality(Rows) >= MaxRelationships

\* The persona has moved to the relationship; then the row is made.
Moved(a) == [Did("host", a, NoRow) EXCEPT !.left = {"keys"}]
Made(a) == [Did("host", a, [NoRow EXCEPT !.state = "request", !.heard = TRUE])
              EXCEPT !.left = Stored]

\* The frame does not decrypt: the persona moves back, the offer stands.
IntroUnread_NotRestored(f) ==
  /\ IntroPasses(f)
  /\ Take("host", f.rel, {[Moved(f.rel) EXCEPT !.failed = TRUE]}, pending, hosted, {})
  /\ persona' = 0
  /\ UNCHANGED <<issued, scanned, capped>>

IntroUnread(f) ==
  /\ IntroPasses(f)
  /\ Take("host", f.rel, {[Did("host", f.rel, NoRow) EXCEPT !.failed = TRUE]},
          pending, hosted, {})
  /\ UNCHANGED <<issued, persona, scanned, capped>>

\* MAX_RELATIONSHIPS or a crash ends it after the move, or a crash after the
\* row: what was done stays, and the offer's row with it.
IntroCut(f) ==
  /\ IntroPasses(f)
  /\ Take("host", f.rel,
          {Dead(Moved(f.rel))} \cup IF Full THEN {Moved(f.rel)} ELSE {Dead(Made(f.rel))},
          pending, hosted, {f})
  /\ persona' = 0 /\ capped' = (capped \/ crashes' = crashes)
  /\ UNCHANGED <<issued, scanned>>

\* The request is made, the offer deleted and, if install_client_auth does
\* not fail, the first message handled.
IntroMade(f) ==
  /\ IntroPasses(f) /\ ~Full
  /\ Take("host", f.rel,
          {[Made(f.rel) EXCEPT !.failed = TRUE], Dead(Made(f.rel))}
            \cup Handle("host", f.rel, Made(f.rel), f.kind),
          0, hosted, {f})
  /\ persona' = 0
  /\ UNCHANGED <<issued, scanned, capped>>

\* is_trusted_identity: everybody who scans a code speaks to the same service,
\* but the contact's session knows one of them.
Trusted(b, f) == b = f.rel

\* ingest_frame at the service of a contact.
HostReceives(f) ==
  /\ f.to = "host" /\ pending # scanned[f.rel]
  /\ \E b \in AtService(scanned[f.rel]) :
       Take("host", b, Decrypt("host", b, f.kind, Trusted(b, f)), pending, hosted, {f})
  /\ UNCHANGED <<issued, persona, scanned, capped>>

PeerReceives(f) ==
  /\ f.to = "peer" /\ row["peer"][f.rel].state # "none"
  /\ Take("peer", f.rel, Decrypt("peer", f.rel, f.kind, TRUE), pending, hosted, {f})
  /\ UNCHANGED <<issued, persona, scanned, capped>>

Receive(f) ==
  IntroUnread(f) \/ IntroCut(f) \/ IntroMade(f) \/ HostReceives(f) \/ PeerReceives(f)

-----------------------------------------------------------------------------
(* The user's decisions, and the sweep *)

\* accept_request: the service is restricted, the row goes active, the burst
\* follows.  Nothing asks whether the row is closing.
AcceptRequest(a) ==
  LET r == row["host"][a]
      active == Did("host", a, [r EXCEPT !.state = "active"])
  IN
  /\ r.state = "request"
  /\ Take("host", a, {Dead(active)} \cup Activate("host", a, active), pending,
          [hosted EXCEPT ![scanned[a]] = a], {})
  /\ UNCHANGED <<issued, persona, scanned, capped>>

\* close_contact: enter_closing, then DELETE_ALL and CONTACT_CLOSE.  A crash
\* before close_started_at is written leaves the age of the row to decide.
CloseContact(e, a) ==
  LET r == row[e][a]
      closing == Did(e, a, [r EXCEPT !.closing = TRUE, !.mute = ~MaySend(e, r, "close")])
  IN
  /\ r.state # "none" /\ ~r.closing
  /\ Take(e, a, {Dead(closing), Dead([closing EXCEPT !.row.late = TRUE])}
                  \cup Says(e, a, closing, "close"), pending, hosted, {})
  /\ UNCHANGED <<issued, persona, scanned, capped>>

\* CLOSE_SETTLE_SECS pass; told apart only while records wait.
SettleWindowEnds(e, a) ==
  /\ row[e][a].closing /\ ~row[e][a].late /\ row[e][a].outbox # {}
  /\ row' = [row EXCEPT ![e][a].late = TRUE]
  /\ UNCHANGED <<issued, pending, persona, scanned, left, hosted, wire,
                 crashes, faults, capped>>

\* Engine::sweep, for one row: burned once settled or late.
Due(r) == r.closing /\ (r.outbox = {} \/ r.late)

Sweep(e, a) ==
  /\ Due(row[e][a])
  /\ Take(e, a, Burn(Did(e, a, row[e][a])), pending, hosted, {})
  /\ UNCHANGED <<issued, persona, scanned, capped>>

Next ==
  \/ Offer \/ ClearOffer
  \/ \E a \in Accepters : AcceptRequest(a) \/ Hello(a) \/ \E c \in Codes : Accept(a, c)
  \/ \E f \in wire : Receive(f)
  \/ \E e \in Ends : Unlock(e)
  \/ \E e \in Ends, a \in Accepters :
       Drain(e, a) \/ CloseContact(e, a) \/ SettleWindowEnds(e, a) \/ Sweep(e, a)

Spec == Init /\ [][Next]_vars

-----------------------------------------------------------------------------
(* Properties *)

TypeOK ==
  /\ issued \in 0..MaxOffers
  /\ pending \in 0..MaxOffers
  /\ persona \in 0..MaxOffers /\ scanned \in [Accepters -> 0..MaxOffers]
  /\ row \in [Ends -> [Accepters ->
       [state : {"none", "request", "active"}, session : {"active", "broken"},
        intro : BOOLEAN, activated : BOOLEAN, closing : BOOLEAN, late : BOOLEAN,
        mute : BOOLEAN, heard : BOOLEAN, sent : SUBSET Kinds,
        outbox : SUBSET Kinds]]]
  /\ left \in [Ends -> [Accepters -> SUBSET Stored]]
  /\ crashes + faults \in 0..MaxMishaps /\ capped \in BOOLEAN

\* An offer is whole: its row is there exactly when its persona is, so a
\* frame at the invitation can always be read and a new offer can always be
\* made.  Holds unless a crash or MAX_RELATIONSHIPS cut ingest_intro short.
OfferIsWhole == crashes = 0 /\ ~capped => pending = persona

\* A service anybody may reach belongs to the open offer or to a request not
\* yet answered, unless removing it failed or a crash came in between.
OpenIsInvited ==
  crashes = 0 /\ faults = 0 =>
    \A s \in Codes : hosted[s] = "open" =>
      pending = s \/ \E a \in AtService(s) : row["host"][a].state = "request"

\* A session breaks only when a second device scanned the code the contact
\* was made from, unless a crash left the row without its keys.
BreaksOnlyByRescan ==
  crashes = 0 =>
    \A e \in Ends, a \in Accepters : row[e][a].session = "broken" =>
      \E b \in Accepters \ {a} : scanned[b] = scanned[a]

\* An active inviter and an accepter that has heard from it have each made
\* their activation burst, which carries the caps: without a crash no contact
\* stays mute.  A session that broke first, or a closing row, is excused.
BurstFollows ==
  crashes = 0 =>
    \A e \in Ends, a \in Accepters :
      LET r == row[e][a] IN
      /\ IF e = "host" THEN r.state = "active" ELSE r.heard
      /\ r.session = "active" /\ ~r.closing
      => "burst" \in r.sent

\* Where there is no row there is no ledger, and but for a crash or a refused
\* INTRO no session keys: burn deletes the row last, so that a crash in the
\* middle leaves a row to burn again.
BurnedIsGone ==
  \A e \in Ends, a \in Accepters : row[e][a].state = "none" =>
    /\ "ledger" \notin left[e][a]
    /\ crashes = 0 /\ ~capped => left[e][a] = {}

\* A closing contact that could still speak is burned only after its
\* CONTACT_CLOSE was written to the peer, or the settle window passed.
CloseIsTold ==
  [][\A e \in Ends, a \in Accepters :
       LET r == row[e][a] IN
       /\ r.closing /\ row'[e][a].state = "none" /\ crashes = 0 /\ ~r.late
       => r.mute \/ r.session = "broken" \/ "close" \in r.sent \ r.outbox]_vars

=============================================================================
