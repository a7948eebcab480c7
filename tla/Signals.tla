------------------------------ MODULE Signals ------------------------------
(***************************************************************************)
(* What a client shows of a peer besides messages: a typing indicator, a   *)
(* presence dot, a profile.  A device signals to one of its peers, which   *)
(* keeps its tables and its client's view; the other relationships matter  *)
(* only to the loops that go over all of them.                             *)
(*   src/crates/core/src/typing, presence, profile, caps, engine           *)
(*                                                                         *)
(* A tick is a second and all times are relative, so that time has no      *)
(* bound.  Delivery carries the frames: each is handled once, in any       *)
(* order, and one the caps gate or a closing relationship drops is not     *)
(* noted, so that resync sends it again: it stays on its way.              *)
(***************************************************************************)
EXTENDS Naturals

CONSTANTS
  TypingTtl, SendInterval, PresenceTtl,  \* in ticks
  Latency,   \* of frames that are prompt, in ticks
  MaxSends,  \* bound: calls that send
  MaxTurns   \* bound: changes of a gate

\* TYPING_SEND_INTERVAL_SECS leaves a frame that is prompt the time to come
\* before TYPING_TTL_SECS is over: 3, 5 and, in between, a second.
ASSUME TimesAssumption ==
  /\ TypingTtl \in Nat /\ SendInterval \in Nat /\ PresenceTtl \in Nat /\ Latency \in Nat
  /\ SendInterval + Latency < TypingTtl

VARIABLES
  here,      \* what gate_outbound reads on our side
  there,     \* what the peer reads of us
  older,     \* the kinds that some older relationship of ours refuses
  hold,      \* ticks until typing may be sent again
  own,       \* our profile: the edits its name and its picture are of
  mail,      \* frames on the way
  typing,    \* the peer's entry: none, or lit for so many ticks
  presence,  \* the peer's entry: none, or flags and how long they are fresh
  profile,   \* the peer's row of profiles
  shown,     \* what the events told the peer's client
  sends, turns,
  late,      \* history: a stop arrived between expiry and sweep
  smooth,    \* history: typing goes on and its frames are prompt
  torn,      \* history: a death cut an edit of the profile in two
  latest,    \* history: the last profile sent
  overtaken  \* history: a profile arrived after the last one sent

signals == <<here, there, older, hold, own, mail, typing, presence, profile, shown, sends, turns,
             late, smooth, torn, latest, overtaken>>
gates == <<here, there, older, turns>>
indicators == <<hold, typing, presence, shown, late, smooth>>
profiles == <<own, profile, torn, latest, overtaken>>

Dark == [there |-> FALSE, left |-> 0]
NoBeat == [there |-> FALSE, in |-> FALSE, dnd |-> FALSE, left |-> 0]
NoProfile == [name |-> 0, jpeg |-> 0, n |-> 0]
Nobody == [typing |-> FALSE, in |-> FALSE, dnd |-> FALSE]

SignalsInit ==
  /\ \E known \in BOOLEAN :  \* a RESYNC_REQ each way came before, or is to come
       /\ here = [broken |-> FALSE, closing |-> FALSE, caps |-> known, wants |-> TRUE]
       /\ there = [closing |-> FALSE, caps |-> known, wants |-> TRUE]
  /\ older = {} /\ hold = 0 /\ own = [name |-> 0, jpeg |-> 0] /\ mail = {}
  /\ typing = Dark /\ presence = NoBeat /\ profile = NoProfile /\ shown = Nobody
  /\ sends = 0 /\ turns = 0
  /\ late = FALSE /\ smooth = FALSE /\ torn = FALSE /\ latest = NoProfile /\ overtaken = FALSE

-----------------------------------------------------------------------------
(* Sending *)

Ephemeral == {"typing", "presence"}

\* caps::allows: the profile is baseline.
Allows(caps, kind) == kind \in Ephemeral => caps

GateOutbound(kind) ==
  /\ ~here.broken /\ ~here.closing
  /\ Allows(here.caps, kind)
  /\ kind \in Ephemeral => here.wants

\* A loop over the relationships, oldest first, ends at the first that refuses.
Reached(kind) == kind \notin older /\ GateOutbound(kind)

Call == sends < MaxSends /\ sends' = sends + 1

\* send_envelope of a kind that was or was not let through.
Posts(ok, kind, a, b) ==
  mail' = IF ok THEN mail \cup {[kind |-> kind, a |-> a, b |-> b, n |-> sends + 1, age |-> 0]} ELSE mail

\* TypingTable::should_send and note_sent
MayType == hold = 0
NoteSent == hold' = SendInterval

\* send_typing: a start is throttled, and noted as sent before the gate; a stop
\* always goes.
SendTyping(on) ==
  /\ Call
  /\ IF on THEN MayType /\ NoteSent ELSE UNCHANGED hold
  /\ Posts(GateOutbound("typing"), "typing", on, FALSE)
  /\ smooth' = (smooth /\ on /\ GateOutbound("typing"))
  /\ UNCHANGED <<typing, presence, shown, late, gates, profiles>>

\* SChat::send_presence
SendPresence(in, dnd) ==
  /\ Call /\ Posts(Reached("presence"), "presence", in, dnd)
  /\ UNCHANGED <<gates, indicators, profiles>>

\* set_our_profile, of a name and a picture the wire accepts: two settings.
SetOurProfile ==
  /\ Call /\ own' = [name |-> sends + 1, jpeg |-> sends + 1]
  /\ UNCHANGED <<mail, profile, torn, latest, overtaken, gates, indicators>>

\* The process dies between the two, and loses the throttle with its RAM.
DieSetting ==
  /\ Call /\ own' = [own EXCEPT !.name = sends + 1] /\ torn' = TRUE
  /\ hold' = 0
  /\ UNCHANGED <<mail, typing, presence, shown, late, smooth, profile, latest, overtaken, gates>>

\* broadcast_profile, and send_profile to each.
BroadcastProfile ==
  /\ Call /\ own.name > 0
  /\ Posts(Reached("profile"), "profile", own.name, own.jpeg)
  /\ latest' = IF Reached("profile")
                 THEN [name |-> own.name, jpeg |-> own.jpeg, n |-> sends + 1] ELSE latest
  /\ UNCHANGED <<own, profile, torn, overtaken, gates, indicators>>

-----------------------------------------------------------------------------
(* Receiving: handle_plaintext *)

Takes(m) ==
  /\ Allows(there.caps, m.kind) /\ ~there.closing
  /\ mail' = mail \ {m}
  /\ UNCHANGED sends

\* The peer's policy, or its rate for what is ephemeral, refuses.
Ignore(m) ==
  /\ Takes(m) /\ m.kind \in Ephemeral
  /\ smooth' = FALSE
  /\ UNCHANGED <<hold, typing, presence, shown, late, gates, profiles>>

\* is_typing
Lit == typing.there /\ typing.left > 0

\* As it would be if an indicator that is lit were not refreshed.
NoteTyping_Once(on) ==
  IF ~on THEN Dark ELSE IF Lit THEN typing ELSE [there |-> TRUE, left |-> TypingTtl]

\* TypingTable::note
NoteTyping(on) == IF on THEN [there |-> TRUE, left |-> TypingTtl] ELSE Dark

\* An event only when the indicator changes, as is_typing has it.
ReceiveTyping(m) ==
  /\ Takes(m) /\ m.kind = "typing" /\ there.wants
  /\ typing' = NoteTyping(m.a)
  /\ shown' = IF Lit # m.a THEN [shown EXCEPT !.typing = m.a] ELSE shown
  /\ late' = (~m.a /\ ~Lit /\ shown.typing)
  /\ smooth' = (m.a /\ (smooth \/ \A x \in mail' : x.kind = "typing" => x.a))
  /\ UNCHANGED <<hold, presence, gates, profiles>>

\* PresenceTable::note: an event unless the flags are those of the entry.
ReceivePresence(m) ==
  /\ Takes(m) /\ m.kind = "presence" /\ there.wants
  /\ presence' = [there |-> TRUE, in |-> m.a, dnd |-> m.b, left |-> PresenceTtl]
  /\ shown' = IF presence.there /\ presence.in = m.a /\ presence.dnd = m.b THEN shown
              ELSE [shown EXCEPT !.in = m.a, !.dnd = m.b]
  /\ UNCHANGED <<hold, typing, late, smooth, gates, profiles>>

\* As it would be if a profile with the same name were taken for the same.
ApplyInbound_ByName(m) ==
  IF profile.name = m.a THEN profile ELSE [name |-> m.a, jpeg |-> m.b, n |-> m.n]

\* apply_inbound: whatever differs from the row replaces it.
ApplyInbound(m) == [name |-> m.a, jpeg |-> m.b, n |-> m.n]

ReceiveProfile(m) ==
  /\ Takes(m) /\ m.kind = "profile"
  /\ profile' = ApplyInbound(m)
  /\ overtaken' = (m.n # latest.n /\ (overtaken \/ m.n < profile.n))
  /\ UNCHANGED <<own, torn, latest, gates, indicators>>

-----------------------------------------------------------------------------
(* Time, the sweeps of the drain loop, and what turns a gate *)

Less(n) == IF n = 0 THEN 0 ELSE n - 1

Tick ==
  /\ hold' = Less(hold)
  /\ typing' = [typing EXCEPT !.left = Less(@)]
  /\ presence' = [presence EXCEPT !.left = Less(@)]
  /\ mail' = {[m EXCEPT !.age = IF @ > Latency THEN @ ELSE @ + 1] : m \in mail}
  /\ smooth' = (smooth /\ hold > 0 /\ \A m \in mail : m.kind = "typing" => m.age < Latency)
  /\ UNCHANGED <<shown, sends, late, gates, profiles>>

\* As it would be if a peer who is not to be disturbed decayed in silence.
Decays_QuietDnd == presence.there /\ presence.left = 0 /\ presence.in /\ ~presence.dnd

\* PresenceTable::sweep reports only who was in the app.
Decays == presence.there /\ presence.left = 0 /\ presence.in

\* TypingTable::sweep
Fades == typing.there /\ typing.left = 0

\* The two sweeps: what is stale leaves, with an event.
Sweep ==
  LET stale == presence.there /\ presence.left = 0 IN
  /\ Fades \/ stale
  /\ typing' = IF Fades THEN Dark ELSE typing
  /\ presence' = IF stale THEN NoBeat ELSE presence
  /\ shown' = [typing |-> shown.typing /\ ~Fades, in |-> shown.in /\ ~Decays, dnd |-> shown.dnd /\ ~Decays]
  /\ UNCHANGED <<hold, mail, sends, late, smooth, gates, profiles>>

\* The peer's engine ends: a lock, a restart, or a burn of the relationship.
Forget ==
  /\ turns < MaxTurns /\ turns' = turns + 1
  /\ typing' = Dark /\ presence' = NoBeat /\ shown' = Nobody
  /\ late' = FALSE /\ smooth' = FALSE
  /\ UNCHANGED <<here, there, older, hold, mail, sends, profiles>>

\* A RESYNC_REQ brings the caps, a rescan a session, a chat policy the wants,
\* a close a closing state, on our side, on the peer's or in an older
\* relationship.
Turn ==
  /\ turns < MaxTurns /\ turns' = turns + 1
  /\ \/ /\ here' \in {[here EXCEPT !.caps = TRUE], [here EXCEPT !.closing = TRUE],
                      [here EXCEPT !.broken = ~@], [here EXCEPT !.wants = ~@]}
        /\ UNCHANGED <<there, older>>
     \/ /\ there' \in {[there EXCEPT !.caps = TRUE], [there EXCEPT !.closing = TRUE],
                       [there EXCEPT !.wants = ~@]}
        /\ UNCHANGED <<here, older>>
     \/ /\ older' \in {{}, {"presence"}, {"presence", "profile"}}
        /\ UNCHANGED <<here, there>>
  /\ smooth' = FALSE
  /\ UNCHANGED <<hold, mail, typing, presence, shown, sends, late, profiles>>

SignalsNext ==
  \/ SendTyping(TRUE) \/ SendTyping(FALSE)
  \/ \E in, dnd \in BOOLEAN : SendPresence(in, dnd)
  \/ SetOurProfile \/ DieSetting \/ BroadcastProfile
  \/ \E m \in mail : ReceiveTyping(m) \/ ReceivePresence(m) \/ ReceiveProfile(m) \/ Ignore(m)
  \/ Tick \/ Sweep \/ Forget \/ Turn

SignalsSpec == SignalsInit /\ [][SignalsNext]_signals

\* Time passes, and the drain loop of the peer comes round.
SignalsFairness == WF_signals(Tick) /\ WF_signals(Sweep)

-----------------------------------------------------------------------------
(* Properties *)

(* What is shown of a peer who fell silent goes out by itself: a typing    *)
(* indicator and a presence dot that are lit are followed by an event that *)
(* turns them off.  Excluded is a stop that arrives after the indicator    *)
(* expired and before the sweep: note finds it dark already and removes    *)
(* the entry, and neither reports it (TypingTable and PresenceTable).      *)
IndicatorsFade ==
  /\ shown.typing ~> (~shown.typing \/ late)
  /\ shown.in ~> ~shown.in

(* While a user types on, the peer's indicator never goes dark between two *)
(* frames: the throttle of the sender, the way of a prompt frame and the   *)
(* lifetime at the receiver fit together (should_send, note, sweep).       *)
NoFlicker == smooth => Lit /\ shown.typing

(* Once every profile sent has arrived, the peer has the last one, unless  *)
(* an earlier one arrived after it; and its name and picture are of one    *)
(* edit unless a death cut the edit in two (apply_inbound, put_profile,    *)
(* set_our_profile).                                                       *)
ProfileConverges ==
  /\ (~overtaken /\ \A m \in mail : m.kind # "profile") => profile = latest
  /\ profile.name # profile.jpeg => torn
=============================================================================
