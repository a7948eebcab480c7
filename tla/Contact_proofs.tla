--------------------------- MODULE Contact_proofs ---------------------------
(***************************************************************************)
(* The life of a contact, for every number of devices, codes and mishaps.  *)
(*   src/crates/core/src/{pairing/*,engine/lifecycle.rs,close/mod.rs,      *)
(*   engine/burn.rs}                                                       *)
(*                                                                         *)
(* The invariant says of every row what is stored and was sent with it     *)
(* (RowFits), and that no row belongs to the open offer.  Most handlers    *)
(* change one row: they choose one of the outcomes the code may have       *)
(* (Take), so each outcome is shown to fit (Fine), and what one outcome    *)
(* makes of the state is shown once (TookKeeps).                           *)
(***************************************************************************)
EXTENDS Contact, TLAPS

\* A leaf is for Zenon unless it names another prover.
USE Zenon

-----------------------------------------------------------------------------
(* The inductive invariant *)

RowType ==
  [state : {"none", "request", "active"}, session : {"active", "broken"},
   intro : BOOLEAN, activated : BOOLEAN, closing : BOOLEAN, late : BOOLEAN,
   mute : BOOLEAN, heard : BOOLEAN, sent : SUBSET Kinds, outbox : SUBSET Kinds]
Frames == [to : Ends, rel : Accepters, kind : Kinds, intro : BOOLEAN]
Auths == {"off", "open", "host"} \cup Accepters

ContactTypeOK ==
  /\ issued \in Nat /\ pending \in 0..issued /\ persona \in 0..issued /\ issued <= MaxOffers
  /\ scanned \in [Accepters -> 0..issued]
  /\ row \in [Ends -> [Accepters -> RowType]]
  /\ left \in [Ends -> [Accepters -> SUBSET Stored]]
  /\ hosted \in [Codes \cup Accepters -> Auths]
  /\ wire \in SUBSET Frames
  /\ crashes \in Nat /\ faults \in Nat /\ capped \in BOOLEAN

\* A row and what is stored with it; calm: no device has crashed.
RowFits(e, r, l, calm) ==
  /\ r.state = "none" => r = NoRow /\ "ledger" \notin l
  /\ calm =>
       /\ r.state # "none" => l = Stored
       /\ e = "host" /\ r.state = "active" /\ r.session = "active" /\ ~r.closing
            => "burst" \in r.sent
       /\ e = "peer" /\ r.heard /\ ~r.closing => r.activated
       /\ e = "peer" /\ r.activated => "burst" \in r.sent
       /\ r.closing /\ ~r.mute => "close" \in r.sent

\* Every row fits and its device scanned a code; what is said of the rows of the
\* open offer; and the three properties that are part of the induction.
ContactInv ==
  /\ ContactTypeOK
  /\ \A e \in Ends, a \in Accepters :
       /\ RowFits(e, row[e][a], left[e][a], crashes = 0)
       /\ row[e][a].state # "none" => scanned[a] # 0
       /\ row[e][a].state = "none" /\ crashes = 0 /\ ~capped => left[e][a] = {}
  /\ \A a \in Accepters : row["host"][a].state # "none" => persona = 0 \/ pending # scanned[a]
  /\ \A f \in wire : scanned[f.rel] # 0
  /\ crashes = 0 => persona = 0 \/ persona = pending
  /\ OfferIsWhole /\ OpenIsInvited /\ BreaksOnlyByRescan

-----------------------------------------------------------------------------
(* Rows and outcomes *)

DidType ==
  [row : RowType, left : SUBSET Stored, out : SUBSET Frames, gone : BOOLEAN,
   died : BOOLEAN, failed : BOOLEAN]

\* The columns of a relationships row.
LEMMA Fields ==
  ASSUME NEW r \in RowType
  PROVE  /\ r.state \in {"none", "request", "active"} /\ r.session \in {"active", "broken"}
         /\ r.intro \in BOOLEAN /\ r.activated \in BOOLEAN /\ r.closing \in BOOLEAN
         /\ r.late \in BOOLEAN /\ r.mute \in BOOLEAN /\ r.heard \in BOOLEAN
         /\ r.sent \in SUBSET Kinds /\ r.outbox \in SUBSET Kinds
BY DEF RowType

\* The parts of an outcome.
LEMMA DidFields ==
  ASSUME NEW d \in DidType
  PROVE  /\ d.row \in RowType /\ d.left \in SUBSET Stored /\ d.out \in SUBSET Frames
         /\ d.gone \in BOOLEAN /\ d.died \in BOOLEAN /\ d.failed \in BOOLEAN
BY DEF DidType

\* No row: nothing was heard, sent or queued.
LEMMA NoRowFacts ==
  /\ NoRow \in RowType /\ NoRow.state = "none" /\ NoRow.session = "active"
  /\ ~NoRow.closing /\ ~NoRow.activated /\ ~NoRow.heard /\ NoRow.sent = {} /\ NoRow.outbox = {}
BY DEF RowType, NoRow

\* Two rows that differ at most in what waits in the outbox and in what was sent.
Alike(x, r) ==
  /\ x.state = r.state /\ x.session = r.session /\ x.closing = r.closing
  /\ x.activated = r.activated /\ x.heard = r.heard /\ x.mute = r.mute /\ x.late = r.late

\* Likeness of rows goes through a third row.
LEMMA AlikeTwice ==
  ASSUME NEW x, NEW y, NEW z, Alike(x, y), Alike(y, z)  PROVE Alike(x, z)
BY DEF Alike

\* Making an envelope changes what was sent only.
LEMMA SetSent ==
  ASSUME NEW r \in RowType, NEW k \in Kinds, NEW x, x = [r EXCEPT !.sent = @ \cup {k}]
  PROVE  x \in RowType /\ Alike(x, r) /\ x.sent = r.sent \cup {k} /\ x.outbox = r.outbox
BY DEF RowType, Alike

\* Queueing or writing a record changes the outbox only.
LEMMA SetOutbox ==
  ASSUME NEW r \in RowType, NEW o \in SUBSET Kinds, NEW x, x = [r EXCEPT !.outbox = o]
  PROVE  x \in RowType /\ Alike(x, r) /\ x.sent = r.sent /\ x.outbox = o
BY DEF RowType, Alike

\* accept_request writes the state only.
LEMMA SetState ==
  ASSUME NEW r \in RowType, NEW x, x = [r EXCEPT !.state = "active"]
  PROVE  /\ x \in RowType /\ x.state = "active" /\ x.session = r.session
         /\ x.closing = r.closing /\ x.activated = r.activated /\ x.heard = r.heard
         /\ x.mute = r.mute /\ x.sent = r.sent /\ x.outbox = r.outbox
BY DEF RowType

\* The end of the settle window changes nothing else of the row.
LEMMA SetLate ==
  ASSUME NEW r \in RowType, NEW x, x = [r EXCEPT !.late = TRUE]
  PROVE  /\ x \in RowType /\ x.state = r.state /\ x.session = r.session
         /\ x.closing = r.closing /\ x.activated = r.activated /\ x.heard = r.heard
         /\ x.mute = r.mute /\ x.sent = r.sent
BY DEF RowType

\* mark_broken breaks the session and empties the outbox.
LEMMA SetBroken ==
  ASSUME NEW r \in RowType
  PROVE  /\ Broken(r) \in RowType /\ Broken(r).state = r.state /\ Broken(r).session = "broken"
         /\ Broken(r).closing = r.closing /\ Broken(r).activated = r.activated
         /\ Broken(r).heard = r.heard /\ Broken(r).mute = r.mute /\ Broken(r).sent = r.sent
BY DEF RowType, Broken

\* A frame was read.
Heard(d) == [d EXCEPT !.row.heard = TRUE, !.row.intro = FALSE]

\* Reading a frame keeps what was sent, stored and decided.
LEMMA SetHeard ==
  ASSUME NEW d \in DidType
  PROVE  /\ Heard(d) \in DidType /\ Heard(d).row.heard
         /\ Heard(d).row.state = d.row.state /\ Heard(d).row.session = d.row.session
         /\ Heard(d).row.closing = d.row.closing /\ Heard(d).row.mute = d.row.mute
         /\ Heard(d).row.activated = d.row.activated /\ Heard(d).row.sent = d.row.sent
         /\ Heard(d).left = d.left /\ Heard(d).out = d.out /\ Heard(d).died = d.died
BY DEF Heard, DidType, RowType

\* activation_sent was set.
Marked(d) == [d EXCEPT !.row.activated = TRUE]

\* Setting activation_sent keeps the rest of the row.
LEMMA SetActivated ==
  ASSUME NEW d \in DidType
  PROVE  /\ Marked(d) \in DidType /\ Marked(d).row.activated
         /\ Marked(d).row.state = d.row.state /\ Marked(d).row.session = d.row.session
         /\ Marked(d).row.closing = d.row.closing /\ Marked(d).row.mute = d.row.mute
         /\ Marked(d).row.sent = d.row.sent
         /\ Marked(d).left = d.left /\ Marked(d).out = d.out /\ Marked(d).died = d.died
BY DEF Marked, DidType, RowType

\* A crash changes nothing of what was done before it.
LEMMA SetDead ==
  ASSUME NEW d \in DidType
  PROVE  /\ Dead(d) \in DidType /\ Dead(d).died /\ Dead(d).row = d.row
         /\ Dead(d).left = d.left /\ Dead(d).out = d.out /\ Dead(d).gone = d.gone
         /\ Dead(d).failed = d.failed
BY DEF DidType, Dead

\* A frame is of the relationship it is written for.
LEMMA FrameFacts ==
  ASSUME NEW e \in Ends, NEW a \in Accepters, NEW k \in Kinds, NEW r \in RowType
  PROVE  Frame(e, a, k, r) \in Frames /\ Frame(e, a, k, r).rel = a
<1>1. Other(e) \in Ends  BY DEF Other, Ends
<1>2. r.intro \in BOOLEAN  BY Fields
<1> QED  BY <1>1, <1>2 DEF Frame, Frames

\* send_envelope: what gate_outbound lets through is made, and nothing else of
\* the row changes.
LEMMA SentFacts ==
  ASSUME NEW e \in Ends, NEW a \in Accepters, NEW r \in RowType, NEW k \in Kinds,
         NEW s \in Sent(e, a, r, k)
  PROVE  /\ s[1] \in RowType /\ Alike(s[1], r) /\ r.sent \subseteq s[1].sent
         /\ MaySend(e, r, k) => k \in s[1].sent
         /\ s[2] \in SUBSET Frames /\ \A f \in s[2] : f.rel = a
<1>1. CASE ~MaySend(e, r, k)
  <2>1. s = <<r, {}>>  BY <1>1 DEF Sent
  <2> QED  BY <1>1, <2>1 DEF Alike
<1>2. CASE MaySend(e, r, k)
  <2> DEFINE made == [r EXCEPT !.sent = @ \cup {k}]
             kept == [made EXCEPT !.outbox = @ \cup {k}]
  <2>1. s = <<kept, {}>> \/ s = <<made, {Frame(e, a, k, r)}>>  BY <1>2 DEF Sent
  <2>2. made \in RowType /\ Alike(made, r) /\ made.sent = r.sent \cup {k}  BY SetSent
  <2> HIDE DEF made
  <2>3. made.outbox \cup {k} \in SUBSET Kinds  BY <2>2, Fields
  <2>4. kept = [made EXCEPT !.outbox = made.outbox \cup {k}]  OBVIOUS
  <2>5. PICK x : x = [made EXCEPT !.outbox = made.outbox \cup {k}]  OBVIOUS
  <2>10. kept = x  BY <2>4, <2>5
  <2> HIDE DEF kept
  <2>11. kept \in RowType /\ Alike(kept, made) /\ kept.sent = made.sent
    BY SMTT(60), <2>2, <2>3, <2>5, <2>10, SetOutbox
  <2>6. Alike(kept, r)  BY <2>2, <2>11, AlikeTwice
  <2>7. Frame(e, a, k, r) \in Frames /\ Frame(e, a, k, r).rel = a  BY FrameFacts
  <2>8. CASE s = <<kept, {}>>  BY <2>2, <2>6, <2>8, <2>11
  <2>9. CASE s = <<made, {Frame(e, a, k, r)}>>  BY <2>2, <2>7, <2>9
  <2> QED  BY <2>1, <2>8, <2>9
<1> QED  BY <1>1, <1>2

\* Two outcomes that differ in the row and the frames written only.
Beside(x, d) == x.left = d.left /\ x.gone = d.gone /\ x.died = d.died /\ x.failed = d.failed

\* The same of an outcome that goes on to send.
LEMMA SaysFacts ==
  ASSUME NEW e \in Ends, NEW a \in Accepters, NEW d \in DidType, NEW k \in Kinds,
         \A f \in d.out : f.rel = a, NEW x \in Says(e, a, d, k)
  PROVE  /\ x \in DidType /\ Beside(x, d) /\ \A f \in x.out : f.rel = a
         /\ Alike(x.row, d.row) /\ d.row.sent \subseteq x.row.sent
         /\ MaySend(e, d.row, k) => k \in x.row.sent
<1>1. PICK s \in Sent(e, a, d.row, k) : x = [d EXCEPT !.row = s[1], !.out = @ \cup s[2]]
  BY DEF Says
<1>2. d.row \in RowType  BY DidFields
<1>3. /\ s[1] \in RowType /\ Alike(s[1], d.row) /\ d.row.sent \subseteq s[1].sent
      /\ MaySend(e, d.row, k) => k \in s[1].sent
      /\ s[2] \in SUBSET Frames /\ \A f \in s[2] : f.rel = a
  BY SMT, <1>2, SentFacts
<1>7. d.out \cup s[2] \in SUBSET Frames  BY <1>3, DidFields
<1>4. PICK r \in RowType, o \in SUBSET Frames : r = s[1] /\ o = d.out \cup s[2]
  BY <1>3, <1>7
<1>5. x = [d EXCEPT !.row = r, !.out = o]  BY <1>1, <1>4
<1>6. x \in DidType /\ Beside(x, d) /\ x.row = r /\ x.out = o
  BY <1>5 DEF DidType, Beside
<1> QED  BY <1>3, <1>4, <1>6

\* A handler starts from what is stored.
LEMMA DidFacts ==
  ASSUME ContactInv, NEW e \in Ends, NEW a \in Accepters, NEW r \in RowType
  PROVE  /\ Did(e, a, r) \in DidType /\ Did(e, a, r).row = r
         /\ Did(e, a, r).left = left[e][a] /\ Did(e, a, r).out = {}
         /\ ~Did(e, a, r).gone /\ ~Did(e, a, r).died /\ ~Did(e, a, r).failed
<1>1. left[e][a] \in SUBSET Stored  BY ZenonT(60) DEF ContactInv, ContactTypeOK
<1> QED  BY <1>1 DEF Did, DidType

\* The row that an outcome leaves fits.
Fine(e, a, d) ==
  /\ d \in DidType /\ \A f \in d.out : f.rel = a
  /\ RowFits(e, d.row, d.left, crashes = 0 /\ ~d.died)

\* What an outcome makes of the row r: its state and session stay, or it goes.
After(r, d) ==
  \/ d.row.state = r.state /\ d.row.session = r.session
  \/ d.row = NoRow /\ d.left = {} /\ ~d.died /\ (d.gone \/ d.failed)

\* A crash leaves a row that fits, whatever was deleted before it.
LEMMA DeadFine ==
  ASSUME NEW e \in Ends, NEW a \in Accepters, NEW d \in DidType, \A f \in d.out : f.rel = a,
         d.row.state = "none" => d.row = NoRow /\ "ledger" \notin d.left
  PROVE  Fine(e, a, Dead(d))
BY SetDead DEF Fine, RowFits

\* burn_relationship leaves no row and nothing stored, or, cut by a crash, the
\* row to burn again.
LEMMA BurnFine ==
  ASSUME NEW e \in Ends, NEW a \in Accepters, NEW d \in DidType, \A f \in d.out : f.rel = a,
         ~d.died, d.row.state # "none", NEW x \in Burn(d)
  PROVE  /\ Fine(e, a, x)
         /\ \/ x.row = d.row
            \/ x.row = NoRow /\ x.left = {} /\ ~x.died /\ (x.gone \/ x.failed)
<1> DEFINE off == [d EXCEPT !.gone = TRUE]
           done == [off EXCEPT !.row = NoRow, !.left = {}]
           undone == [done EXCEPT !.gone = FALSE, !.failed = TRUE]
           held(kept) == [off EXCEPT !.left = kept]
<1>1. \/ x = done \/ x = undone
      \/ \E kept \in {Stored, {"ledger"}, {}} : x = Dead(held(kept))
  BY DEF Burn
<1>2. off \in DidType /\ off.row = d.row /\ off.out = d.out /\ off.gone /\ ~off.died
  BY DEF DidType
<1> HIDE DEF off
<1>3. /\ done \in DidType /\ done.row = NoRow /\ done.left = {} /\ done.out = d.out
      /\ done.gone /\ ~done.died
  BY <1>2, NoRowFacts DEF DidType
<1> HIDE DEF done
<1>4. /\ undone \in DidType /\ undone.row = NoRow /\ undone.left = {} /\ undone.out = d.out
      /\ undone.failed /\ ~undone.died
  BY <1>3 DEF DidType
<1> HIDE DEF undone
<1>5. RowFits(e, NoRow, {}, crashes = 0)  BY NoRowFacts DEF RowFits
<1>6. CASE x = done  BY <1>3, <1>5, <1>6, NoRowFacts DEF Fine, RowFits
<1>7. CASE x = undone  BY <1>4, <1>5, <1>7, NoRowFacts DEF Fine, RowFits
<1>8. ASSUME NEW kept \in {Stored, {"ledger"}, {}}, x = Dead(held(kept))
      PROVE  Fine(e, a, x) /\ x.row = d.row
  <2>1. kept \in SUBSET Stored  BY DEF Stored
  <2>2. held(kept) \in DidType /\ held(kept).row = d.row /\ held(kept).out = d.out
    BY <1>2, <2>1 DEF DidType
  <2> QED  BY <1>8, <2>2, DeadFine, SetDead
<1> QED  BY <1>1, <1>6, <1>7, <1>8

\* gate_outbound lets the burst and the close through an active session.
LEMMA SessionReads ==
  ASSUME NEW e \in Ends, NEW r \in RowType, r.session # "broken",
         e = "host" => r.state = "active"
  PROVE  MaySend(e, r, "burst") /\ MaySend(e, r, "close")
BY DEF MaySend

\* handle_plaintext leaves a row that fits: the accepter's burst goes out with
\* activation_sent, and a closing row is not burned.
LEMMA HandleFine ==
  ASSUME NEW e \in Ends, NEW a \in Accepters, NEW d \in DidType, \A f \in d.out : f.rel = a,
         ~d.died, d.row.state # "none", d.row.session # "broken",
         crashes = 0 =>
           /\ d.left = Stored
           /\ e = "host" /\ d.row.state = "active" /\ ~d.row.closing => "burst" \in d.row.sent
           /\ e = "peer" /\ d.row.activated => "burst" \in d.row.sent
           /\ d.row.closing /\ ~d.row.mute => "close" \in d.row.sent,
         NEW k \in Kinds, NEW x \in Handle(e, a, d, k)
  PROVE  Fine(e, a, x) /\ After(d.row, x) /\ (d.row.closing => x.row.state = d.row.state)
<1> DEFINE marked == Marked(d)
           first == e = "peer" /\ ~d.row.activated
           active == IF first THEN Activate(e, a, marked) ELSE {d}
<1>1. /\ marked \in DidType /\ marked.row.state = d.row.state /\ marked.row.activated
      /\ marked.row.session = d.row.session /\ marked.row.closing = d.row.closing
      /\ marked.row.mute = d.row.mute /\ marked.row.sent = d.row.sent /\ marked.out = d.out
      /\ marked.left = d.left /\ marked.died = d.died
  BY SetActivated
<1>2. \/ d.row.closing /\ k # "burst" /\ x = d
      \/ k = "close" /\ ~d.row.closing /\ \E y \in active : x \in Burn(y)
      \/ x \in active /\ ~(d.row.closing /\ k # "burst")
      \/ first /\ x = Dead(marked)
  BY DEF Handle, Marked
<1> HIDE DEF marked
<1>3. d.row \in RowType /\ marked.row \in RowType  BY <1>1, DidFields
<1>4. ASSUME NEW y \in active
      PROVE  /\ Fine(e, a, y) /\ ~y.died /\ y.row.state = d.row.state
             /\ y.row.session = d.row.session
  <2>1. CASE first
    <3>1. y \in Says(e, a, marked, "burst")  BY <1>4, <2>1 DEF Activate
    <3>2. "burst" \in Kinds  BY DEF Kinds
    <3>3. MaySend(e, marked.row, "burst")  BY <1>1, <1>3, <2>1, SessionReads
    <3>4. /\ y \in DidType /\ Beside(y, marked) /\ \A f \in y.out : f.rel = a
          /\ Alike(y.row, marked.row) /\ marked.row.sent \subseteq y.row.sent
          /\ "burst" \in y.row.sent
      BY SMT, <1>1, <3>1, <3>2, <3>3, SaysFacts
    <3>5. RowFits(e, y.row, y.left, crashes = 0 /\ ~y.died)
      BY <1>1, <2>1, <3>4 DEF RowFits, Alike, Beside
    <3> QED  BY <1>1, <3>4, <3>5 DEF Fine, Alike, Beside
  <2>2. CASE ~first
    <3>1. y = d  BY <1>4, <2>2
    <3>2. RowFits(e, d.row, d.left, crashes = 0 /\ ~d.died)  BY <2>2 DEF RowFits, Ends
    <3> QED  BY <3>1, <3>2 DEF Fine
  <2> QED  BY <2>1, <2>2
<1> HIDE DEF active
<1>5. CASE d.row.closing /\ x = d
  BY <1>5 DEF Fine, After, RowFits
<1>6. ASSUME NEW y \in active, x \in Burn(y), ~d.row.closing
      PROVE  Fine(e, a, x) /\ After(d.row, x)
  <2>1. Fine(e, a, y) /\ ~y.died /\ y.row.state = d.row.state /\ y.row.session = d.row.session
    BY <1>4
  <2>2. y \in DidType /\ \A f \in y.out : f.rel = a  BY <2>1 DEF Fine
  <2>3. y.row.state # "none"  BY <2>1
  <2>4. /\ Fine(e, a, x)
        /\ \/ x.row = y.row
           \/ x.row = NoRow /\ x.left = {} /\ ~x.died /\ (x.gone \/ x.failed)
    BY <1>6, <2>1, <2>2, <2>3, BurnFine
  <2> QED  BY <2>1, <2>4 DEF After
<1>7. CASE x \in active  BY <1>4, <1>7 DEF After
<1>8. CASE x = Dead(marked)
  <2>1. Fine(e, a, Dead(marked))  BY <1>1, DeadFine
  <2> QED  BY <1>1, <1>8, <2>1, SetDead DEF After
<1>9. CASE ~d.row.closing /\ \E y \in active : x \in Burn(y)  BY <1>6, <1>9
<1> QED  BY <1>2, <1>4, <1>5, <1>7, <1>8, <1>9, SetDead, <1>1

\* session::decrypt and the handler leave a row that fits; only an identity that
\* is not the pinned one, or keys lost in a crash, break the session.
LEMMA DecryptFine ==
  ASSUME ContactInv, NEW e \in Ends, NEW a \in Accepters, row[e][a].state # "none",
         NEW k \in Kinds, NEW trusted \in BOOLEAN, NEW x \in Decrypt(e, a, k, trusted)
  PROVE  /\ Fine(e, a, x) /\ (row[e][a].closing => x.row.state = row[e][a].state)
         /\ \/ After(row[e][a], x)
            \/ /\ x.row.state = row[e][a].state /\ x.row.session = "broken"
               /\ ~trusted \/ crashes # 0
<1> DEFINE r == row[e][a]
           was == Did(e, a, r)
           read == Heard(was)
<1>1. r \in RowType /\ RowFits(e, r, left[e][a], crashes = 0)
  BY DEF ContactInv, ContactTypeOK
<1> HIDE DEF r
<1>3. \/ x = was
      \/ /\ x = Did(e, a, Broken(r)) /\ (~trusted \/ "keys" \notin left[e][a])
      \/ r.session # "broken" /\ (x = Dead(read) \/ x \in Handle(e, a, read, k))
  <2>1. CASE r.session = "broken"  BY <2>1 DEF Decrypt, Verdict, Heard, r
  <2>2. CASE r.session # "broken" /\ (~trusted \/ "keys" \notin left[e][a])
    BY <2>2 DEF Decrypt, Verdict, Heard, r
  <2>3. CASE r.session # "broken" /\ ~(~trusted \/ "keys" \notin left[e][a])
    BY <2>3 DEF Decrypt, Verdict, Heard, r
  <2> QED  BY <2>1, <2>2, <2>3
<1>2. /\ was \in DidType /\ was.row = r /\ was.left = left[e][a] /\ was.out = {} /\ ~was.died
  <2>1. Did(e, a, r) \in DidType /\ Did(e, a, r).row = r  BY SMT, <1>1, DidFacts
  <2>2. Did(e, a, r).left = left[e][a] /\ Did(e, a, r).out = {}  BY SMT, <1>1, DidFacts
  <2>3. ~Did(e, a, r).died  BY <1>1, DidFacts
  <2> QED  BY <2>1, <2>2, <2>3
<1> HIDE DEF was
<1>4. /\ read \in DidType /\ read.row.heard /\ read.row.state = r.state
      /\ read.row.session = r.session /\ read.row.closing = r.closing
      /\ read.row.activated = r.activated /\ read.row.mute = r.mute
      /\ read.row.sent = r.sent /\ read.left = left[e][a] /\ read.out = {} /\ ~read.died
  BY <1>2, SetHeard
<1> HIDE DEF read
<1>5. CASE x = was  BY <1>1, <1>2, <1>5 DEF Fine, After, r
<1>6. CASE x = Did(e, a, Broken(r)) /\ (~trusted \/ "keys" \notin left[e][a])
  <2>1. /\ Broken(r) \in RowType /\ Broken(r).state = r.state /\ Broken(r).session = "broken"
        /\ Broken(r).closing = r.closing /\ Broken(r).activated = r.activated
        /\ Broken(r).heard = r.heard /\ Broken(r).mute = r.mute /\ Broken(r).sent = r.sent
    BY <1>1, SetBroken
  <2>2. /\ x \in DidType /\ x.row = Broken(r) /\ x.left = left[e][a] /\ x.out = {} /\ ~x.died
    BY ZenonT(60), <1>6, <2>1, DidFacts
  <2>3. r.state # "none"  BY DEF r
  <2>4. RowFits(e, x.row, x.left, crashes = 0 /\ ~x.died)
    BY <1>1, <2>1, <2>2, <2>3 DEF RowFits
  <2>5. crashes = 0 => left[e][a] = Stored  BY <1>1, <2>3 DEF RowFits
  <2>6. ~trusted \/ crashes # 0  BY <1>6, <2>5 DEF Stored
  <2> QED  BY <2>1, <2>2, <2>4, <2>6 DEF Fine, r
<1>7. CASE x = Dead(read)
  <2>1. r.state # "none"  BY DEF r
  <2>2. Fine(e, a, Dead(read))  BY <1>4, <2>1, DeadFine
  <2> QED  BY <1>4, <1>7, <2>2, SetDead DEF After, r
<1>8. CASE r.session # "broken" /\ x \in Handle(e, a, read, k)
  <2>1. r.state # "none"  BY DEF r
  <2>2. crashes = 0 =>
           /\ read.left = Stored
           /\ e = "host" /\ read.row.state = "active" /\ ~read.row.closing
                => "burst" \in read.row.sent
           /\ e = "peer" /\ read.row.activated => "burst" \in read.row.sent
           /\ read.row.closing /\ ~read.row.mute => "close" \in read.row.sent
    <3>1. r.session = "active"  BY <1>1, <1>8, Fields
    <3> QED  BY <1>1, <1>4, <2>1, <3>1 DEF RowFits
  <2>3. \A f \in read.out : f.rel = a  BY <1>4
  <2>4. Fine(e, a, x) /\ After(read.row, x) /\ (read.row.closing => x.row.state = read.row.state)
    BY <1>4, <1>8, <2>1, <2>2, <2>3, HandleFine
  <2> QED  BY <1>4, <2>4 DEF After, r
<1> QED  BY <1>3, <1>5, <1>6, <1>7, <1>8

-----------------------------------------------------------------------------
(* Services *)

Sites == Codes \cup Accepters

\* A service is open to anybody for an unanswered request only.
LEMMA AuthForFacts ==
  ASSUME NEW e \in Ends, NEW a \in Accepters, NEW r
  PROVE  /\ AuthFor(e, a, r) \in Auths
         /\ AuthFor(e, a, r) = "open" => e = "host" /\ r.state = "request"
<1>1. CASE e = "peer"  BY <1>1 DEF AuthFor, Auths
<1>2. CASE e = "host" /\ r.state = "request"  BY <1>2 DEF AuthFor, Auths
<1>3. CASE e = "host" /\ r.state # "request"  BY <1>3, DevicesAreNoCodes DEF AuthFor, Auths
<1> QED  BY <1>1, <1>2, <1>3 DEF Ends

\* restore_services opens the service of the offer and of requests only.
LEMMA RestoredFacts ==
  ASSUME NEW base \in [Sites -> Auths], NEW e \in Ends, NEW rows, NEW p
  PROVE  /\ RestoredFrom(base, e, rows, p) \in [Sites -> Auths]
         /\ \A s \in Sites : RestoredFrom(base, e, rows, p)[s] = "open" =>
              \/ base[s] = "open"
              \/ e = "host" /\ s = p
              \/ \E a \in Accepters : e = "host" /\ rows[a].state = "request" /\ scanned[a] = s
<1> DEFINE Mine(s) == {a \in Accepters : rows[a].state # "none" /\ ServiceOf(e, a) = s}
           One(s) == CHOOSE a \in Mine(s) : TRUE
           auth(s) == IF Mine(s) # {} THEN AuthFor(e, One(s), rows[One(s)])
                      ELSE IF e = "host" /\ s = p THEN "open" ELSE base[s]
<1>1. RestoredFrom(base, e, rows, p) = [s \in Sites |-> auth(s)]  BY DEF RestoredFrom
<1>2. ASSUME NEW s \in Sites, Mine(s) # {}
      PROVE  /\ auth(s) \in Auths
             /\ auth(s) = "open" =>
                  \E a \in Accepters : e = "host" /\ rows[a].state = "request" /\ scanned[a] = s
  <2>1. One(s) \in Mine(s)  BY <1>2
  <2>2. One(s) \in Accepters /\ ServiceOf(e, One(s)) = s  BY <2>1
  <2>3. auth(s) = AuthFor(e, One(s), rows[One(s)])  BY <1>2
  <2> HIDE DEF Mine, One, auth
  <2>4. /\ auth(s) \in Auths
        /\ auth(s) = "open" => e = "host" /\ rows[One(s)].state = "request"
    BY <2>2, <2>3, AuthForFacts
  <2> QED  BY <2>2, <2>4 DEF ServiceOf
<1>3. ASSUME NEW s \in Sites, Mine(s) = {}
      PROVE  auth(s) \in Auths /\ (auth(s) = "open" => base[s] = "open" \/ (e = "host" /\ s = p))
  <2>1. auth(s) = IF e = "host" /\ s = p THEN "open" ELSE base[s]  BY <1>3
  <2>2. base[s] \in Auths /\ "open" \in Auths  BY DEF Auths
  <2> HIDE DEF auth
  <2> QED  BY <2>1, <2>2
<1> HIDE DEF auth, Mine
<1>4. \A s \in Sites : auth(s) \in Auths  BY <1>2, <1>3
<1> QED  BY ZenonT(60), <1>1, <1>2, <1>3, <1>4

\* The services after a restart.
LEMMA RebootedType ==
  ASSUME ContactInv, NEW e \in Ends, NEW a, NEW rows, NEW p
  PROVE  Rebooted(e, a, rows, p) \in [Sites -> Auths]
<1> DEFINE mine == IF e = "host" THEN Codes ELSE {a}
           base == [s \in DOMAIN hosted |-> IF s \in mine THEN "off" ELSE hosted[s]]
<1>1. hosted \in [Sites -> Auths]  BY DEF ContactInv, ContactTypeOK, Sites
<1>2. "off" \in Auths  BY DEF Auths
<1>3. base \in [Sites -> Auths]  BY <1>1, <1>2
<1>4. Rebooted(e, a, rows, p) = RestoredFrom(base, e, rows, p)  BY DEF Rebooted
<1> HIDE DEF base
<1> QED  BY SMT, <1>3, <1>4, RestoredFacts

-----------------------------------------------------------------------------
(* What a handler leaves *)

\* Writing one row leaves the others.
LEMMA SetAt ==
  ASSUME NEW T, NEW f \in [Ends -> [Accepters -> T]], NEW e \in Ends, NEW a \in Accepters,
         NEW x \in T, NEW g, g = [f EXCEPT ![e][a] = x]
  PROVE  /\ g \in [Ends -> [Accepters -> T]] /\ g[e][a] = x
         /\ \A h \in Ends, b \in Accepters : h # e \/ b # a => g[h][b] = f[h][b]
OBVIOUS

\* Only the row of one end changed: it, and what is left with it, are d's.
Took(e, a, d, up) ==
  /\ row' \in [Ends -> [Accepters -> RowType]] /\ left' \in [Ends -> [Accepters -> SUBSET Stored]]
  /\ row'[e][a] = d.row /\ left'[e][a] = d.left
  /\ \A h \in Ends, b \in Accepters :
       h # e \/ b # a => row'[h][b] = row[h][b] /\ left'[h][b] = left[h][b]
  /\ wire' \in SUBSET Frames /\ \A f \in wire' : scanned[f.rel] # 0
  /\ crashes' \in Nat /\ (crashes' = 0 <=> crashes = 0 /\ ~d.died)
  /\ faults' \in Nat /\ (faults' = 0 <=> faults = 0 /\ ~d.failed)
  /\ hosted' \in [Sites -> Auths]
  /\ \A s \in Sites : ~d.died => hosted'[s] = IF d.gone /\ s = ServiceOf(e, a) THEN "off" ELSE up[s]

\* A handler takes one of its outcomes.
LEMMA TakeFacts ==
  ASSUME ContactInv, NEW e \in Ends, NEW a \in Accepters, NEW outs, NEW p,
         NEW up \in [Sites -> Auths], NEW read, scanned[a] # 0,
         \A d \in outs : Fine(e, a, d),
         Take(e, a, outs, p, up, read)
  PROVE  pending' = p /\ \E d \in outs : Took(e, a, d, up)
<1>1. PICK d \in outs :
         /\ crashes' = crashes + (IF d.died THEN 1 ELSE 0)
         /\ faults' = faults + (IF d.failed THEN 1 ELSE 0)
         /\ row' = [row EXCEPT ![e][a] = d.row]
         /\ left' = [left EXCEPT ![e][a] = d.left]
         /\ hosted' = IF d.died THEN Rebooted(e, a, row'[e], p)
                      ELSE IF d.gone THEN [up EXCEPT ![ServiceOf(e, a)] = "off"]
                      ELSE up
         /\ wire' = {f \in (wire \ read) \cup d.out :
                       f.to = e /\ f.rel = a /\ row[e][a].state # "none"
                         => d.row.state # "none"}
  BY DEF Take
<1>2. pending' = p  BY DEF Take
<1>3. /\ row \in [Ends -> [Accepters -> RowType]]
      /\ left \in [Ends -> [Accepters -> SUBSET Stored]]
      /\ wire \in SUBSET Frames /\ (\A f \in wire : scanned[f.rel] # 0)
      /\ crashes \in Nat /\ faults \in Nat /\ scanned[a] \in 0..issued
      /\ issued \in Nat /\ issued <= MaxOffers
  BY DEF ContactInv, ContactTypeOK
<1>4. /\ d.row \in RowType /\ d.left \in SUBSET Stored /\ d.out \in SUBSET Frames
      /\ d.died \in BOOLEAN /\ d.failed \in BOOLEAN /\ \A f \in d.out : f.rel = a
  BY DidFields DEF Fine
<1>5. /\ row' \in [Ends -> [Accepters -> RowType]] /\ row'[e][a] = d.row
      /\ \A h \in Ends, b \in Accepters : h # e \/ b # a => row'[h][b] = row[h][b]
  BY SMT, <1>1, <1>3, <1>4, SetAt
<1>6. /\ left' \in [Ends -> [Accepters -> SUBSET Stored]] /\ left'[e][a] = d.left
      /\ \A h \in Ends, b \in Accepters : h # e \/ b # a => left'[h][b] = left[h][b]
  BY SMT, <1>1, <1>3, <1>4, SetAt
<1>7. wire' \in SUBSET Frames /\ \A f \in wire' : scanned[f.rel] # 0  BY <1>1, <1>3, <1>4
<1>8. crashes' \in Nat /\ (crashes' = 0 <=> crashes = 0 /\ ~d.died)  BY SMT, <1>1, <1>3, <1>4
<1>9. faults' \in Nat /\ (faults' = 0 <=> faults = 0 /\ ~d.failed)  BY SMT, <1>1, <1>3, <1>4
<1>10. ServiceOf(e, a) \in Sites
  <2>1. scanned[a] \in Codes  BY SMT, <1>3, BoundsAreNatural DEF Codes
  <2> QED  BY <2>1 DEF ServiceOf, Sites
<1>11. "off" \in Auths  BY DEF Auths
<1>12. hosted' \in [Sites -> Auths]
  <2>1. CASE d.died  BY <1>1, <2>1, RebootedType
  <2>2. CASE ~d.died /\ d.gone  BY <1>1, <1>10, <1>11, <2>2
  <2>3. CASE ~d.died /\ ~d.gone  BY <1>1, <2>3
  <2> QED  BY <2>1, <2>2, <2>3
<1>13. ASSUME NEW s \in Sites, ~d.died
       PROVE  hosted'[s] = IF d.gone /\ s = ServiceOf(e, a) THEN "off" ELSE up[s]
  BY <1>1, <1>10, <1>13
<1>14. Took(e, a, d, up)
  BY <1>5, <1>6, <1>7, <1>8, <1>9, <1>12, <1>13 DEF Took
<1> QED  BY <1>2, <1>14

\* What is said of each row.
LEMMA TookRows ==
  ASSUME ContactInv, NEW e \in Ends, NEW a \in Accepters, NEW d, NEW up,
         Took(e, a, d, up), Fine(e, a, d), scanned[a] # 0, UNCHANGED <<issued, scanned>>,
         persona' \in 0..issued, pending' \in 0..issued, capped' \in BOOLEAN, capped => capped',
         d.row.state = "none" /\ ~d.died /\ crashes = 0 => d.left = {} \/ capped'
  PROVE  /\ ContactTypeOK'
         /\ \A g \in Ends, b \in Accepters :
              /\ RowFits(g, row[g][b], left[g][b], crashes = 0)'
              /\ row'[g][b].state # "none" => scanned'[b] # 0
              /\ row'[g][b].state = "none" /\ crashes' = 0 /\ ~capped' => left'[g][b] = {}
<1>1. ContactTypeOK'
  BY DEF ContactInv, ContactTypeOK, Took, Sites
<1>2. crashes' = 0 => crashes = 0  BY DEF Took
<1>3. ASSUME NEW g \in Ends, NEW b \in Accepters
      PROVE  /\ RowFits(g, row[g][b], left[g][b], crashes = 0)'
             /\ row'[g][b].state # "none" => scanned'[b] # 0
             /\ row'[g][b].state = "none" /\ crashes' = 0 /\ ~capped' => left'[g][b] = {}
  <2>1. CASE g = e /\ b = a
    <3>1. row'[g][b] = d.row /\ left'[g][b] = d.left /\ (crashes' = 0 <=> crashes = 0 /\ ~d.died)
      BY <2>1 DEF Took
    <3>2. RowFits(e, d.row, d.left, crashes = 0 /\ ~d.died)  BY DEF Fine
    <3>3. RowFits(g, row[g][b], left[g][b], crashes = 0)'  BY <2>1, <3>1, <3>2 DEF RowFits
    <3> QED  BY <2>1, <3>1, <3>3
  <2>2. CASE g # e \/ b # a
    <3>1. row'[g][b] = row[g][b] /\ left'[g][b] = left[g][b]  BY <2>2 DEF Took
    <3>2. /\ RowFits(g, row[g][b], left[g][b], crashes = 0)
          /\ row[g][b].state # "none" => scanned[b] # 0
          /\ row[g][b].state = "none" /\ crashes = 0 /\ ~capped => left[g][b] = {}
      BY DEF ContactInv
    <3>3. RowFits(g, row[g][b], left[g][b], crashes = 0)'  BY <1>2, <3>1, <3>2 DEF RowFits
    <3> QED  BY <1>2, <3>1, <3>2, <3>3
  <2> QED  BY <2>1, <2>2
<1> QED  BY <1>1, <1>3

\* What is said of the services.
LEMMA TookOpen ==
  ASSUME ContactInv, NEW e \in Ends, NEW a \in Accepters, NEW d, NEW up,
         Took(e, a, d, up), UNCHANGED scanned, scanned[a] # 0,
         \A s \in Codes : up[s] = "open" => hosted[s] = "open",
         \/ pending' = pending
         \/ /\ e = "host" /\ scanned[a] = pending
            /\ d.row.state = "request" \/ d.gone \/ d.failed \/ d.died,
         e = "host" /\ row["host"][a].state = "request" =>
           \/ d.row.state = "request" \/ d.gone \/ d.failed \/ d.died
           \/ up[scanned[a]] # "open"
  PROVE  OpenIsInvited'
<1>1. SUFFICES ASSUME crashes' = 0, faults' = 0, NEW s \in Codes, hosted'[s] = "open"
               PROVE  \/ pending' = s
                      \/ \E b \in Accepters : row'["host"][b].state = "request" /\ scanned[b] = s
  BY ZenonT(60) DEF OpenIsInvited, AtService
<1>2. crashes = 0 /\ faults = 0 /\ ~d.died /\ ~d.failed  BY <1>1 DEF Took
<1>3. s \in Sites  BY DEF Sites
<1>4. ~(d.gone /\ s = ServiceOf(e, a)) /\ up[s] = "open"
  BY <1>1, <1>2, <1>3 DEF Took
<1>5. hosted[s] = "open"  BY <1>4
<1>6. \/ pending = s
      \/ \E b \in Accepters : row["host"][b].state = "request" /\ scanned[b] = s
  BY <1>2, <1>5 DEF ContactInv, OpenIsInvited, AtService
<1>7. e = "host" => row'["host"][a] = d.row  BY DEF Took
<1>8. "host" \in Ends  BY DEF Ends
<1>9. CASE pending = s
  <2>1. CASE pending' = pending  BY <1>9, <2>1
  <2>2. CASE e = "host" /\ scanned[a] = pending /\ (d.row.state = "request" \/ d.gone)
    <3>1. ServiceOf(e, a) = s  BY <1>9, <2>2 DEF ServiceOf
    <3> QED  BY <1>4, <1>7, <1>9, <2>2, <3>1
  <2> QED  BY <1>2, <2>1, <2>2
<1>10. ASSUME NEW b \in Accepters, row["host"][b].state = "request", scanned[b] = s
       PROVE  \E c \in Accepters : row'["host"][c].state = "request" /\ scanned[c] = s
  <2>1. CASE e = "host" /\ b = a
    <3>1. ServiceOf(e, a) = s  BY <1>10, <2>1 DEF ServiceOf
    <3>2. d.row.state = "request"  BY <1>2, <1>4, <1>10, <2>1, <3>1
    <3> QED  BY <1>7, <1>10, <2>1, <3>2
  <2>2. CASE ~(e = "host" /\ b = a)
    <3>1. row'["host"][b] = row["host"][b]  BY <1>8, <2>2 DEF Took
    <3> QED  BY <1>10, <3>1
  <2> QED  BY <2>1, <2>2
<1> QED  BY <1>6, <1>9, <1>10

\* All of the invariant.
LEMMA TookKeeps ==
  ASSUME ContactInv, NEW e \in Ends, NEW a \in Accepters, NEW d, NEW up,
         Took(e, a, d, up), Fine(e, a, d), scanned[a] # 0, UNCHANGED <<issued, scanned>>,
         persona' \in 0..issued, pending' \in 0..issued, capped' \in BOOLEAN, capped => capped',
         d.row.state = "none" /\ ~d.died /\ crashes = 0 => d.left = {} \/ capped',
         \/ persona' = 0
         \/ /\ persona' = persona /\ pending' = pending
            /\ e = "host" => row["host"][a].state # "none" \/ d.row.state = "none",
         crashes = 0 /\ ~d.died => persona' = 0 \/ persona' = pending',
         crashes = 0 /\ ~d.died /\ ~capped' => pending' = persona',
         d.row.session = "broken" =>
           \/ row[e][a].session = "broken" \/ crashes # 0 \/ d.died
           \/ \E b \in Accepters \ {a} : scanned[b] = scanned[a],
         OpenIsInvited'
  PROVE  ContactInv'
<1>1. /\ ContactTypeOK'
      /\ \A g \in Ends, b \in Accepters :
           /\ RowFits(g, row[g][b], left[g][b], crashes = 0)'
           /\ row'[g][b].state # "none" => scanned'[b] # 0
           /\ row'[g][b].state = "none" /\ crashes' = 0 /\ ~capped' => left'[g][b] = {}
  BY TookRows
<1>2. ASSUME NEW b \in Accepters, row'["host"][b].state # "none"
      PROVE  persona' = 0 \/ pending' # scanned'[b]
  <2>1. "host" \in Ends  BY DEF Ends
  <2>2. CASE e = "host" /\ b = a
    <3>1. row'["host"][b] = d.row  BY <2>2 DEF Took
    <3> QED  BY <1>2, <2>2, <3>1 DEF ContactInv
  <2>3. CASE ~(e = "host" /\ b = a)
    <3>1. row'["host"][b] = row["host"][b]  BY <2>1, <2>3 DEF Took
    <3> QED  BY <1>2, <3>1 DEF ContactInv
  <2> QED  BY <2>2, <2>3
<1>3. (\A f \in wire' : scanned'[f.rel] # 0) /\ (crashes' = 0 <=> crashes = 0 /\ ~d.died)
  BY DEF Took
<1>4. crashes' = 0 => persona' = 0 \/ persona' = pending'  BY <1>3
<1>5. OfferIsWhole'  BY <1>3 DEF OfferIsWhole
<1>6. BreaksOnlyByRescan'
  <2>1. SUFFICES ASSUME crashes' = 0, NEW g \in Ends, NEW b \in Accepters,
                        row'[g][b].session = "broken"
                 PROVE  \E c \in Accepters \ {b} : scanned[c] = scanned[b]
    BY DEF BreaksOnlyByRescan
  <2>2. crashes = 0 /\ ~d.died  BY <1>3, <2>1
  <2>3. row[g][b].session = "broken" => \E c \in Accepters \ {b} : scanned[c] = scanned[b]
    BY ZenonT(60), <2>2 DEF ContactInv, BreaksOnlyByRescan
  <2>4. CASE g = e /\ b = a
    <3>1. row'[g][b] = d.row  BY <2>4 DEF Took
    <3> QED  BY <2>1, <2>2, <2>3, <2>4, <3>1
  <2>5. CASE g # e \/ b # a
    <3>1. row'[g][b] = row[g][b]  BY <2>5 DEF Took
    <3> QED  BY <2>1, <2>3, <3>1
  <2> QED  BY <2>4, <2>5
<1> QED  BY <1>1, <1>2, <1>3, <1>4, <1>5, <1>6 DEF ContactInv

-----------------------------------------------------------------------------
(* The actions *)

\* The types, for the proofs below.
LEMMA Typed ==
  ASSUME ContactInv
  PROVE  /\ issued \in Nat /\ issued <= MaxOffers /\ persona \in 0..issued /\ pending \in 0..issued
         /\ \A e \in Ends, a \in Accepters : row[e][a] \in RowType /\ left[e][a] \in SUBSET Stored
         /\ \A a \in Accepters : scanned[a] \in 0..issued
         /\ hosted \in [Sites -> Auths] /\ capped \in BOOLEAN
         /\ \A f \in wire : /\ f.rel \in Accepters /\ f.kind \in Kinds /\ scanned[f.rel] # 0
BY DEF ContactInv, ContactTypeOK, Sites, Frames

\* A step that only writes one row and sends frames keeps the invariant.
LEMMA RowKeeps ==
  ASSUME ContactInv, NEW e \in Ends, NEW a \in Accepters, NEW x \in RowType,
         RowFits(e, x, left[e][a], crashes = 0), row[e][a].state # "none",
         x.state = row[e][a].state, x.session = row[e][a].session,
         row' = [row EXCEPT ![e][a] = x],
         NEW o \in SUBSET Frames, \A f \in o : f.rel = a, wire' = wire \cup o,
         UNCHANGED <<issued, pending, persona, scanned, left, hosted, crashes, faults, capped>>
  PROVE  ContactInv'
<1> DEFINE d == Did(e, a, x)
<1>1. /\ d \in DidType /\ d.row = x /\ d.left = left[e][a] /\ d.out = {}
      /\ ~d.gone /\ ~d.died /\ ~d.failed
  BY SMT, DidFacts
<1> HIDE DEF d
<1>2. Fine(e, a, d)  BY <1>1 DEF Fine, RowFits
<1>3. scanned[a] # 0  BY DEF ContactInv
<1>4. row \in [Ends -> [Accepters -> RowType]]  BY DEF ContactInv, ContactTypeOK
<1>5. /\ row' \in [Ends -> [Accepters -> RowType]] /\ row'[e][a] = x
      /\ \A h \in Ends, b \in Accepters : h # e \/ b # a => row'[h][b] = row[h][b]
  BY SMT, <1>4, SetAt
<1>6. wire' \in SUBSET Frames /\ \A f \in wire' : scanned[f.rel] # 0
  BY <1>3 DEF ContactInv, ContactTypeOK
<1>7. Took(e, a, d, hosted)
  BY <1>1, <1>5, <1>6 DEF Took, ContactInv, ContactTypeOK, Sites
<1>8. OpenIsInvited'
  BY <1>1, <1>3, <1>7, TookOpen
<1>9. d.row.state # "none" /\ d.row.session = row[e][a].session  BY <1>1
<1>10. /\ persona' \in 0..issued /\ pending' \in 0..issued /\ capped' \in BOOLEAN
  BY Typed
<1>11. /\ crashes = 0 => persona' = 0 \/ persona' = pending'
       /\ crashes = 0 /\ ~capped' => pending' = persona'
  BY DEF ContactInv, OfferIsWhole
<1> QED  BY <1>2, <1>3, <1>7, <1>8, <1>9, <1>10, <1>11, TookKeeps

\* The accepter's first message.
LEMMA HelloKeeps ==
  ASSUME ContactInv, NEW a \in Accepters, Hello(a)
  PROVE  ContactInv'
<1> DEFINE r == row["peer"][a]
<1>1. PICK s \in Sent("peer", a, r, "hello") :
         /\ row' = [row EXCEPT !["peer"][a] = s[1]]
         /\ wire' = wire \cup s[2]
         /\ UNCHANGED <<issued, pending, persona, scanned, left, hosted, crashes, faults, capped>>
         /\ r.state = "active"
  BY DEF Hello
<1>2. "peer" \in Ends /\ "hello" \in Kinds  BY DEF Ends, Kinds
<1>3. r \in RowType /\ RowFits("peer", r, left["peer"][a], crashes = 0)
  BY <1>2, Typed DEF ContactInv
<1> HIDE DEF r
<1>4. /\ s[1] \in RowType /\ Alike(s[1], r) /\ r.sent \subseteq s[1].sent
      /\ s[2] \in SUBSET Frames /\ \A f \in s[2] : f.rel = a
  BY SMT, <1>1, <1>2, <1>3, SentFacts
<1>5. RowFits("peer", s[1], left["peer"][a], crashes = 0)
  BY <1>1, <1>3, <1>4 DEF RowFits, Alike
<1>6. s[1].state = r.state /\ s[1].session = r.session  BY <1>4 DEF Alike
<1>7. PICK x \in RowType, o \in SUBSET Frames : x = s[1] /\ o = s[2]  BY <1>4
<1> QED  BY <1>1, <1>2, <1>4, <1>5, <1>6, <1>7, RowKeeps DEF r

\* drain_outbox.
LEMMA DrainKeeps ==
  ASSUME ContactInv, NEW e \in Ends, NEW a \in Accepters, Drain(e, a)
  PROVE  ContactInv'
<1> DEFINE r == row[e][a]
<1>1. PICK k \in r.outbox :
         /\ row' = [row EXCEPT ![e][a].outbox = @ \ {k}]
         /\ wire' = wire \cup {Frame(e, a, k, r)}
         /\ UNCHANGED <<issued, pending, persona, scanned, left, hosted, crashes, faults, capped>>
  BY DEF Drain
<1>2. r \in RowType /\ RowFits(e, r, left[e][a], crashes = 0)  BY Typed DEF ContactInv
<1>3. k \in Kinds /\ r.outbox \ {k} \in SUBSET Kinds  BY <1>1, <1>2, Fields
<1>4. r.state # "none"  BY <1>1, <1>2, NoRowFacts DEF RowFits
<1>5. PICK x : x = [r EXCEPT !.outbox = r.outbox \ {k}]  OBVIOUS
<1>6. row' = [row EXCEPT ![e][a] = x]
  BY <1>1, <1>5 DEF ContactInv, ContactTypeOK
<1> HIDE DEF r
<1>7. x \in RowType /\ Alike(x, r) /\ x.sent = r.sent  BY SMT, <1>2, <1>3, <1>5, SetOutbox
<1>8. RowFits(e, x, left[e][a], crashes = 0)  BY <1>2, <1>4, <1>7 DEF RowFits, Alike
<1>9. Frame(e, a, k, r) \in Frames /\ Frame(e, a, k, r).rel = a  BY <1>2, <1>3, FrameFacts
<1>10. PICK o \in SUBSET Frames : o = {Frame(e, a, k, r)}  BY <1>9
<1>11. \A f \in o : f.rel = a  BY <1>9, <1>10
<1>12. x.state = r.state /\ x.session = r.session  BY <1>7 DEF Alike
<1>13. /\ wire' = wire \cup o
       /\ UNCHANGED <<issued, pending, persona, scanned, left, hosted, crashes, faults, capped>>
  BY <1>1, <1>10
<1>14. /\ row[e][a].state # "none" /\ x \in RowType
       /\ x.state = row[e][a].state /\ x.session = row[e][a].session
  BY <1>4, <1>7, <1>12 DEF r
<1> QED  BY <1>6, <1>8, <1>11, <1>13, <1>14, RowKeeps

\* The end of the settle window.
LEMMA SettleKeeps ==
  ASSUME ContactInv, NEW e \in Ends, NEW a \in Accepters, SettleWindowEnds(e, a)
  PROVE  ContactInv'
<1> DEFINE r == row[e][a]
<1>1. r \in RowType /\ RowFits(e, r, left[e][a], crashes = 0)  BY Typed DEF ContactInv
<1>2. r.state # "none"  BY <1>1, NoRowFacts DEF RowFits, SettleWindowEnds
<1>3. PICK x : x = [r EXCEPT !.late = TRUE]  OBVIOUS
<1>4. row' = [row EXCEPT ![e][a] = x]
  BY <1>3 DEF ContactInv, ContactTypeOK, SettleWindowEnds
<1>5. /\ wire' = wire \cup {}
      /\ UNCHANGED <<issued, pending, persona, scanned, left, hosted, crashes, faults, capped>>
  BY DEF SettleWindowEnds
<1> HIDE DEF r
<1>6. /\ x \in RowType /\ x.state = r.state /\ x.session = r.session
      /\ x.closing = r.closing /\ x.activated = r.activated /\ x.heard = r.heard
      /\ x.mute = r.mute /\ x.sent = r.sent
  BY SMT, <1>1, <1>3, SetLate
<1>7. RowFits(e, x, left[e][a], crashes = 0)  BY <1>1, <1>2, <1>6 DEF RowFits
<1>8. PICK o \in SUBSET Frames : o = {}  OBVIOUS
<1> QED  BY <1>2, <1>4, <1>5, <1>6, <1>7, <1>8, RowKeeps DEF r

\* What a handler of a contact may do to its row.
Proper(e, a, up, d) ==
  /\ Fine(e, a, d)
  /\ d.row.state = "none" => d.left = {} /\ (d.gone \/ d.failed)
  /\ d.row.session = "broken" =>
       \/ row[e][a].session = "broken" \/ crashes # 0
       \/ \E b \in Accepters \ {a} : scanned[b] = scanned[a]
  /\ e = "host" /\ row["host"][a].state = "request" =>
       \/ d.row.state = "request" \/ d.gone \/ d.failed \/ d.died
       \/ up[scanned[a]] # "open"

\* An outcome that keeps or burns the row is one a handler may have.
LEMMA AfterProper ==
  ASSUME NEW e \in Ends, NEW a \in Accepters, NEW up, NEW d, row[e][a].state # "none",
         Fine(e, a, d), After(row[e][a], d)
  PROVE  Proper(e, a, up, d)
BY NoRowFacts DEF Proper, After

\* A handler of a contact keeps the invariant if each of its outcomes is proper.
LEMMA TakeKeeps ==
  ASSUME ContactInv, NEW e \in Ends, NEW a \in Accepters, NEW outs,
         NEW up \in [Sites -> Auths], NEW read, row[e][a].state # "none",
         \A d \in outs : Proper(e, a, up, d),
         \A s \in Codes : up[s] = "open" => hosted[s] = "open",
         Take(e, a, outs, pending, up, read), UNCHANGED <<issued, persona, scanned, capped>>
  PROVE  ContactInv'
<1>1. scanned[a] # 0  BY DEF ContactInv
<1>2. \A d \in outs : Fine(e, a, d)  BY DEF Proper
<1>3. pending' = pending /\ \E d \in outs : Took(e, a, d, up)  BY <1>1, <1>2, TakeFacts
<1>4. PICK d \in outs : Took(e, a, d, up)  BY <1>3
<1>5. Proper(e, a, up, d)  OBVIOUS
<1>6. OpenIsInvited'
  <2>1. e = "host" /\ row["host"][a].state = "request" =>
          \/ d.row.state = "request" \/ d.gone \/ d.failed \/ d.died
          \/ up[scanned[a]] # "open"
    BY <1>5 DEF Proper
  <2> QED  BY <1>1, <1>3, <1>4, <2>1, TookOpen
<1>7. /\ persona' \in 0..issued /\ pending' \in 0..issued /\ capped' \in BOOLEAN
  BY <1>3, Typed
<1>8. /\ crashes = 0 => persona' = 0 \/ persona' = pending'
      /\ crashes = 0 /\ ~capped' => pending' = persona'
  BY <1>3 DEF ContactInv, OfferIsWhole
<1>9. /\ Fine(e, a, d)
      /\ d.row.state = "none" => d.left = {}
      /\ d.row.session = "broken" =>
           \/ row[e][a].session = "broken" \/ crashes # 0 \/ d.died
           \/ \E b \in Accepters \ {a} : scanned[b] = scanned[a]
  BY <1>5 DEF Proper
<1> QED  BY <1>1, <1>3, <1>4, <1>6, <1>7, <1>8, <1>9, TookKeeps

\* ingest_frame at the inviter: a frame of another device that scanned the same
\* code breaks the session.
LEMMA HostReceivesKeeps ==
  ASSUME ContactInv, NEW f \in wire, HostReceives(f)
  PROVE  ContactInv'
<1>1. PICK b \in AtService(scanned[f.rel]) :
         Take("host", b, Decrypt("host", b, f.kind, Trusted(b, f)), pending, hosted, {f})
  BY DEF HostReceives
<1>2. b \in Accepters /\ row["host"][b].state # "none" /\ scanned[b] = scanned[f.rel]
  BY DEF AtService
<1>3. "host" \in Ends /\ f.kind \in Kinds /\ f.rel \in Accepters  BY Typed DEF Ends
<1>4. Trusted(b, f) \in BOOLEAN  BY DEF Trusted
<1>5. ASSUME NEW d \in Decrypt("host", b, f.kind, Trusted(b, f))
      PROVE  Proper("host", b, hosted, d)
  <2>1. /\ Fine("host", b, d)
        /\ \/ After(row["host"][b], d)
           \/ /\ d.row.state = row["host"][b].state /\ d.row.session = "broken"
              /\ ~Trusted(b, f) \/ crashes # 0
    BY <1>2, <1>3, <1>4, DecryptFine
  <2>2. CASE After(row["host"][b], d)  BY <1>2, <1>3, <2>1, <2>2, AfterProper
  <2>3. CASE /\ d.row.state = row["host"][b].state
             /\ ~Trusted(b, f) \/ crashes # 0
    <3>1. ~Trusted(b, f) => f.rel \in Accepters \ {b}  BY <1>3 DEF Trusted
    <3> QED  BY <1>2, <2>1, <2>3, <3>1 DEF Proper
  <2> QED  BY <2>1, <2>2, <2>3
<1>6. /\ hosted \in [Sites -> Auths]
      /\ UNCHANGED <<issued, persona, scanned, capped>>
  BY Typed DEF HostReceives
<1> QED  BY <1>1, <1>2, <1>3, <1>5, <1>6, TakeKeeps

\* ingest_frame at the accepter.
LEMMA PeerReceivesKeeps ==
  ASSUME ContactInv, NEW f \in wire, PeerReceives(f)
  PROVE  ContactInv'
<1>1. /\ row["peer"][f.rel].state # "none"
      /\ Take("peer", f.rel, Decrypt("peer", f.rel, f.kind, TRUE), pending, hosted, {f})
      /\ UNCHANGED <<issued, persona, scanned, capped>>
  BY DEF PeerReceives
<1>2. "peer" \in Ends /\ f.kind \in Kinds /\ f.rel \in Accepters  BY Typed DEF Ends
<1>3. TRUE \in BOOLEAN  OBVIOUS
<1>4. ASSUME NEW d \in Decrypt("peer", f.rel, f.kind, TRUE)
      PROVE  Proper("peer", f.rel, hosted, d)
  <2>1. /\ Fine("peer", f.rel, d)
        /\ \/ After(row["peer"][f.rel], d)
           \/ /\ d.row.state = row["peer"][f.rel].state /\ d.row.session = "broken"
              /\ ~TRUE \/ crashes # 0
    BY <1>1, <1>2, <1>3, DecryptFine
  <2>2. CASE After(row["peer"][f.rel], d)  BY <1>1, <1>2, <2>1, <2>2, AfterProper
  <2>3. CASE d.row.state = row["peer"][f.rel].state /\ crashes # 0
    BY <1>1, <2>1, <2>3 DEF Proper
  <2> QED  BY <2>1, <2>2, <2>3
<1>5. hosted \in [Sites -> Auths]  BY Typed
<1> QED  BY <1>1, <1>2, <1>4, <1>5, TakeKeeps

\* The sweep burns a row that is due.
LEMMA SweepKeeps ==
  ASSUME ContactInv, NEW e \in Ends, NEW a \in Accepters, Sweep(e, a)
  PROVE  ContactInv'
<1> DEFINE d == Did(e, a, row[e][a])
<1>1. row[e][a] \in RowType /\ RowFits(e, row[e][a], left[e][a], crashes = 0)
  BY Typed DEF ContactInv
<1>2. row[e][a].state # "none"  BY <1>1, NoRowFacts DEF RowFits, Sweep, Due
<1>3. d \in DidType /\ d.row = row[e][a] /\ d.out = {} /\ ~d.died  BY SMT, <1>1, DidFacts
<1>4. Take(e, a, Burn(d), pending, hosted, {}) /\ UNCHANGED <<issued, persona, scanned, capped>>
  BY DEF Sweep
<1> HIDE DEF d
<1>5. ASSUME NEW x \in Burn(d)  PROVE Proper(e, a, hosted, x)
  <2>1. /\ Fine(e, a, x)
        /\ \/ x.row = d.row
           \/ x.row = NoRow /\ x.left = {} /\ ~x.died /\ (x.gone \/ x.failed)
    BY <1>2, <1>3, BurnFine
  <2>2. After(row[e][a], x)  BY <1>3, <2>1 DEF After
  <2> QED  BY <1>2, <2>1, <2>2, AfterProper
<1>6. hosted \in [Sites -> Auths]  BY Typed
<1> QED  BY <1>2, <1>4, <1>5, <1>6, TakeKeeps

\* accept_request restricts the service before the row goes active, and the
\* burst follows.
LEMMA AcceptRequestKeeps ==
  ASSUME ContactInv, NEW a \in Accepters, AcceptRequest(a)
  PROVE  ContactInv'
<1> DEFINE r == row["host"][a]
           up == [hosted EXCEPT ![scanned[a]] = a]
<1>1. PICK x : x = [r EXCEPT !.state = "active"]  OBVIOUS
<1>2. /\ r.state = "request"
      /\ Take("host", a, {Dead(Did("host", a, x))} \cup Activate("host", a, Did("host", a, x)),
              pending, up, {})
      /\ UNCHANGED <<issued, persona, scanned, capped>>
  BY <1>1 DEF AcceptRequest
<1>3. "host" \in Ends /\ "burst" \in Kinds  BY DEF Ends, Kinds
<1>4. r \in RowType /\ RowFits("host", r, left["host"][a], crashes = 0)
  BY <1>3, Typed DEF ContactInv
<1>5. scanned[a] # 0 /\ scanned[a] \in Codes
  <2>1. scanned[a] # 0  BY <1>2, <1>3 DEF ContactInv
  <2>2. scanned[a] \in 0..issued /\ issued \in Nat /\ issued <= MaxOffers  BY Typed
  <2> QED  BY SMT, <2>1, <2>2, BoundsAreNatural DEF Codes
<1>6. /\ up \in [Sites -> Auths] /\ up[scanned[a]] # "open"
      /\ \A s \in Codes : up[s] = "open" => hosted[s] = "open"
  <2>1. hosted \in [Sites -> Auths] /\ a \in Auths /\ a # "open" /\ scanned[a] \in Sites
    BY <1>5, Typed, DevicesAreNoCodes DEF Auths, Sites
  <2>2. \A s \in Codes : s \in Sites  BY DEF Sites
  <2> QED  BY <2>1, <2>2
<1> HIDE DEF r, up
<1>7. /\ x \in RowType /\ x.state = "active" /\ x.session = r.session
      /\ x.closing = r.closing /\ x.activated = r.activated /\ x.heard = r.heard
      /\ x.mute = r.mute /\ x.sent = r.sent
  BY SMT, <1>1, <1>4, SetState
<1>8. PICK d : d = Did("host", a, x)  OBVIOUS
<1>9. d \in DidType /\ d.row = x /\ d.left = left["host"][a] /\ d.out = {} /\ ~d.died
  BY SMT, <1>3, <1>7, <1>8, DidFacts
<1>10. ASSUME NEW y \in {Dead(d)} \cup Activate("host", a, d)
       PROVE  Proper("host", a, up, y)
  <2>1. CASE y = Dead(d)
    <3>1. Fine("host", a, y)  BY <1>3, <1>7, <1>9, <2>1, DeadFine
    <3>2. y.row = x  BY <1>9, <2>1, SetDead
    <3> QED  BY <1>6, <1>7, <3>1, <3>2 DEF Proper, r
  <2>2. CASE y \in Says("host", a, d, "burst")
    <3>1. /\ y \in DidType /\ Beside(y, d) /\ \A f \in y.out : f.rel = a
          /\ Alike(y.row, d.row) /\ d.row.sent \subseteq y.row.sent
          /\ MaySend("host", d.row, "burst") => "burst" \in y.row.sent
      BY SMT, <1>3, <1>9, <2>2, SaysFacts
    <3>2. x.session # "broken" => "burst" \in y.row.sent
      BY <1>3, <1>7, <1>9, <3>1, SessionReads
    <3>3. y.row.session \in {"active", "broken"}  BY <3>1, DidFields, Fields
    <3>4. RowFits("host", y.row, y.left, crashes = 0 /\ ~y.died)
      BY <1>2, <1>4, <1>7, <1>9, <3>1, <3>2, <3>3 DEF RowFits, Alike, Beside
    <3>5. Fine("host", a, y)  BY <3>1, <3>4 DEF Fine
    <3> QED  BY <1>6, <1>7, <1>9, <3>1, <3>5 DEF Proper, Alike, r
  <2> QED  BY <2>1, <2>2 DEF Activate
<1>11. row["host"][a].state # "none"  BY <1>2 DEF r
<1> QED  BY <1>2, <1>3, <1>6, <1>8, <1>10, <1>11, TakeKeeps

\* The settle window counts as passed.
Lapsed(d) == [d EXCEPT !.row.late = TRUE]

\* A close whose start was not written keeps the rest of the row.
LEMMA SetLapsed ==
  ASSUME NEW d \in DidType
  PROVE  /\ Lapsed(d) \in DidType /\ Lapsed(d).out = d.out
         /\ Lapsed(d).row.state = d.row.state /\ Lapsed(d).row.session = d.row.session
BY DEF Lapsed, DidType, RowType

\* close_contact: a row that could still speak has said CONTACT_CLOSE.
LEMMA CloseContactKeeps ==
  ASSUME ContactInv, NEW e \in Ends, NEW a \in Accepters, CloseContact(e, a)
  PROVE  ContactInv'
<1> DEFINE r == row[e][a]
<1>1. PICK v \in BOOLEAN : v = ~MaySend(e, r, "close")  BY DEF MaySend
<1>2. PICK x : x = [r EXCEPT !.closing = TRUE, !.mute = v]  OBVIOUS
<1>3. PICK d : d = Did(e, a, x)  OBVIOUS
<1>4. /\ r.state # "none" /\ ~r.closing
      /\ Take(e, a, {Dead(d), Dead(Lapsed(d))} \cup Says(e, a, d, "close"), pending, hosted, {})
      /\ UNCHANGED <<issued, persona, scanned, capped>>
  BY <1>1, <1>2, <1>3 DEF CloseContact, Lapsed
<1>5. "close" \in Kinds /\ hosted \in [Sites -> Auths]  BY Typed DEF Kinds
<1>6. r \in RowType /\ RowFits(e, r, left[e][a], crashes = 0)  BY Typed DEF ContactInv
<1> HIDE DEF r
<1>7. /\ x \in RowType /\ x.closing /\ x.mute = v /\ x.state = r.state
      /\ x.session = r.session /\ x.activated = r.activated /\ x.heard = r.heard
      /\ x.sent = r.sent
  BY <1>2, <1>6 DEF RowType
<1>8. d \in DidType /\ d.row = x /\ d.left = left[e][a] /\ d.out = {} /\ ~d.died
  BY SMT, <1>3, <1>7, DidFacts
<1>9. ASSUME NEW y \in {Dead(d), Dead(Lapsed(d))} \cup Says(e, a, d, "close")
      PROVE  Fine(e, a, y) /\ After(r, y)
  <2>1. CASE y = Dead(d)
    <3>1. Fine(e, a, y)  BY <1>4, <1>7, <1>8, <2>1, DeadFine
    <3> QED  BY <1>7, <1>8, <2>1, <3>1, SetDead DEF After
  <2>2. CASE y = Dead(Lapsed(d))
    <3>1. /\ Lapsed(d) \in DidType /\ Lapsed(d).out = {}
          /\ Lapsed(d).row.state = r.state /\ Lapsed(d).row.session = r.session
      BY <1>7, <1>8, SetLapsed
    <3>2. Fine(e, a, y)  BY <1>4, <2>2, <3>1, DeadFine
    <3> QED  BY <2>2, <3>1, <3>2, SetDead DEF After
  <2>3. CASE y \in Says(e, a, d, "close")
    <3>1. /\ y \in DidType /\ Beside(y, d) /\ \A f \in y.out : f.rel = a
          /\ Alike(y.row, d.row) /\ d.row.sent \subseteq y.row.sent
          /\ MaySend(e, d.row, "close") => "close" \in y.row.sent
      BY SMT, <1>5, <1>8, <2>3, SaysFacts
    <3>2. ~x.mute => "close" \in y.row.sent  BY <1>1, <1>7, <1>8, <3>1 DEF MaySend
    <3>3. RowFits(e, y.row, y.left, crashes = 0 /\ ~y.died)
      BY <1>4, <1>6, <1>7, <1>8, <3>1, <3>2 DEF RowFits, Alike, Beside
    <3> QED  BY <1>7, <1>8, <3>1, <3>3 DEF Fine, After, Alike
  <2> QED  BY <2>1, <2>2, <2>3
<1>10. \A y \in {Dead(d), Dead(Lapsed(d))} \cup Says(e, a, d, "close") : Proper(e, a, hosted, y)
  BY <1>4, <1>9, AfterProper DEF r
<1> QED  BY <1>4, <1>5, <1>10, TakeKeeps DEF r

\* An INTRO that passes meets an inviter without a row for its sender: a row
\* would have used up the persona.
LEMMA IntroFacts ==
  ASSUME ContactInv, NEW f \in wire, IntroPasses(f)
  PROVE  /\ f.rel \in Accepters /\ f.kind \in Kinds /\ scanned[f.rel] # 0
         /\ pending = scanned[f.rel]
         /\ row["host"][f.rel].state = "none" /\ "ledger" \notin left["host"][f.rel]
         /\ left["host"][f.rel] \in SUBSET Stored
         /\ crashes = 0 /\ ~capped => left["host"][f.rel] = {}
<1>1. f.rel \in Accepters /\ f.kind \in Kinds /\ scanned[f.rel] # 0  BY Typed
<1>2. "host" \in Ends  BY DEF Ends
<1>3. pending = scanned[f.rel] /\ persona # 0  BY DEF IntroPasses
<1>4. row["host"][f.rel].state = "none"  BY <1>1, <1>3 DEF ContactInv
<1>5. RowFits("host", row["host"][f.rel], left["host"][f.rel], crashes = 0)
  BY <1>1, <1>2 DEF ContactInv
<1>6. crashes = 0 /\ ~capped => left["host"][f.rel] = {}  BY <1>1, <1>2, <1>4 DEF ContactInv
<1>7. "ledger" \notin left["host"][f.rel]  BY <1>4, <1>5 DEF RowFits
<1> QED  BY <1>1, <1>2, <1>3, <1>4, <1>6, <1>7, Typed

\* The persona has moved to the relationship: keys without a row.
LEMMA MovedFacts ==
  ASSUME ContactInv, NEW a \in Accepters
  PROVE  /\ Moved(a) \in DidType /\ Moved(a).row = NoRow /\ Moved(a).left = {"keys"}
         /\ Moved(a).out = {} /\ ~Moved(a).died /\ ~Moved(a).failed
         /\ Fine("host", a, Moved(a)) /\ Fine("host", a, Dead(Moved(a)))
<1>1. "host" \in Ends /\ {"keys"} \in SUBSET Stored  BY DEF Ends, Stored
<1>2. PICK d : d = Did("host", a, NoRow)  OBVIOUS
<1>3. d \in DidType /\ d.row = NoRow /\ d.out = {} /\ ~d.died /\ ~d.failed
  BY SMT, <1>1, <1>2, NoRowFacts, DidFacts
<1>4. /\ Moved(a) \in DidType /\ Moved(a).row = NoRow /\ Moved(a).left = {"keys"}
      /\ Moved(a).out = {} /\ ~Moved(a).died /\ ~Moved(a).failed
  BY <1>1, <1>2, <1>3 DEF Moved, DidType
<1>5. Fine("host", a, Moved(a))  BY <1>4, NoRowFacts DEF Fine, RowFits
<1>6. Fine("host", a, Dead(Moved(a)))  BY <1>1, <1>4, DeadFine
<1> QED  BY <1>4, <1>5, <1>6

\* Installing the client's key failed.
Failed(d) == [d EXCEPT !.failed = TRUE]

\* A failing call into tor keeps the rest of the outcome.
LEMMA SetFailed ==
  ASSUME NEW d \in DidType
  PROVE  /\ Failed(d) \in DidType /\ Failed(d).failed /\ Failed(d).row = d.row
         /\ Failed(d).left = d.left /\ Failed(d).out = d.out /\ Failed(d).died = d.died
BY DEF Failed, DidType

\* The request is made.
LEMMA MadeFacts ==
  ASSUME ContactInv, NEW a \in Accepters
  PROVE  /\ Made(a) \in DidType /\ Made(a).row.state = "request"
         /\ Made(a).row.session = "active" /\ ~Made(a).row.closing
         /\ Made(a).left = Stored /\ Made(a).out = {} /\ ~Made(a).died
         /\ Fine("host", a, Failed(Made(a))) /\ Fine("host", a, Dead(Made(a)))
<1>1. "host" \in Ends /\ Stored \in SUBSET Stored  BY DEF Ends
<1>2. PICK r : r = [NoRow EXCEPT !.state = "request", !.heard = TRUE]  OBVIOUS
<1>3. r \in RowType /\ r.state = "request" /\ r.session = "active" /\ ~r.closing
  BY <1>2 DEF NoRow, RowType
<1>4. PICK d : d = Did("host", a, r)  OBVIOUS
<1>5. d \in DidType /\ d.row = r /\ d.out = {} /\ ~d.died
  BY SMT, <1>1, <1>3, <1>4, DidFacts
<1>6. /\ Made(a) \in DidType /\ Made(a).row = r /\ Made(a).left = Stored
      /\ Made(a).out = {} /\ ~Made(a).died
  BY <1>1, <1>2, <1>4, <1>5 DEF Made, DidType
<1>7. Fine("host", a, Failed(Made(a)))  BY <1>3, <1>6, SetFailed DEF Fine, RowFits
<1>8. Fine("host", a, Dead(Made(a)))  BY <1>1, <1>3, <1>6, DeadFine
<1> QED  BY <1>3, <1>6, <1>7, <1>8

\* An INTRO that does not decrypt leaves the offer as it was.
LEMMA IntroUnreadKeeps ==
  ASSUME ContactInv, NEW f \in wire, IntroUnread(f)
  PROVE  ContactInv'
<1> DEFINE a == f.rel
<1>1. PICK d : d = Failed(Did("host", a, NoRow))  OBVIOUS
<1>2. Take("host", a, {d}, pending, hosted, {}) /\ UNCHANGED <<issued, persona, scanned, capped>>
  BY <1>1 DEF IntroUnread, Failed
<1>3. /\ a \in Accepters /\ scanned[a] # 0 /\ row["host"][a].state = "none"
      /\ "ledger" \notin left["host"][a] /\ (crashes = 0 /\ ~capped => left["host"][a] = {})
  BY IntroFacts DEF IntroUnread
<1> HIDE DEF a
<1>4. "host" \in Ends  BY DEF Ends
<1>5. /\ Did("host", a, NoRow) \in DidType /\ Did("host", a, NoRow).row = NoRow
      /\ Did("host", a, NoRow).left = left["host"][a] /\ Did("host", a, NoRow).out = {}
      /\ ~Did("host", a, NoRow).died
  BY SMT, <1>3, <1>4, NoRowFacts, DidFacts
<1>6. d \in DidType /\ d.row = NoRow /\ d.left = left["host"][a] /\ d.out = {} /\ ~d.died
  BY <1>1, <1>5, SetFailed
<1>7. Fine("host", a, d)  BY <1>3, <1>6, NoRowFacts DEF Fine, RowFits
<1>8. hosted \in [Sites -> Auths]  BY Typed
<1>9. pending' = pending /\ Took("host", a, d, hosted)
  BY SMT, <1>2, <1>3, <1>4, <1>7, <1>8, TakeFacts
<1>10. OpenIsInvited'  BY <1>2, <1>3, <1>4, <1>9, TookOpen
<1>11. /\ persona' \in 0..issued /\ pending' \in 0..issued /\ capped' \in BOOLEAN
       /\ crashes = 0 => persona' = 0 \/ persona' = pending'
       /\ crashes = 0 /\ ~capped' => pending' = persona'
  BY <1>2, <1>9, Typed DEF ContactInv, OfferIsWhole
<1>12. d.row.state = "none" /\ d.row.session # "broken"  BY <1>6, NoRowFacts
<1> QED  BY <1>2, <1>3, <1>4, <1>6, <1>7, <1>9, <1>10, <1>11, <1>12, TookKeeps

\* An INTRO cut short by a crash or by MAX_RELATIONSHIPS.
LEMMA IntroCutKeeps ==
  ASSUME ContactInv, NEW f \in wire, IntroCut(f)
  PROVE  ContactInv'
<1> DEFINE a == f.rel
           outs == {Dead(Moved(a))} \cup IF Full THEN {Moved(a)} ELSE {Dead(Made(a))}
<1>1. /\ Take("host", a, outs, pending, hosted, {f})
      /\ persona' = 0 /\ capped' = (capped \/ crashes' = crashes) /\ UNCHANGED <<issued, scanned>>
  BY DEF IntroCut
<1>2. a \in Accepters /\ scanned[a] # 0 /\ row["host"][a].state = "none"
  BY IntroFacts DEF IntroCut
<1> HIDE DEF a
<1>3. "host" \in Ends /\ hosted \in [Sites -> Auths]  BY Typed DEF Ends
<1>4. /\ Moved(a) \in DidType /\ Moved(a).row = NoRow /\ ~Moved(a).died
      /\ Fine("host", a, Moved(a)) /\ Fine("host", a, Dead(Moved(a)))
  BY <1>2, MovedFacts
<1>5. /\ Made(a) \in DidType /\ Made(a).row.session = "active" /\ Fine("host", a, Dead(Made(a)))
  BY <1>2, MadeFacts
<1>6. ASSUME NEW d \in outs
      PROVE  Fine("host", a, d) /\ d.row.session # "broken" /\ (d.died \/ d = Moved(a))
  <2>1. CASE d = Moved(a)  BY <1>4, <2>1, NoRowFacts
  <2>2. CASE d = Dead(Moved(a))  BY <1>4, <2>2, NoRowFacts, SetDead
  <2>3. CASE d = Dead(Made(a))  BY <1>5, <2>3, SetDead
  <2> QED  BY <2>1, <2>2, <2>3
<1> HIDE DEF outs
<1>7. pending' = pending /\ \E d \in outs : Took("host", a, d, hosted)
  BY <1>1, <1>2, <1>3, <1>6, TakeFacts
<1>8. PICK d \in outs : Took("host", a, d, hosted)  BY <1>7
<1>9. OpenIsInvited'  BY <1>1, <1>2, <1>3, <1>7, <1>8, TookOpen
<1>10. crashes = 0 /\ ~d.died => capped'  BY <1>1, <1>8 DEF Took
<1>11. persona' \in 0..issued /\ pending' \in 0..issued /\ capped' \in BOOLEAN
  <2>1. 0 \in 0..issued  BY SMT, Typed
  <2> QED  BY <1>1, <1>7, <2>1, Typed
<1> QED  BY <1>1, <1>2, <1>3, <1>6, <1>7, <1>8, <1>9, <1>10, <1>11, TookKeeps

\* An INTRO that makes the request uses up the offer.
LEMMA IntroMadeKeeps ==
  ASSUME ContactInv, NEW f \in wire, IntroMade(f)
  PROVE  ContactInv'
<1> DEFINE a == f.rel
           outs == {Failed(Made(a)), Dead(Made(a))} \cup Handle("host", a, Made(a), f.kind)
<1>1. /\ Take("host", a, outs, 0, hosted, {f})
      /\ persona' = 0 /\ UNCHANGED <<issued, scanned, capped>>
  BY DEF IntroMade, Failed
<1>2. /\ a \in Accepters /\ f.kind \in Kinds /\ scanned[a] # 0 /\ pending = scanned[a]
      /\ row["host"][a].state = "none"
  BY IntroFacts DEF IntroMade
<1> HIDE DEF a
<1>3. "host" \in Ends /\ hosted \in [Sites -> Auths]  BY Typed DEF Ends
<1>4. /\ Made(a) \in DidType /\ Made(a).row.state = "request"
      /\ Made(a).row.session = "active" /\ ~Made(a).row.closing
      /\ Made(a).left = Stored /\ Made(a).out = {} /\ ~Made(a).died
      /\ Fine("host", a, Failed(Made(a))) /\ Fine("host", a, Dead(Made(a)))
  BY <1>2, MadeFacts
<1>5. ASSUME NEW d \in outs
      PROVE  /\ Fine("host", a, d) /\ d.row.session # "broken"
             /\ d.row.state = "request" \/ d.gone \/ d.failed \/ d.died
             /\ d.row.state = "none" => d.left = {}
  <2>1. CASE d = Failed(Made(a))  BY <1>4, <2>1, SetFailed
  <2>2. CASE d = Dead(Made(a))  BY <1>4, <2>2, SetDead
  <2>3. CASE d \in Handle("host", a, Made(a), f.kind)
    <3>1. /\ \A g \in Made(a).out : g.rel = a
          /\ Made(a).row.state # "none" /\ Made(a).row.session # "broken"
          /\ crashes = 0 =>
               /\ Made(a).left = Stored
               /\ "host" = "host" /\ Made(a).row.state = "active" /\ ~Made(a).row.closing
                    => "burst" \in Made(a).row.sent
               /\ "host" = "peer" /\ Made(a).row.activated => "burst" \in Made(a).row.sent
               /\ Made(a).row.closing /\ ~Made(a).row.mute => "close" \in Made(a).row.sent
      BY <1>4
    <3>2. Fine("host", a, d) /\ After(Made(a).row, d)
      BY SMT, <1>2, <1>3, <1>4, <2>3, <3>1, HandleFine
    <3> QED  BY <1>4, <3>2, NoRowFacts DEF After
  <2> QED  BY <2>1, <2>2, <2>3
<1> HIDE DEF outs
<1>6. pending' = 0 /\ \E d \in outs : Took("host", a, d, hosted)
  BY <1>1, <1>2, <1>3, <1>5, TakeFacts
<1>7. PICK d \in outs : Took("host", a, d, hosted)  BY <1>6
<1>8. OpenIsInvited'  BY <1>1, <1>2, <1>3, <1>5, <1>6, <1>7, TookOpen
<1>9. persona' \in 0..issued /\ pending' \in 0..issued /\ capped' \in BOOLEAN
  <2>1. 0 \in 0..issued  BY SMT, Typed
  <2> QED  BY <1>1, <1>6, <2>1, Typed
<1> QED  BY <1>1, <1>2, <1>3, <1>5, <1>6, <1>7, <1>8, <1>9, TookKeeps

\* A step that changes the offer and the services, and no row.
LEMMA OfferStepKeeps ==
  ASSUME ContactInv, issued' \in Nat, issued <= issued', issued' <= MaxOffers,
         pending' \in 0..issued', persona' \in 0..issued', hosted' \in [Sites -> Auths],
         crashes' \in Nat, faults' \in Nat, crashes' = 0 => crashes = 0,
         UNCHANGED <<scanned, row, left, wire, capped>>,
         \A a \in Accepters : scanned[a] # 0 => persona' = 0 \/ pending' # scanned[a]
                              \/ (persona' = persona /\ pending' = pending),
         crashes' = 0 => pending' = persona' \/ (persona' = persona /\ pending' = pending),
         OpenIsInvited'
  PROVE  ContactInv'
<1>1. ContactTypeOK'
  <2>1. scanned \in [Accepters -> 0..issued] /\ issued \in Nat  BY DEF ContactInv, ContactTypeOK
  <2>2. scanned' \in [Accepters -> 0..issued']
    <3>1. \A n \in 0..issued : n \in 0..issued'  BY SMT, <2>1
    <3> QED  BY <2>1, <3>1
  <2> QED  BY <2>2 DEF ContactInv, ContactTypeOK, Sites
<1>2. ASSUME NEW e \in Ends, NEW a \in Accepters
      PROVE  /\ RowFits(e, row[e][a], left[e][a], crashes = 0)'
             /\ row'[e][a].state # "none" => scanned'[a] # 0
             /\ row'[e][a].state = "none" /\ crashes' = 0 /\ ~capped' => left'[e][a] = {}
  <2>1. /\ RowFits(e, row[e][a], left[e][a], crashes = 0)
        /\ row[e][a].state # "none" => scanned[a] # 0
        /\ row[e][a].state = "none" /\ crashes = 0 /\ ~capped => left[e][a] = {}
    BY DEF ContactInv
  <2> QED  BY <2>1 DEF RowFits
<1>3. ASSUME NEW a \in Accepters, row'["host"][a].state # "none"
      PROVE  persona' = 0 \/ pending' # scanned'[a]
  <2>1. "host" \in Ends  BY DEF Ends
  <2> QED  BY <1>3, <2>1 DEF ContactInv
<1>4. (\A f \in wire' : scanned'[f.rel] # 0) /\ BreaksOnlyByRescan'
  BY DEF ContactInv, BreaksOnlyByRescan
<1>5. (crashes' = 0 => persona' = 0 \/ persona' = pending') /\ OfferIsWhole'
  BY DEF ContactInv, OfferIsWhole
<1> QED  BY <1>1, <1>2, <1>3, <1>4, <1>5 DEF ContactInv

\* clear_pending takes down the service of the offer unless tor fails.
LEMMA ClearedFacts ==
  ASSUME ContactInv, NEW removed \in BOOLEAN
  PROVE  /\ Cleared(hosted, removed) \in [Sites -> Auths]
         /\ \A s \in Codes : Cleared(hosted, removed)[s] = "open" =>
              hosted[s] = "open" /\ (pending = s => ~removed)
<1>1. pending = 0 \/ pending \in Codes
  <2>1. pending \in 0..issued /\ issued \in Nat /\ issued <= MaxOffers  BY Typed
  <2> QED  BY SMT, <2>1, BoundsAreNatural DEF Codes
<1>2. hosted \in [Sites -> Auths] /\ "off" \in Auths  BY Typed DEF Auths
<1>3. \A s \in Codes : s \in Sites /\ s # 0
  <2>1. \A s \in Codes : s # 0  BY SMT DEF Codes
  <2> QED  BY <2>1 DEF Sites
<1>4. CASE pending # 0 /\ removed  BY <1>1, <1>2, <1>3, <1>4 DEF Cleared
<1>5. CASE ~(pending # 0 /\ removed)  BY <1>2, <1>3, <1>5 DEF Cleared
<1> QED  BY <1>4, <1>5

\* A failing call is counted.
LEMMA FailsFacts ==
  ASSUME ContactInv, NEW failed \in BOOLEAN, Fails(failed)
  PROVE  faults' \in Nat /\ (faults' = 0 => faults = 0 /\ ~failed)
<1>1. faults \in Nat  BY DEF ContactInv, ContactTypeOK
<1> QED  BY SMT, <1>1 DEF Fails

\* abort_offer, and the sweep of an expired offer.
LEMMA ClearOfferKeeps ==
  ASSUME ContactInv, ClearOffer  PROVE ContactInv'
<1>1. PICK failed \in BOOLEAN : hosted' = Cleared(hosted, ~failed) /\ Fails(failed)
  BY DEF ClearOffer, MayFail
<1>2. /\ pending' = 0 /\ persona' = 0
      /\ UNCHANGED <<issued, scanned, row, left, wire, crashes, capped>>
  BY DEF ClearOffer
<1>3. PICK removed \in BOOLEAN : removed = ~failed  OBVIOUS
<1>4. /\ hosted' \in [Sites -> Auths]
      /\ \A s \in Codes : hosted'[s] = "open" => hosted[s] = "open" /\ (pending = s => failed)
  BY <1>1, <1>3, ClearedFacts
<1>5. faults' \in Nat /\ (faults' = 0 => faults = 0 /\ ~failed)  BY <1>1, FailsFacts
<1>6. OpenIsInvited'
  <2>1. SUFFICES ASSUME crashes' = 0, faults' = 0, NEW s \in Codes, hosted'[s] = "open"
                 PROVE  \E a \in Accepters : row["host"][a].state = "request" /\ scanned[a] = s
    BY ZenonT(60), <1>2 DEF OpenIsInvited, AtService
  <2>2. crashes = 0 /\ faults = 0 /\ hosted[s] = "open" /\ pending # s
    BY <1>2, <1>4, <1>5, <2>1
  <2> QED  BY <2>2 DEF ContactInv, OpenIsInvited, AtService
<1>7. /\ issued' \in Nat /\ issued <= issued' /\ issued' <= MaxOffers
      /\ pending' \in 0..issued' /\ persona' \in 0..issued'
  <2>1. issued \in Nat /\ issued <= MaxOffers  BY Typed
  <2> QED  BY SMT, <1>2, <2>1
<1>8. crashes' \in Nat  BY <1>2 DEF ContactInv, ContactTypeOK
<1> QED  BY <1>2, <1>4, <1>5, <1>6, <1>7, <1>8, OfferStepKeeps

\* offer: its code is new, and the old offer is cleared first.
LEMMA OfferKeeps ==
  ASSUME ContactInv, Offer  PROVE ContactInv'
<1>1. PICK c : c = issued + 1  OBVIOUS
<1>2. /\ issued' = c /\ issued < MaxOffers /\ UNCHANGED <<scanned, row, left, wire, capped>>
  BY <1>1 DEF Offer
<1>3. PICK failed \in BOOLEAN :
         /\ Fails(failed)
         /\ \/ /\ persona' = c /\ pending' = c /\ UNCHANGED crashes
               /\ hosted' = [Cleared(hosted, ~failed) EXCEPT ![c] = "open"]
            \/ /\ persona' = c /\ pending' = 0 /\ crashes' = crashes + 1
               /\ hosted' = Rebooted("host", 0, row["host"], 0)
            \/ /\ pending = 0 /\ persona # 0 /\ UNCHANGED <<pending, persona, crashes>>
               /\ hosted' = [Cleared(hosted, ~failed) EXCEPT ![c] = "open"]
  BY <1>1 DEF Offer, MayFail, PersonaFits
<1>4. faults' \in Nat /\ (faults' = 0 => faults = 0 /\ ~failed)  BY <1>3, FailsFacts
<1>5. /\ issued \in Nat /\ issued <= MaxOffers /\ crashes \in Nat
      /\ \A a \in Accepters : scanned[a] \in 0..issued
      /\ persona \in 0..issued /\ pending \in 0..issued
  BY Typed DEF ContactInv, ContactTypeOK
<1>6. /\ issued' \in Nat /\ issued <= issued' /\ issued' <= MaxOffers
      /\ c \in Codes /\ c \in 0..issued' /\ 0 \in 0..issued'
      /\ pending \in 0..issued' /\ persona \in 0..issued'
  BY SMT, <1>1, <1>2, <1>5, BoundsAreNatural DEF Codes
<1>7. \A a \in Accepters : scanned[a] # c  BY SMT, <1>1, <1>5
<1>8. PICK removed \in BOOLEAN : removed = ~failed  OBVIOUS
<1>9. PICK h : h = Cleared(hosted, ~failed)  OBVIOUS
<1>10. /\ h \in [Sites -> Auths]
       /\ \A s \in Codes : h[s] = "open" => hosted[s] = "open" /\ (pending = s => failed)
  BY <1>8, <1>9, ClearedFacts
<1>11. "open" \in Auths /\ \A s \in Codes : s \in Sites  BY DEF Auths, Sites
<1>12. [h EXCEPT ![c] = "open"] \in [Sites -> Auths]  BY <1>6, <1>10, <1>11
<1>13. CASE /\ persona' = c /\ pending' = c /\ UNCHANGED crashes
            /\ hosted' = [Cleared(hosted, ~failed) EXCEPT ![c] = "open"]
  <2>1. OpenIsInvited'
    <3>1. SUFFICES ASSUME crashes' = 0, faults' = 0, NEW s \in Codes, hosted'[s] = "open", s # c
                   PROVE  \E a \in Accepters : row["host"][a].state = "request" /\ scanned[a] = s
      BY ZenonT(60), <1>2, <1>13 DEF OpenIsInvited, AtService
    <3>2. hosted'[s] = h[s]  BY <1>6, <1>9, <1>10, <1>11, <1>13, <3>1
    <3>3. crashes = 0 /\ faults = 0 /\ hosted[s] = "open" /\ pending # s
      BY <1>4, <1>10, <1>13, <3>1, <3>2
    <3> QED  BY <3>3 DEF ContactInv, OpenIsInvited, AtService
  <2> QED  BY ZenonT(60), <1>2, <1>4, <1>5, <1>6, <1>7, <1>9, <1>12, <1>13, <2>1, OfferStepKeeps
<1>14. CASE /\ persona' = c /\ pending' = 0 /\ crashes' = crashes + 1
            /\ hosted' = Rebooted("host", 0, row["host"], 0)
  <2>1. crashes' \in Nat /\ crashes' # 0  BY SMT, <1>5, <1>14
  <2>2. hosted' \in [Sites -> Auths]
    <3>1. "host" \in Ends  BY DEF Ends
    <3> QED  BY <1>14, <3>1, RebootedType
  <2>3. OpenIsInvited'  BY <2>1 DEF OpenIsInvited
  <2> QED  BY <1>2, <1>4, <1>6, <1>14, <2>1, <2>2, <2>3, OfferStepKeeps
<1>15. CASE /\ pending = 0 /\ persona # 0 /\ UNCHANGED <<pending, persona, crashes>>
            /\ hosted' = [Cleared(hosted, ~failed) EXCEPT ![c] = "open"]
  <2>1. crashes # 0  BY <1>15 DEF ContactInv
  <2>2. OpenIsInvited'  BY <1>15, <2>1 DEF OpenIsInvited
  <2> QED  BY <1>2, <1>4, <1>5, <1>6, <1>9, <1>12, <1>15, <2>1, <2>2, OfferStepKeeps
<1> QED  BY <1>3, <1>13, <1>14, <1>15

\* restore_services at unlock.
LEMMA UnlockKeeps ==
  ASSUME ContactInv, NEW e \in Ends, Unlock(e)  PROVE ContactInv'
<1>1. PICK h : h = RestoredFrom(hosted, e, row[e], pending)  OBVIOUS
<1>2. /\ hosted' = h
      /\ UNCHANGED <<issued, pending, persona, scanned, row, left, wire, crashes, faults, capped>>
  BY <1>1 DEF Unlock
<1>3. /\ h \in [Sites -> Auths]
      /\ \A s \in Sites : h[s] = "open" =>
           \/ hosted[s] = "open"
           \/ e = "host" /\ s = pending
           \/ \E a \in Accepters : e = "host" /\ row[e][a].state = "request" /\ scanned[a] = s
  BY SMT, <1>1, Typed, RestoredFacts
<1>4. OpenIsInvited'
  <2>1. SUFFICES ASSUME crashes' = 0, faults' = 0, NEW s \in Codes, hosted'[s] = "open"
                 PROVE  \/ pending = s
                        \/ \E a \in Accepters : row["host"][a].state = "request" /\ scanned[a] = s
    BY ZenonT(60), <1>2 DEF OpenIsInvited, AtService
  <2>2. s \in Sites  BY DEF Sites
  <2>3. hosted[s] = "open" =>
          \/ pending = s
          \/ \E a \in Accepters : row["host"][a].state = "request" /\ scanned[a] = s
    BY <1>2, <2>1 DEF ContactInv, OpenIsInvited, AtService
  <2> QED  BY ZenonT(60), <1>2, <1>3, <2>1, <2>2, <2>3
<1>5. /\ issued' \in Nat /\ issued <= issued' /\ issued' <= MaxOffers
  <2>1. issued \in Nat /\ issued <= MaxOffers  BY Typed
  <2> QED  BY SMT, <1>2, <2>1
<1>6. /\ pending' \in 0..issued' /\ persona' \in 0..issued' /\ crashes' \in Nat /\ faults' \in Nat
  BY <1>2 DEF ContactInv, ContactTypeOK
<1> QED  BY <1>2, <1>3, <1>4, <1>5, <1>6, OfferStepKeeps

\* accept: the device had no row, so no session of its can be broken.
LEMMA AcceptKeeps ==
  ASSUME ContactInv, NEW a \in Accepters, NEW c \in Codes, Accept(a, c)
  PROVE  ContactInv'
<1>1. /\ c \in 1..issued /\ scanned[a] = 0 /\ scanned' = [scanned EXCEPT ![a] = c]
      /\ UNCHANGED <<issued, pending, persona, wire, capped>>
  BY DEF Accept
<1>2. PICK r : r = [NoRow EXCEPT !.state = "active", !.intro = TRUE]  OBVIOUS
<1>3. /\ r \in RowType /\ r.state = "active" /\ r.session = "active" /\ ~r.heard
      /\ ~r.activated /\ ~r.closing
  BY <1>2 DEF NoRow, RowType
<1>4. PICK l \in SUBSET Stored : l = {"keys"}  BY DEF Stored
<1>5. PICK whole \in SUBSET Stored : whole = Stored  OBVIOUS
<1>6. "peer" \in Ends /\ "host" \in Ends  BY DEF Ends
<1>7. /\ row \in [Ends -> [Accepters -> RowType]] /\ left \in [Ends -> [Accepters -> SUBSET Stored]]
      /\ hosted \in [Sites -> Auths] /\ wire \in SUBSET Frames
      /\ crashes \in Nat /\ faults \in Nat /\ issued \in Nat
      /\ scanned \in [Accepters -> 0..issued]
  BY DEF ContactInv, ContactTypeOK, Sites
<1>8. c \in 0..issued /\ c # 0  BY SMT, <1>1, <1>7
<1>9. /\ scanned' \in [Accepters -> 0..issued] /\ scanned'[a] = c
      /\ \A b \in Accepters : b # a => scanned'[b] = scanned[b]
  BY <1>1, <1>7, <1>8
<1>10. /\ a \in Sites /\ "host" \in Auths /\ \A s \in Codes : s \in Sites /\ s # a
  BY DevicesAreNoCodes DEF Sites, Auths
<1>11. \/ /\ row' = [row EXCEPT !["peer"][a] = r] /\ left' = [left EXCEPT !["peer"][a] = whole]
          /\ hosted' = [hosted EXCEPT ![a] = "host"] /\ UNCHANGED <<crashes, faults>>
       \/ faults' = faults + 1 /\ UNCHANGED <<row, left, hosted, crashes>>
       \/ /\ crashes' = crashes + 1 /\ left' = [left EXCEPT !["peer"][a] = l]
          /\ UNCHANGED <<row, hosted, faults>>
  BY <1>2, <1>4, <1>5 DEF Accept
<1>12. /\ crashes' \in Nat /\ faults' \in Nat /\ (crashes' = 0 => crashes = 0)
       /\ faults' = 0 => faults = 0
  BY SMT, <1>7, <1>11
<1>13. /\ hosted' \in [Sites -> Auths] /\ \A s \in Codes : hosted'[s] = hosted[s]
  BY <1>7, <1>10, <1>11
<1>14. /\ row' \in [Ends -> [Accepters -> RowType]]
       /\ \A h \in Ends, b \in Accepters : h # "peer" \/ b # a => row'[h][b] = row[h][b]
       /\ \/ row'["peer"][a] = row["peer"][a]
          \/ row'["peer"][a] = r /\ left'["peer"][a] = whole
  <2>1. CASE /\ row' = [row EXCEPT !["peer"][a] = r] /\ left' = [left EXCEPT !["peer"][a] = whole]
    <3>1. /\ row' \in [Ends -> [Accepters -> RowType]] /\ row'["peer"][a] = r
          /\ \A h \in Ends, b \in Accepters : h # "peer" \/ b # a => row'[h][b] = row[h][b]
      BY SMT, <1>3, <1>6, <1>7, <2>1, SetAt
    <3>2. left'["peer"][a] = whole  BY SMT, <1>5, <1>6, <1>7, <2>1, SetAt
    <3> QED  BY <3>1, <3>2
  <2>2. CASE UNCHANGED row  BY <1>7, <2>2
  <2> QED  BY <1>11, <2>1, <2>2
<1>15. /\ left' \in [Ends -> [Accepters -> SUBSET Stored]]
       /\ \A h \in Ends, b \in Accepters : h # "peer" \/ b # a => left'[h][b] = left[h][b]
       /\ \/ row'["peer"][a] = r /\ left'["peer"][a] = whole
          \/ row'["peer"][a] = row["peer"][a] /\ left'["peer"][a] = left["peer"][a]
          \/ row'["peer"][a] = row["peer"][a] /\ left'["peer"][a] = l /\ crashes' # 0
  <2>1. CASE /\ row' = [row EXCEPT !["peer"][a] = r] /\ left' = [left EXCEPT !["peer"][a] = whole]
    <3>1. row'["peer"][a] = r  BY <1>6, <1>7, <2>1
    <3>2. /\ left' \in [Ends -> [Accepters -> SUBSET Stored]] /\ left'["peer"][a] = whole
          /\ \A h \in Ends, b \in Accepters : h # "peer" \/ b # a => left'[h][b] = left[h][b]
      BY SMT, <1>5, <1>6, <1>7, <2>1, SetAt
    <3> QED  BY <3>1, <3>2
  <2>2. CASE UNCHANGED <<row, left>>  BY <1>7, <2>2
  <2>3. CASE crashes' = crashes + 1 /\ left' = [left EXCEPT !["peer"][a] = l] /\ UNCHANGED row
    <3>1. crashes' # 0  BY SMT, <1>7, <2>3
    <3>2. /\ left' \in [Ends -> [Accepters -> SUBSET Stored]] /\ left'["peer"][a] = l
          /\ \A h \in Ends, b \in Accepters : h # "peer" \/ b # a => left'[h][b] = left[h][b]
      BY SMT, <1>4, <1>6, <1>7, <2>3, SetAt
    <3> QED  BY <2>3, <3>1, <3>2
  <2> QED  BY <1>11, <2>1, <2>2, <2>3
<1>16. \A e \in Ends : row[e][a].state = "none"  BY <1>1 DEF ContactInv
<1>17. ASSUME NEW e \in Ends, NEW b \in Accepters
       PROVE  /\ RowFits(e, row[e][b], left[e][b], crashes = 0)
              /\ row[e][b].state # "none" => scanned[b] # 0
              /\ row[e][b].state = "none" /\ crashes = 0 /\ ~capped => left[e][b] = {}
  BY DEF ContactInv
<1>18. ContactTypeOK'
  BY ZenonT(60), <1>1, <1>9, <1>12, <1>13, <1>14, <1>15 DEF ContactInv, ContactTypeOK, Sites
<1>19. ASSUME NEW e \in Ends, NEW b \in Accepters
       PROVE  /\ RowFits(e, row[e][b], left[e][b], crashes = 0)'
              /\ row'[e][b].state # "none" => scanned'[b] # 0
              /\ row'[e][b].state = "none" /\ crashes' = 0 /\ ~capped' => left'[e][b] = {}
  <2>1. CASE (e # "peer" \/ b # a) \/ (row'[e][b] = row[e][b] /\ left'[e][b] = left[e][b])
    <3>1. row'[e][b] = row[e][b] /\ left'[e][b] = left[e][b]  BY ZenonT(60), <1>14, <1>15, <2>1
    <3>2. RowFits(e, row[e][b], left[e][b], crashes = 0)'  BY SMT, <1>12, <1>17, <3>1 DEF RowFits
    <3>3. row'[e][b].state # "none" => scanned'[b] # 0  BY ZenonT(60), <1>9, <1>16, <1>17, <3>1
    <3> QED  BY <1>1, <1>12, <1>17, <3>1, <3>2, <3>3
  <2>2. CASE e = "peer" /\ b = a /\ row'["peer"][a] = r /\ left'["peer"][a] = whole
    <3>1. RowFits(e, row[e][b], left[e][b], crashes = 0)'  BY <1>3, <1>5, <2>2 DEF RowFits
    <3> QED  BY <1>3, <1>8, <1>9, <2>2, <3>1
  <2>3. CASE /\ e = "peer" /\ b = a /\ row'["peer"][a] = row["peer"][a]
             /\ left'["peer"][a] = l /\ crashes' # 0
    <3>1. row'[e][b] = NoRow  BY ZenonT(60), <1>16, <1>17, <2>3 DEF RowFits
    <3>2. "ledger" \notin l  BY <1>4
    <3>3. RowFits(e, row[e][b], left[e][b], crashes = 0)'
      BY <2>3, <3>1, <3>2, NoRowFacts DEF RowFits
    <3> QED  BY <2>3, <3>1, <3>3, NoRowFacts
  <2> QED  BY <1>15, <2>1, <2>2, <2>3
<1>20. ASSUME NEW b \in Accepters, row'["host"][b].state # "none"
       PROVE  persona' = 0 \/ pending' # scanned'[b]
  <2>1. row'["host"][b] = row["host"][b]  BY <1>6, <1>14
  <2>2. b # a  BY <1>6, <1>16, <1>20, <2>1
  <2> QED  BY <1>1, <1>9, <1>20, <2>1, <2>2 DEF ContactInv
<1>21. \A f \in wire' : scanned'[f.rel] # 0
  BY <1>1, <1>8, <1>9, Typed
<1>22. (crashes' = 0 => persona' = 0 \/ persona' = pending') /\ OfferIsWhole'
  BY <1>1, <1>12 DEF ContactInv, OfferIsWhole
<1>23. OpenIsInvited'
  <2>1. SUFFICES ASSUME crashes' = 0, faults' = 0, NEW s \in Codes, hosted'[s] = "open"
                 PROVE  \/ pending = s
                        \/ \E b \in Accepters : row'["host"][b].state = "request" /\ scanned'[b] = s
    BY ZenonT(60), <1>1 DEF OpenIsInvited, AtService
  <2>2. \/ pending = s
        \/ \E b \in Accepters : row["host"][b].state = "request" /\ scanned[b] = s
    BY <1>12, <1>13, <2>1 DEF ContactInv, OpenIsInvited, AtService
  <2>3. ASSUME NEW b \in Accepters, row["host"][b].state = "request", scanned[b] = s
        PROVE  row'["host"][b].state = "request" /\ scanned'[b] = s
    BY <1>6, <1>9, <1>14, <1>16, <2>3
  <2> QED  BY <2>2, <2>3
<1>24. BreaksOnlyByRescan'
  <2>1. SUFFICES ASSUME crashes' = 0, NEW e \in Ends, NEW b \in Accepters,
                        row'[e][b].session = "broken"
                 PROVE  \E w \in Accepters \ {b} : scanned'[w] = scanned'[b]
    BY DEF BreaksOnlyByRescan
  <2>2. row'[e][b] = row[e][b]  BY <1>3, <1>14, <2>1
  <2>3. b # a  BY SMT, <1>16, <1>17, <2>1, <2>2, NoRowFacts DEF RowFits
  <2>4. scanned[b] # 0  BY <1>17, <2>1, <2>2, NoRowFacts DEF RowFits
  <2>5. PICK w \in Accepters \ {b} : scanned[w] = scanned[b]
    BY SMT, <1>12, <2>1, <2>2 DEF ContactInv, BreaksOnlyByRescan
  <2>6. w # a  BY <1>1, <2>4, <2>5
  <2> QED  BY <1>9, <2>3, <2>5, <2>6
<1> QED  BY ZenonT(60), <1>18, <1>19, <1>20, <1>21, <1>22, <1>23, <1>24 DEF ContactInv

\* The invariant holds at first start.
LEMMA InitContact == Init => ContactInv
<1> SUFFICES ASSUME Init PROVE ContactInv  OBVIOUS
<1>1. ContactTypeOK
  <2>1. 0 \in 0..0 /\ 0 \in Nat /\ 0 <= MaxOffers  BY SMT, BoundsAreNatural
  <2>2. "off" \in Auths /\ FALSE \in BOOLEAN  BY DEF Auths
  <2> QED  BY <2>1, <2>2, NoRowFacts DEF Init, ContactTypeOK
<1>2. \A e \in Ends, a \in Accepters : row[e][a] = NoRow /\ left[e][a] = {}  BY DEF Init
<1>3. "host" \in Ends  BY DEF Ends
<1>4. \A e \in Ends, a \in Accepters : RowFits(e, row[e][a], left[e][a], crashes = 0)
  BY <1>2, NoRowFacts DEF RowFits
<1>5. OfferIsWhole  BY DEF Init, OfferIsWhole
<1>6. OpenIsInvited
  <2>1. \A s \in Codes : hosted[s] = "off"  BY DEF Init
  <2> QED  BY <2>1 DEF OpenIsInvited
<1>7. BreaksOnlyByRescan  BY <1>2, NoRowFacts DEF BreaksOnlyByRescan
<1> QED  BY ZenonT(60), <1>1, <1>2, <1>3, <1>4, <1>5, <1>6, <1>7, NoRowFacts DEF Init, ContactInv

\* Every step keeps it.
LEMMA NextContact ==
  ASSUME ContactInv, [Next]_vars  PROVE ContactInv'
<1>1. CASE Offer  BY <1>1, OfferKeeps
<1>2. CASE ClearOffer  BY <1>2, ClearOfferKeeps
<1>3. ASSUME NEW a \in Accepters, AcceptRequest(a)  PROVE ContactInv'
  BY <1>3, AcceptRequestKeeps
<1>4. ASSUME NEW a \in Accepters, Hello(a)  PROVE ContactInv'  BY <1>4, HelloKeeps
<1>5. ASSUME NEW a \in Accepters, NEW c \in Codes, Accept(a, c)  PROVE ContactInv'
  BY <1>5, AcceptKeeps
<1>6. ASSUME NEW f \in wire, Receive(f)  PROVE ContactInv'
  BY <1>6, IntroUnreadKeeps, IntroCutKeeps, IntroMadeKeeps, HostReceivesKeeps,
     PeerReceivesKeeps DEF Receive
<1>7. ASSUME NEW e \in Ends, Unlock(e)  PROVE ContactInv'  BY <1>7, UnlockKeeps
<1>8. ASSUME NEW e \in Ends, NEW a \in Accepters,
             Drain(e, a) \/ CloseContact(e, a) \/ SettleWindowEnds(e, a) \/ Sweep(e, a)
      PROVE  ContactInv'
  BY ZenonT(60), <1>8, DrainKeeps, CloseContactKeeps, SettleKeeps, SweepKeeps
<1>9. CASE UNCHANGED vars
  BY SMT, <1>9 DEF vars, ContactInv, ContactTypeOK, RowFits, OfferIsWhole, OpenIsInvited,
     BreaksOnlyByRescan, AtService
<1> QED  BY <1>1, <1>2, <1>3, <1>4, <1>5, <1>6, <1>7, <1>8, <1>9 DEF Next

\* The invariant holds of every behaviour.
LEMMA ContactInvariance == Spec => []ContactInv
<1>1. Init => ContactInv  BY InitContact
<1>2. ContactInv /\ [Next]_vars => ContactInv'  BY NextContact
<1> QED  BY <1>1, <1>2, PTL DEF Spec

\* An offer's row is there exactly when its persona is, unless a crash or
\* MAX_RELATIONSHIPS cut ingest_intro short.
THEOREM OffersStayWhole == Spec => []OfferIsWhole
<1>1. ContactInv => OfferIsWhole  BY DEF ContactInv
<1> QED  BY <1>1, ContactInvariance, PTL

\* A service anybody may reach belongs to the open offer or to an unanswered
\* request, unless tor failed or a crash came in between: offer, clear_pending,
\* ingest_intro, accept_request, burn and restore_services agree.
THEOREM OpenServicesAreInvited == Spec => []OpenIsInvited
<1>1. ContactInv => OpenIsInvited  BY DEF ContactInv
<1> QED  BY <1>1, ContactInvariance, PTL

\* Without a crash a session breaks only when a second device scanned the code.
THEOREM SessionsBreakByRescan == Spec => []BreaksOnlyByRescan
<1>1. ContactInv => BreaksOnlyByRescan  BY DEF ContactInv
<1> QED  BY <1>1, ContactInvariance, PTL

\* Without a crash an active inviter, and an accepter that has heard from it,
\* have made their activation burst.
THEOREM BurstsFollow == Spec => []BurstFollows
<1>1. ContactInv => BurstFollows
  <2>1. SUFFICES ASSUME ContactInv, crashes = 0, NEW e \in Ends, NEW a \in Accepters,
                        IF e = "host" THEN row[e][a].state = "active" ELSE row[e][a].heard,
                        row[e][a].session = "active", ~row[e][a].closing
                 PROVE  "burst" \in row[e][a].sent
    BY DEF BurstFollows
  <2>2. RowFits(e, row[e][a], left[e][a], crashes = 0)  BY <2>1 DEF ContactInv
  <2> QED  BY <2>1, <2>2 DEF RowFits, Ends
<1> QED  BY <1>1, ContactInvariance, PTL

\* Where there is no row there is no ledger, and but for a crash or a refused
\* INTRO no keys: burn_relationship deletes the row last.
THEOREM BurnsAreWhole == Spec => []BurnedIsGone
<1>1. ContactInv => BurnedIsGone  BY DEF ContactInv, BurnedIsGone, RowFits
<1> QED  BY <1>1, ContactInvariance, PTL

-----------------------------------------------------------------------------
(* The close *)

\* A handler writes one row only.
LEMMA TakeRow ==
  ASSUME ContactInv, NEW e \in Ends, NEW a \in Accepters, NEW outs, NEW p, NEW up, NEW read,
         Take(e, a, outs, p, up, read), NEW g \in Ends, NEW b \in Accepters
  PROVE  \/ row'[g][b] = row[g][b] /\ (g # e \/ b # a)
         \/ g = e /\ b = a /\ \E d \in outs : row'[g][b] = d.row
<1>1. PICK d \in outs : row' = [row EXCEPT ![e][a] = d.row]  BY DEF Take
<1>2. row \in [Ends -> [Accepters -> RowType]]  BY DEF ContactInv, ContactTypeOK
<1> QED  BY <1>1, <1>2

\* No frame burns a closing row.
LEMMA ReceiveSpares ==
  ASSUME ContactInv, NEW f \in wire, Receive(f), NEW g \in Ends, NEW b \in Accepters,
         row[g][b].closing
  PROVE  row'[g][b].state # "none"
<1>1. /\ "host" \in Ends /\ "peer" \in Ends /\ f.rel \in Accepters /\ f.kind \in Kinds
  BY Typed DEF Ends
<1>2. row[g][b].state # "none"
  <2>1. RowFits(g, row[g][b], left[g][b], crashes = 0)  BY DEF ContactInv
  <2> QED  BY <2>1, NoRowFacts DEF RowFits
<1>3. ASSUME NEW outs, NEW p, NEW read, Take("host", f.rel, outs, p, hosted, read), IntroPasses(f)
      PROVE  row'[g][b].state # "none"
  <2>1. row["host"][f.rel].state = "none"  BY <1>3, IntroFacts
  <2>2. row'[g][b] = row[g][b]  BY SMT, <1>1, <1>2, <1>3, <2>1, TakeRow
  <2> QED  BY <1>2, <2>2
<1>4. ASSUME NEW e \in Ends, NEW a \in Accepters, NEW trusted \in BOOLEAN,
             row[e][a].state # "none",
             Take(e, a, Decrypt(e, a, f.kind, trusted), pending, hosted, {f})
      PROVE  row'[g][b].state # "none"
  <2>1. CASE row'[g][b] = row[g][b]  BY <1>2, <2>1
  <2>2. ASSUME NEW d \in Decrypt(e, a, f.kind, trusted), g = e, b = a, row'[g][b] = d.row
        PROVE  row'[g][b].state # "none"
    <3>1. row[e][a].closing => d.row.state = row[e][a].state  BY SMT, <1>1, <1>4, <2>2, DecryptFine
    <3> QED  BY <1>2, <2>2, <3>1
  <2> QED  BY SMT, <1>4, <2>1, <2>2, TakeRow
<1>5. CASE IntroUnread(f)  BY <1>3, <1>5 DEF IntroUnread
<1>6. CASE IntroCut(f)  BY <1>3, <1>6 DEF IntroCut
<1>7. CASE IntroMade(f)  BY <1>3, <1>7 DEF IntroMade
<1>8. CASE HostReceives(f)
  <2>1. PICK a \in AtService(scanned[f.rel]) :
           Take("host", a, Decrypt("host", a, f.kind, Trusted(a, f)), pending, hosted, {f})
    BY <1>8 DEF HostReceives
  <2>2. a \in Accepters /\ row["host"][a].state # "none"  BY DEF AtService
  <2>3. Trusted(a, f) \in BOOLEAN  BY DEF Trusted
  <2> QED  BY <1>1, <1>4, <2>1, <2>2, <2>3
<1>9. CASE PeerReceives(f)
  <2>1. /\ row["peer"][f.rel].state # "none"
        /\ Take("peer", f.rel, Decrypt("peer", f.rel, f.kind, TRUE), pending, hosted, {f})
    BY <1>9 DEF PeerReceives
  <2>2. TRUE \in BOOLEAN  OBVIOUS
  <2> QED  BY <1>1, <1>4, <2>1, <2>2
<1> QED  BY <1>5, <1>6, <1>7, <1>8, <1>9 DEF Receive

\* A closing row goes only when the sweep finds it due.
LEMMA StepSpares ==
  ASSUME ContactInv, Next, NEW g \in Ends, NEW b \in Accepters,
         row[g][b].closing, row'[g][b].state = "none"
  PROVE  Due(row[g][b])
<1>1. row[g][b].state # "none"
  <2>1. RowFits(g, row[g][b], left[g][b], crashes = 0)  BY DEF ContactInv
  <2> QED  BY <2>1, NoRowFacts DEF RowFits
<1>2. row \in [Ends -> [Accepters -> RowType]]  BY DEF ContactInv, ContactTypeOK
<1>3. "host" \in Ends /\ "peer" \in Ends  BY DEF Ends
<1>4. ASSUME Offer \/ ClearOffer \/ \E e \in Ends : Unlock(e)  PROVE FALSE
  BY <1>1, <1>4 DEF Offer, ClearOffer, Unlock
<1>5. ASSUME NEW a \in Accepters, AcceptRequest(a)  PROVE FALSE
  <2> DEFINE r == row["host"][a]
  <2>1. PICK x : x = [r EXCEPT !.state = "active"]  OBVIOUS
  <2>2. PICK d : d = Did("host", a, x)  OBVIOUS
  <2>3. Take("host", a, {Dead(d)} \cup Says("host", a, d, "burst"), pending,
             [hosted EXCEPT ![scanned[a]] = a], {})
    BY <1>5, <2>1, <2>2 DEF AcceptRequest, Activate
  <2>4. r \in RowType  BY <1>2, <1>3
  <2> HIDE DEF r
  <2>5. x \in RowType /\ x.state = "active"  BY SMT, <2>1, <2>4, SetState
  <2>6. d \in DidType /\ d.row = x /\ d.out = {}  BY SMT, <1>3, <2>2, <2>5, DidFacts
  <2>7. "burst" \in Kinds  BY DEF Kinds
  <2>8. ASSUME NEW y \in {Dead(d)} \cup Says("host", a, d, "burst")  PROVE y.row.state # "none"
    <3>1. CASE y = Dead(d)  BY <2>5, <2>6, <3>1, SetDead
    <3>2. CASE y \in Says("host", a, d, "burst")
      <4>1. Alike(y.row, d.row)  BY SMT, <1>3, <2>6, <2>7, <3>2, SaysFacts
      <4> QED  BY <2>5, <2>6, <4>1 DEF Alike
    <3> QED  BY <3>1, <3>2
  <2> QED  BY SMT, <1>1, <1>3, <2>3, <2>8, TakeRow
<1>6. ASSUME NEW a \in Accepters, Hello(a)  PROVE FALSE
  <2> DEFINE r == row["peer"][a]
  <2>1. PICK s \in Sent("peer", a, r, "hello") : row' = [row EXCEPT !["peer"][a] = s[1]]
    BY <1>6 DEF Hello
  <2>2. r.state = "active" /\ r \in RowType  BY ZenonT(60), <1>2, <1>3, <1>6 DEF Hello
  <2>3. "hello" \in Kinds  BY DEF Kinds
  <2> HIDE DEF r
  <2>4. Alike(s[1], r)  BY SMT, <1>3, <2>1, <2>2, <2>3, SentFacts
  <2>5. s[1].state # "none"  BY <2>2, <2>4 DEF Alike
  <2> QED  BY <1>1, <1>2, <1>3, <2>1, <2>5
<1>7. ASSUME NEW a \in Accepters, NEW c \in Codes, Accept(a, c)  PROVE FALSE
  <2>1. PICK r : r = [NoRow EXCEPT !.state = "active", !.intro = TRUE]  OBVIOUS
  <2>2. row' = row \/ row' = [row EXCEPT !["peer"][a] = r]  BY <1>7, <2>1 DEF Accept
  <2>3. r.state = "active"  BY <2>1 DEF NoRow
  <2> QED  BY ZenonT(60), <1>1, <1>2, <1>3, <2>2, <2>3
<1>8. ASSUME NEW f \in wire, Receive(f)  PROVE FALSE  BY <1>8, ReceiveSpares
<1>9. ASSUME NEW e \in Ends, NEW a \in Accepters, Drain(e, a)  PROVE FALSE
  <2>1. PICK k : row' = [row EXCEPT ![e][a].outbox = @ \ {k}]  BY <1>9 DEF Drain
  <2>2. row'[g][b].state = row[g][b].state  BY SMT, <1>2, <2>1 DEF RowType
  <2> QED  BY <1>1, <2>2
<1>10. ASSUME NEW e \in Ends, NEW a \in Accepters, SettleWindowEnds(e, a)  PROVE FALSE
  <2>1. row' = [row EXCEPT ![e][a].late = TRUE]  BY <1>10 DEF SettleWindowEnds
  <2>2. row'[g][b].state = row[g][b].state  BY SMT, <1>2, <2>1 DEF RowType
  <2> QED  BY <1>1, <2>2
<1>11. ASSUME NEW e \in Ends, NEW a \in Accepters, CloseContact(e, a)  PROVE FALSE
  <2>1. ~row[e][a].closing  BY <1>11 DEF CloseContact
  <2>2. PICK outs : Take(e, a, outs, pending, hosted, {})  BY <1>11 DEF CloseContact
  <2>3. row'[g][b] = row[g][b]  BY SMT, <2>1, <2>2, TakeRow
  <2> QED  BY <1>1, <2>3
<1>12. ASSUME NEW e \in Ends, NEW a \in Accepters, Sweep(e, a)  PROVE Due(row[g][b])
  <2>1. Due(row[e][a]) /\ Take(e, a, Burn(Did(e, a, row[e][a])), pending, hosted, {})
    BY <1>12 DEF Sweep
  <2>2. row'[g][b] = row[g][b] \/ (g = e /\ b = a)  BY SMT, <2>1, TakeRow
  <2> QED  BY <1>1, <2>1, <2>2
<1> QED  BY <1>4, <1>5, <1>6, <1>7, <1>8, <1>9, <1>10, <1>11, <1>12 DEF Next

\* Without a crash a closing contact that could speak is burned only after its
\* CONTACT_CLOSE was written to the peer, or the settle window passed.
THEOREM ClosesAreTold == Spec => CloseIsTold
<1> DEFINE Told(e, a) ==
      LET r == row[e][a] IN
      /\ r.closing /\ row'[e][a].state = "none" /\ crashes = 0 /\ ~r.late
      => r.mute \/ r.session = "broken" \/ "close" \in r.sent \ r.outbox
    Step == \A e \in Ends, a \in Accepters : Told(e, a)
<1>1. ASSUME ContactInv, Next, NEW e \in Ends, NEW a \in Accepters  PROVE Told(e, a)
  <2>1. SUFFICES ASSUME row[e][a].closing, row'[e][a].state = "none", crashes = 0,
                        ~row[e][a].late, ~row[e][a].mute
                 PROVE  "close" \in row[e][a].sent /\ row[e][a].outbox = {}
    OBVIOUS
  <2>2. Due(row[e][a])  BY <1>1, <2>1, StepSpares
  <2>3. RowFits(e, row[e][a], left[e][a], crashes = 0)  BY <1>1 DEF ContactInv
  <2> QED  BY <2>1, <2>2, <2>3 DEF Due, RowFits
<1>2. ContactInv /\ [Next]_vars => [Step]_vars  BY <1>1
<1>3. Spec => [][Step]_vars  BY <1>2, ContactInvariance, PTL DEF Spec
<1> QED  BY <1>3 DEF CloseIsTold
=============================================================================
