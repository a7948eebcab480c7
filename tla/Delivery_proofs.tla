-------------------------- MODULE Delivery_proofs --------------------------
(***************************************************************************)
(* Proofs about Delivery, for any bounds, repair window and scan limit.    *)
(* They rest on one inductive invariant, IInv: the sending half of an      *)
(* engine is in order (GoodOut), and what an engine noted was sent and     *)
(* decrypted.  Every action moves one engine's two halves and takes        *)
(* records off the other's wire, so that each case of the induction is an  *)
(* instance of lemma EngineStep.                                           *)
(***************************************************************************)
EXTENDS Delivery, WellFoundedInduction, TLAPS

\* A leaf is for Zenon unless it names another prover.
USE Zenon

OutType == [floor : 1 .. MaxSeq + 1, env : [Seqs -> Envelopes],
            row : [Seqs -> RowStates], outbox : SUBSET Seqs, wire : SUBSET Seqs]

InType == [frames : SUBSET Seqs, ratchet : SUBSET Seqs,
           seqs : SUBSET Seqs, stored : SUBSET Seqs]

Sent(o) == {s \in Seqs : o.env[s] # NoEnv}

\* The view of an envelope covers only seqs of S.
Within(e, S) == e.kind = "resync" => 1 .. e.max \subseteq S /\ e.bits \subseteq S

\* A sending half in order, S being the seqs its engine has noted and P the
\* ones the peer has noted.
GoodOut(o, S, P) ==
  /\ o \in OutType
  /\ \A s \in Seqs : o.env[s] # NoEnv \/ o.row[s] # "none" => s < o.floor
  /\ \A s \in Seqs : o.row[s] # "none" => o.env[s] # NoEnv
  /\ o.outbox \cup o.wire \subseteq Sent(o)
  /\ \A s \in Seqs : Within(o.env[s], S)
  /\ \A s \in Seqs : o.row[s] = "acknowledged" => s \in P

\* Nothing more is done for s: its row is settled or erased, and no record of it
\* waits in the outbox.
Settled(o, s) == o.row[s] \notin Undelivered /\ s \notin o.outbox

\* What no step of an engine undoes: the envelopes it has used numbers for, and
\* what is settled.
Evolves(o, o2) ==
  /\ o.floor <= o2.floor
  /\ \A s \in Seqs : s < o.floor =>
       /\ o2.env[s] = o.env[s]
       /\ o.row[s] = "none" => o2.row[s] = "none"
       /\ Settled(o, s) => o2.row[s] \in {o.row[s], "none"} /\ s \notin o2.outbox

-----------------------------------------------------------------------------

\* The receive view has a contiguous horizon.
LEMMA MaxContiguousExists ==
  ASSUME NEW S \in SUBSET Seqs
  PROVE  /\ MaxContiguous(S) \in 0 .. MaxSeq
         /\ 1 .. MaxContiguous(S) \subseteq S
         /\ MaxContiguous(S) + 1 \notin S
<1> DEFINE T == {k \in Nat : k + 1 \notin S}
<1>0. MaxSeq \in Nat  BY BoundsAssumption
<1>1. T \subseteq Nat /\ MaxSeq \in T  BY SMT, <1>0 DEF Seqs
<1>2. PICK k \in T : \A j \in T : ~(<<j, k>> \in OpToRel(<, Nat))
  BY <1>1, WFMin, NatLessThanWellFounded
<1>3. \A j \in T : ~(j < k)
  BY <1>2 DEF OpToRel
<1>4. k \in 0 .. MaxSeq  BY SMT, <1>0, <1>1, <1>3
<1>5. 1 .. k \subseteq S
  <2> SUFFICES ASSUME NEW j \in 1 .. k PROVE j \in S
    OBVIOUS
  <2>1. j - 1 \in Nat /\ j - 1 < k /\ (j - 1) + 1 = j  BY SMT, <1>4
  <2> QED  BY <2>1, <1>3
<1>6. k + 1 \notin S  OBVIOUS
<1> QED  BY <1>4, <1>5, <1>6 DEF MaxContiguous

\* A RESYNC_REQ covers only what its sender has noted.
LEMMA RequestWithin ==
  ASSUME NEW S \in SUBSET Seqs
  PROVE  /\ BuildRequest(S) \in Envelopes
         /\ BuildRequest(S) # NoEnv
         /\ Within(BuildRequest(S), S)
<1>0. Scanned(S) \in SUBSET S  BY DEF Scanned
<1>1. Scanned(S) \in SUBSET Seqs  BY <1>0
<1> DEFINE max == MaxContiguous(Scanned(S))
           bits == {s \in Scanned(S) : s > max + 1 /\ s - max - 1 < BitmapBits}
<1>2. BuildRequest(S) = [kind |-> "resync", max |-> max, bits |-> bits]
  BY DEF BuildRequest
<1>3. max \in 0 .. MaxSeq /\ 1 .. max \subseteq S
  BY <1>0, <1>1, MaxContiguousExists
<1>4. bits \subseteq S /\ bits \in SUBSET Seqs  BY <1>0, <1>1
<1> HIDE DEF max, bits
<1> QED  BY SMT, <1>2, <1>3, <1>4 DEF Envelopes, NoEnv, Within

\* A seq that a view of P does not miss is in P.
LEMMA CoveredIsNoted ==
  ASSUME NEW P, NEW e \in Envelopes, e.kind = "resync", Within(e, P),
         NEW s \in Seqs, ~IsMissing(e, s)
  PROVE  s \in P
<1>1. e.max \in Int /\ s \in Int /\ s >= 1  BY SMT, BoundsAssumption DEF Envelopes, Seqs
<1>2. CASE s <= e.max  BY SMT, <1>1, <1>2 DEF Within
<1>3. CASE s > e.max  BY <1>1, <1>3 DEF Within, IsMissing
<1> QED  BY SMT, <1>1, <1>2, <1>3

\* next_out_seq is the floor: the ledger never runs ahead of it.
LEMMA NextIsFloor ==
  ASSUME NEW S, NEW P, NEW o, GoodOut(o, S, P)
  PROVE  NextOutSeq(o) = o.floor
<1> DEFINE cands == {o.floor} \cup {s + 1 : s \in Rows(o)}
<1>1. o.floor \in Int  BY SMT, BoundsAssumption DEF GoodOut, OutType
<1>2. \A j \in cands : j \in Int /\ j <= o.floor
  BY SMT, <1>1, BoundsAssumption DEF GoodOut, Rows, Seqs
<1>3. o.floor \in cands  OBVIOUS
<1>4. \A k \in cands : (\A j \in cands : j <= k) => k = o.floor
  BY SMT, <1>1, <1>2, <1>3
<1>5. NextOutSeq(o) = CHOOSE k \in cands : \A j \in cands : j <= k
  BY DEF NextOutSeq
<1> HIDE DEF cands
<1> QED  BY <1>2, <1>3, <1>4, <1>5

\* A good half stays good when more is noted.
LEMMA GoodOutMonotone ==
  ASSUME NEW S, NEW P, NEW S2, NEW P2, NEW o, GoodOut(o, S, P),
         S \subseteq S2, P \subseteq P2
  PROVE  GoodOut(o, S2, P2)
BY DEF GoodOut, Within

\* A sending half that does not move has evolved trivially.
LEMMA EvolvesReflexive ==
  ASSUME NEW o \in OutType
  PROVE  Evolves(o, o)
BY SMT, BoundsAssumption DEF Evolves, OutType, Settled

\* Two moves of a sending half in one action compose (receive, then reply).
LEMMA EvolvesTransitive ==
  ASSUME NEW o1 \in OutType, NEW o2 \in OutType, NEW o3 \in OutType,
         Evolves(o1, o2), Evolves(o2, o3)
  PROVE  Evolves(o1, o3)
<1>1. \A s \in Seqs : s < o1.floor /\ Settled(o1, s) =>
        o3.row[s] \in {o1.row[s], "none"} /\ s \notin o3.outbox
  <2> SUFFICES ASSUME NEW s \in Seqs, s < o1.floor, Settled(o1, s)
               PROVE  o3.row[s] \in {o1.row[s], "none"} /\ s \notin o3.outbox
    OBVIOUS
  <2>1. o2.row[s] \in {o1.row[s], "none"} /\ s \notin o2.outbox  BY DEF Evolves
  <2>2. s < o2.floor  BY SMT, BoundsAssumption DEF Evolves, OutType, Seqs
  <2>3. Settled(o2, s)  BY <2>1 DEF Settled, Undelivered
  <2>4. o3.row[s] \in {o2.row[s], "none"} /\ s \notin o3.outbox  BY <2>2, <2>3 DEF Evolves
  <2> QED  BY <2>1, <2>4
<1> QED  BY SMT, <1>1, BoundsAssumption DEF Evolves, OutType, Seqs

\* send_envelope keeps a half in order.
LEMMA SendGood ==
  ASSUME NEW S, NEW P, NEW o, GoodOut(o, S, P), NextOutSeq(o) \in Seqs,
         NEW e \in Envelopes, e # NoEnv, Within(e, S),
         NEW r \in SendResults \cup SendCrashes
  PROVE  GoodOut(AfterSend(o, e, r), S, P) /\ Evolves(o, AfterSend(o, e, r))
<1> DEFINE s == o.floor
           o2 == AfterSend(o, e, r)
<1> SUFFICES GoodOut(o2, S, P) /\ Evolves(o, o2)
  OBVIOUS
<1>1. NextOutSeq(o) = s /\ s \in Seqs  BY NextIsFloor
<1>2. o \in OutType /\ MaxSeq \in Nat  BY BoundsAssumption DEF GoodOut
<1>3. CASE r = "burned"
  <2>1. o2 = [o EXCEPT !.floor = s + 1]  BY <1>1, <1>3 DEF AfterSend
  <2>2. o2 \in OutType /\ o2.floor = s + 1 /\ o2.env = o.env /\ o2.row = o.row
          /\ o2.outbox = o.outbox /\ o2.wire = o.wire
    BY SMTT(60), <1>1, <1>2, <2>1 DEF OutType, Seqs
  <2> HIDE DEF o2
  <2> QED  BY SMT, <1>1, <1>2, <2>2 DEF GoodOut, Evolves, Settled, Sent, Seqs, OutType
<1>4. CASE r # "burned"
  <2> DEFINE st == IF r = "sent" THEN "transmitted" ELSE "queued"
             ob == IF r \in {"refused", "unsure"} THEN o.outbox \cup {s} ELSE o.outbox
             wi == IF r \in {"sent", "unsure", "unmarked"} THEN o.wire \cup {s} ELSE o.wire
  <2>1. o2 = [o EXCEPT !.floor = s + 1, !.env[s] = e, !.row[s] = st, !.outbox = ob, !.wire = wi]
    BY <1>1, <1>2, <1>4 DEF AfterSend, Encrypted, OutType
  <2>2. /\ o2.floor = s + 1
        /\ o2.env = [o.env EXCEPT ![s] = e]
        /\ o2.row = [o.row EXCEPT ![s] = st]
        /\ o2.outbox = ob /\ o2.wire = wi
    BY <1>2, <2>1 DEF OutType
  <2>3. o2 \in OutType
    <3>1. o2 = [floor |-> s + 1, env |-> [o.env EXCEPT ![s] = e],
                row |-> [o.row EXCEPT ![s] = st], outbox |-> ob, wire |-> wi]
      BY <1>2, <2>1 DEF OutType
    <3>2. s + 1 \in 1 .. MaxSeq + 1  BY SMT, <1>1, <1>2 DEF Seqs
    <3>3. [o.env EXCEPT ![s] = e] \in [Seqs -> Envelopes]  BY <1>1, <1>2 DEF OutType
    <3>4. [o.row EXCEPT ![s] = st] \in [Seqs -> RowStates]
      BY <1>1, <1>2 DEF OutType, RowStates
    <3>5. ob \in SUBSET Seqs /\ wi \in SUBSET Seqs  BY <1>1, <1>2 DEF OutType
    <3> QED  BY SMT, <3>1, <3>2, <3>3, <3>4, <3>5 DEF OutType
  <2>4. st \in {"transmitted", "queued"}  OBVIOUS
  <2>5. ob \subseteq o.outbox \cup {s} /\ wi \subseteq o.wire \cup {s}  OBVIOUS
  <2> HIDE DEF o2, st, ob, wi
  <2>6. \A t \in Seqs : o2.env[t] = IF t = s THEN e ELSE o.env[t]
    BY <1>1, <1>2, <2>2 DEF OutType
  <2>7. \A t \in Seqs : o2.row[t] = IF t = s THEN st ELSE o.row[t]
    BY <1>1, <1>2, <2>2 DEF OutType
  <2>8. GoodOut(o2, S, P)
    BY SMT, <1>1, <1>2, <2>2, <2>3, <2>4, <2>5, <2>6, <2>7 DEF GoodOut, Sent, Seqs, OutType
  <2>9. Evolves(o, o2)
    BY SMT, <1>1, <1>2, <2>2, <2>5, <2>6, <2>7 DEF Evolves, Settled, Seqs, OutType
  <2> QED  BY <2>8, <2>9
<1> QED  BY <1>3, <1>4

\* A step that only moves ledger rows, and the outbox and wire within what
\* was sent, keeps a half in order.
LEMMA RowsGood ==
  ASSUME NEW S, NEW P, NEW o, GoodOut(o, S, P),
         NEW row \in [Seqs -> RowStates], NEW ob \in SUBSET Sent(o), NEW wi \in SUBSET Sent(o),
         NEW o2, o2 = [floor |-> o.floor, env |-> o.env, row |-> row, outbox |-> ob, wire |-> wi],
         \A s \in Seqs : o.row[s] = "none" => row[s] = "none",
         \A s \in Seqs : Settled(o, s) => row[s] \in {o.row[s], "none"} /\ s \notin ob,
         \A s \in Seqs : row[s] = "acknowledged" => s \in P
  PROVE  GoodOut(o2, S, P) /\ Evolves(o, o2)
<1>1. o \in OutType /\ MaxSeq \in Nat  BY BoundsAssumption DEF GoodOut
<1>2. Sent(o) \subseteq Seqs  BY DEF Sent
<1>3. o2 \in OutType  BY <1>1, <1>2 DEF OutType
<1>4. o2.floor = o.floor /\ o2.env = o.env /\ o2.row = row /\ o2.outbox = ob /\ o2.wire = wi
  OBVIOUS
<1>5. Sent(o2) = Sent(o)  BY <1>4 DEF Sent
<1>6. \A s \in Seqs : row[s] # "none" => o.row[s] # "none"  OBVIOUS
<1>7. GoodOut(o2, S, P)  BY <1>3, <1>4, <1>5, <1>6 DEF GoodOut
<1>8. Evolves(o, o2)  BY SMT, <1>1, <1>4 DEF Evolves, OutType
<1> QED  BY <1>7, <1>8

\* The record a step of AfterRequest, FailOutbound or AfterDrain leaves: the
\* ledger rows, the outbox and the wire change, the floor and envelopes stay.
LEMMA OutUpdate ==
  ASSUME NEW o \in OutType, NEW row, NEW ob, NEW wi
  PROVE  /\ [o EXCEPT !.row = row, !.outbox = ob] =
              [floor |-> o.floor, env |-> o.env, row |-> row, outbox |-> ob, wire |-> o.wire]
         /\ [o EXCEPT !.row = row, !.outbox = ob, !.wire = wi] =
              [floor |-> o.floor, env |-> o.env, row |-> row, outbox |-> ob, wire |-> wi]
<1> DEFINE r1 == [floor |-> o.floor, env |-> o.env, row |-> row,
                  outbox |-> o.outbox, wire |-> o.wire]
           r2 == [floor |-> o.floor, env |-> o.env, row |-> row,
                  outbox |-> ob, wire |-> o.wire]
           r3 == [floor |-> o.floor, env |-> o.env, row |-> row,
                  outbox |-> ob, wire |-> wi]
<1>1. [o EXCEPT !.row = row] = r1  BY SMT DEF OutType
<1>2. [r1 EXCEPT !.outbox = ob] = r2  BY SMT
<1>3. [r2 EXCEPT !.wire = wi] = r3  BY SMT
<1>4. [o EXCEPT !.row = row, !.outbox = ob] = [r1 EXCEPT !.outbox = ob]  BY <1>1
<1>5. [o EXCEPT !.row = row, !.outbox = ob, !.wire = wi] = [r2 EXCEPT !.wire = wi]
  BY <1>1, <1>2
<1> QED  BY <1>2, <1>3, <1>4, <1>5

\* handle_request acknowledges only what the view covers, so only what the
\* peer noted.
LEMMA RequestGood ==
  ASSUME NEW S, NEW P, NEW o, GoodOut(o, S, P),
         NEW e \in Envelopes, e.kind = "resync", Within(e, P),
         NEW acked \in SUBSET Covered(o, e), NEW live \in SUBSET Missing(o, e)
  PROVE  LET o2 == AfterRequest(o, acked, live) IN GoodOut(o2, S, P) /\ Evolves(o, o2)
<1> DEFINE row == [s \in Seqs |-> IF s \in acked THEN "acknowledged" ELSE o.row[s]]
           ob == o.outbox \cup live
           o2 == AfterRequest(o, acked, live)
<1>1. o \in OutType  BY DEF GoodOut
<1>2. o2 = [floor |-> o.floor, env |-> o.env, row |-> row, outbox |-> ob, wire |-> o.wire]
  <2>1. o2 = [o EXCEPT !.row = row, !.outbox = ob]  BY DEF AfterRequest
  <2> HIDE DEF row, ob, o2
  <2> QED  BY <1>1, <2>1, OutUpdate
<1>3. row \in [Seqs -> RowStates]  BY <1>1 DEF OutType, RowStates
<1>4. \A s \in acked : s \in Seqs /\ o.row[s] \in Undelivered /\ ~IsMissing(e, s)
  BY DEF Covered, Candidates
<1>5. live \subseteq Sent(o)
  BY DEF Missing, Candidates, Undelivered, GoodOut, Sent
<1>6. ob \in SUBSET Sent(o) /\ o.wire \in SUBSET Sent(o)  BY <1>5 DEF GoodOut
<1>7. \A s \in Seqs : o.row[s] = "none" => row[s] = "none"  BY <1>4 DEF Undelivered
<1>8. \A s \in Seqs : row[s] = "acknowledged" => s \in P
  BY <1>4, CoveredIsNoted DEF GoodOut
<1>9. \A s \in Seqs : Settled(o, s) => row[s] \in {o.row[s], "none"} /\ s \notin ob
  <2>1. \A s \in live : o.row[s] \in Undelivered  BY DEF Missing, Candidates
  <2> QED  BY <1>4, <2>1 DEF Settled
<1> HIDE DEF row, ob, o2
<1>10. GoodOut(o2, S, P) /\ Evolves(o, o2)
  BY SMT, <1>2, <1>3, <1>6, <1>7, <1>8, <1>9, RowsGood
<1> QED  BY <1>10 DEF o2

\* Breaking the session keeps the half in order.
LEMMA FailGood ==
  ASSUME NEW S, NEW P, NEW o, GoodOut(o, S, P)
  PROVE  GoodOut(FailOutbound(o), S, P) /\ Evolves(o, FailOutbound(o))
<1> DEFINE row == [s \in Seqs |-> IF o.row[s] \in Undelivered THEN "failed" ELSE o.row[s]]
<1>1. o \in OutType  BY DEF GoodOut
<1>2. FailOutbound(o) = [floor |-> o.floor, env |-> o.env, row |-> row,
                         outbox |-> {}, wire |-> o.wire]
  <2>1. FailOutbound(o) = [o EXCEPT !.row = row, !.outbox = {}]  BY DEF FailOutbound
  <2> HIDE DEF row
  <2> QED  BY <1>1, <2>1, OutUpdate
<1>3. row \in [Seqs -> RowStates]  BY <1>1 DEF OutType, RowStates
<1>4. o.wire \in SUBSET Sent(o)  BY DEF GoodOut
<1>5. \A s \in Seqs : o.row[s] = "none" => row[s] = "none"  BY DEF Undelivered
<1>6. \A s \in Seqs : row[s] = "acknowledged" => s \in P  BY DEF GoodOut
<1>7. \A s \in Seqs : Settled(o, s) => row[s] = o.row[s]  BY DEF Settled
<1> HIDE DEF row
<1> QED  BY SMT, <1>2, <1>3, <1>4, <1>5, <1>6, <1>7, RowsGood

\* A drain pass, whole or stopped, keeps the half in order.
LEMMA DrainGood ==
  ASSUME NEW S, NEW P, NEW o, GoodOut(o, S, P),
         NEW sent \in SUBSET {s \in o.outbox : MayTransmit(o, s)},
         NEW gone \in SUBSET o.outbox, NEW failed \in SUBSET o.outbox,
         NEW written \in SUBSET o.outbox
  PROVE  LET o2 == AfterDrain(o, sent, gone, failed, written)
         IN  GoodOut(o2, S, P) /\ Evolves(o, o2)
<1> DEFINE row == [s \in Seqs |-> IF s \in sent THEN "transmitted"
                                 ELSE IF s \in failed \cap Rows(o) THEN "failed"
                                 ELSE o.row[s]]
           ob == o.outbox \ (sent \cup gone)
           wi == o.wire \cup written
           o2 == AfterDrain(o, sent, gone, failed, written)
<1>1. o \in OutType  BY DEF GoodOut
<1>2. o2 = [floor |-> o.floor, env |-> o.env, row |-> row, outbox |-> ob, wire |-> wi]
  <2>1. o2 = [o EXCEPT !.row = row, !.outbox = ob, !.wire = wi]  BY DEF AfterDrain
  <2> HIDE DEF row, ob, wi, o2
  <2> QED  BY <1>1, <2>1, OutUpdate
<1>3. \A s \in Seqs : row[s] \in {"transmitted", "failed", o.row[s]}
                      /\ (o.row[s] = "none" => row[s] = "none")
  <2> SUFFICES ASSUME NEW s \in Seqs
               PROVE  row[s] \in {"transmitted", "failed", o.row[s]}
                      /\ (o.row[s] = "none" => row[s] = "none")
    OBVIOUS
  <2>1. CASE s \in sent  BY <2>1 DEF MayTransmit, Undelivered
  <2>2. CASE s \notin sent  BY <2>2 DEF Rows
  <2> QED  BY <2>1, <2>2
<1>4. row \in [Seqs -> RowStates]  BY <1>1, <1>3 DEF OutType, RowStates
<1>5. ob \in SUBSET Sent(o) /\ wi \in SUBSET Sent(o)  BY DEF GoodOut
<1>6. \A s \in Seqs : row[s] = "acknowledged" => s \in P  BY <1>3 DEF GoodOut
<1>7. \A s \in Seqs : Settled(o, s) => row[s] = o.row[s] /\ s \notin ob  BY DEF Settled
<1> HIDE DEF row, ob, wi, o2
<1>8. GoodOut(o2, S, P) /\ Evolves(o, o2)
  BY SMT, <1>2, <1>3, <1>4, <1>5, <1>6, <1>7, RowsGood
<1> QED  BY <1>8 DEF o2

-----------------------------------------------------------------------------
(* The inductive invariant, and the shape of a step.                       *)

IInv ==
  /\ out \in [Nodes -> OutType]
  /\ inn \in [Nodes -> InType]
  /\ session \in [Nodes -> {"active", "broken"}]
  /\ crashes \in 0 .. MaxCrashes
  /\ sweeps \in 0 .. MaxSweeps
  /\ \A n \in Nodes :
       /\ GoodOut(out[n], inn[n].seqs, inn[Peer(n)].seqs)
       /\ inn[n].seqs \subseteq Sent(out[Peer(n)])
       /\ inn[n].seqs \subseteq inn[n].ratchet

Acked(o) == {s \in Seqs : o.row[s] = "acknowledged"}

\* A turn of engine n, as its users can tell it.
Turned(n) ==
  LET m == Peer(n)
  IN  /\ Evolves(out[n], out'[n])
      /\ out'[m].env = out[m].env /\ out'[m].row = out[m].row
      /\ inn'[m] = inn[m]
      /\ inn[n].seqs \subseteq inn'[n].seqs
      /\ inn'[n].seqs \subseteq inn[n].seqs \cup Sent(out[m])
      /\ Acked(out'[n]) \subseteq inn[m].seqs

\* A relationship has two engines, each the other's peer.
LEMMA PeerFacts ==
  ASSUME NEW n \in Nodes
  PROVE  /\ Peer(n) \in Nodes /\ Peer(n) # n /\ Peer(Peer(n)) = n
         /\ \A m \in Nodes : m = n \/ m = Peer(n)
<1>1. PICK a \in Nodes, b \in Nodes : a # b /\ Nodes = {a, b}  BY NodesAssumption
<1>2. Peer(a) = b  BY <1>1 DEF Peer
<1>3. Peer(b) = a  BY <1>1 DEF Peer
<1> QED  BY <1>1, <1>2, <1>3

\* The sending half of the peer only loses records from its wire.
LEMMA WireGood ==
  ASSUME NEW S, NEW P, NEW o, GoodOut(o, S, P), NEW W \in SUBSET o.wire
  PROVE  LET o2 == [o EXCEPT !.wire = W]
         IN  /\ GoodOut(o2, S, P) /\ Evolves(o, o2)
             /\ o2.env = o.env /\ o2.row = o.row /\ Sent(o2) = Sent(o)
<1> DEFINE o2 == [o EXCEPT !.wire = W]
<1>1. o \in OutType  BY DEF GoodOut
<1>2. o2 = [floor |-> o.floor, env |-> o.env, row |-> o.row, outbox |-> o.outbox, wire |-> W]
  BY SMT, <1>1 DEF OutType
<1>3. o.row \in [Seqs -> RowStates]  BY <1>1 DEF OutType
<1>4. o.outbox \in SUBSET Sent(o) /\ W \in SUBSET Sent(o)  BY DEF GoodOut
<1>5. \A s \in Seqs : o.row[s] = "acknowledged" => s \in P  BY DEF GoodOut
<1> HIDE DEF o2
<1>6. GoodOut(o2, S, P) /\ Evolves(o, o2)  BY SMT, <1>2, <1>3, <1>4, <1>5, RowsGood DEF Settled
<1>7. o2.env = o.env /\ o2.row = o.row  BY <1>2
<1>8. Sent(o2) = Sent(o)  BY <1>7 DEF Sent
<1> QED  BY <1>6, <1>7, <1>8 DEF o2

\* What an evolving half has sent, it has still sent.
LEMMA SentGrows ==
  ASSUME NEW S, NEW P, NEW o, GoodOut(o, S, P), NEW o2, Evolves(o, o2)
  PROVE  Sent(o) \subseteq Sent(o2)
BY DEF GoodOut, Evolves, Sent

\* One engine moves to <<o2, i2>>, the other one's wire shrinks to W.
LEMMA EngineStep ==
  ASSUME IInv, NEW n \in Nodes, NEW o2, NEW i2 \in InType,
         NEW W \in SUBSET out[Peer(n)].wire,
         GoodOut(o2, i2.seqs, inn[Peer(n)].seqs), Evolves(out[n], o2),
         inn[n].seqs \subseteq i2.seqs,
         i2.seqs \subseteq inn[n].seqs \cup Sent(out[Peer(n)]),
         i2.seqs \subseteq i2.ratchet,
         out' = [m \in Nodes |-> IF m = n THEN o2 ELSE [out[m] EXCEPT !.wire = W]],
         inn' = [inn EXCEPT ![n] = i2],
         session' \in [Nodes -> {"active", "broken"}],
         crashes' \in 0 .. MaxCrashes,
         sweeps' \in 0 .. MaxSweeps
  PROVE  IInv' /\ Turned(n)
<1> DEFINE m == Peer(n)
           p2 == [out[m] EXCEPT !.wire = W]
<1>1. m \in Nodes /\ m # n /\ Peer(m) = n /\ Peer(n) = m /\ \A k \in Nodes : k = n \/ k = m
  BY PeerFacts
<1>2. GoodOut(out[n], inn[n].seqs, inn[m].seqs) /\ GoodOut(out[m], inn[m].seqs, inn[n].seqs)
  BY <1>1 DEF IInv
<1>3. /\ GoodOut(p2, inn[m].seqs, inn[n].seqs)
      /\ p2.env = out[m].env /\ p2.row = out[m].row /\ Sent(p2) = Sent(out[m])
  BY SMTT(60), <1>2, WireGood
<1>4. GoodOut(p2, inn[m].seqs, i2.seqs)  BY <1>3, GoodOutMonotone
<1>5. o2 \in OutType /\ p2 \in OutType  BY <1>4 DEF GoodOut
<1>6. out'[n] = o2 /\ out'[m] = p2 /\ out' \in [Nodes -> OutType]
  BY <1>1, <1>5
<1>7. inn'[n] = i2 /\ inn'[m] = inn[m] /\ inn' \in [Nodes -> InType]
  BY <1>1 DEF IInv
<1>8. Sent(out[n]) \subseteq Sent(o2)  BY SMT, <1>2, SentGrows
<1>9. /\ inn[m].seqs \subseteq Sent(out[n]) /\ inn[n].seqs \subseteq Sent(out[m])
      /\ inn[m].seqs \subseteq inn[m].ratchet
  BY <1>1 DEF IInv
<1> HIDE DEF p2, m
<1>10. \A k \in Nodes :
         /\ GoodOut(out'[k], inn'[k].seqs, inn'[Peer(k)].seqs)
         /\ inn'[k].seqs \subseteq Sent(out'[Peer(k)])
         /\ inn'[k].seqs \subseteq inn'[k].ratchet
  <2>1. GoodOut(o2, i2.seqs, inn[m].seqs)  BY DEF m
  <2>2. i2.seqs \subseteq Sent(p2)  BY <1>3, <1>9 DEF m
  <2> QED  BY <1>1, <1>4, <1>6, <1>7, <1>8, <1>9, <2>1, <2>2
<1>11. IInv'  BY <1>6, <1>7, <1>10 DEF IInv
<1>12. Acked(o2) \subseteq inn[m].seqs  BY DEF m, GoodOut, Acked
<1>13. Turned(n)  BY <1>1, <1>3, <1>6, <1>7, <1>12 DEF Turned, m
<1> QED  BY <1>11, <1>13

\* The same when the other engine is not touched.
LEMMA LocalStep ==
  ASSUME IInv, NEW n \in Nodes, NEW o2, NEW i2 \in InType,
         GoodOut(o2, inn[n].seqs, inn[Peer(n)].seqs), Evolves(out[n], o2),
         i2.seqs = inn[n].seqs, i2.ratchet = inn[n].ratchet,
         out' = [out EXCEPT ![n] = o2],
         inn' = [inn EXCEPT ![n] = i2],
         session' \in [Nodes -> {"active", "broken"}],
         crashes' \in 0 .. MaxCrashes,
         sweeps' \in 0 .. MaxSweeps
  PROVE  IInv' /\ Turned(n)
<1> DEFINE W == out[Peer(n)].wire
<1>1. Peer(n) \in Nodes /\ \A m \in Nodes : m # n => m = Peer(n)  BY PeerFacts
<1>2. out \in [Nodes -> OutType]  BY DEF IInv
<1>3. \A m \in Nodes : m # n => [out[m] EXCEPT !.wire = W] = out[m]
  BY <1>1, <1>2 DEF OutType
<1>4. out' = [m \in Nodes |-> IF m = n THEN o2 ELSE [out[m] EXCEPT !.wire = W]]
  BY <1>2, <1>3
<1>5. inn[n].seqs \subseteq inn[n].ratchet  BY DEF IInv
<1> HIDE DEF W
<1>6. W \in SUBSET out[Peer(n)].wire  BY DEF W
<1> QED  BY ZenonT(60), <1>4, <1>5, <1>6, EngineStep

-----------------------------------------------------------------------------
(* The actions.                                                            *)

\* What the steps of a receive (consume the key, decrypt, note the seq, store)
\* do to the receiving half.
LEMMA InFacts ==
  ASSUME NEW i \in InType, NEW s \in Seqs
  PROVE  /\ KeyConsumed(i, s) \in InType
         /\ KeyConsumed(i, s).seqs = i.seqs
         /\ KeyConsumed(i, s).ratchet = i.ratchet \cup {s}
         /\ Decrypted(i, s) \in InType
         /\ Decrypted(i, s).seqs = i.seqs
         /\ Decrypted(i, s).ratchet = i.ratchet \cup {s}
         /\ Noted(i, s) \in InType
         /\ Noted(i, s).seqs = i.seqs \cup {s}
         /\ Noted(i, s).ratchet = i.ratchet \cup {s}
         /\ Ledgered(i, s) \in InType
         /\ Ledgered(i, s).seqs = i.seqs \cup {s}
         /\ Ledgered(i, s).ratchet = i.ratchet \cup {s}
<1>1. /\ KeyConsumed(i, s) \in InType
      /\ KeyConsumed(i, s).seqs = i.seqs
      /\ KeyConsumed(i, s).ratchet = i.ratchet \cup {s}
  BY DEF KeyConsumed, InType
<1>2. /\ Decrypted(i, s) \in InType
      /\ Decrypted(i, s).seqs = i.seqs
      /\ Decrypted(i, s).ratchet = i.ratchet \cup {s}
  BY <1>1 DEF Decrypted, InType
<1>3. /\ Noted(i, s) \in InType
      /\ Noted(i, s).seqs = i.seqs \cup {s}
      /\ Noted(i, s).ratchet = i.ratchet \cup {s}
  BY <1>2 DEF Noted, InType
<1>4. /\ Ledgered(i, s) \in InType
      /\ Ledgered(i, s).seqs = i.seqs \cup {s}
      /\ Ledgered(i, s).ratchet = i.ratchet \cup {s}
  BY <1>3 DEF Ledgered, InType
<1> QED  BY <1>1, <1>2, <1>3, <1>4

\* A user message is an envelope that carries no view.
LEMMA DataEnvelope ==
  ASSUME NEW S
  PROVE  Data \in Envelopes /\ Data # NoEnv /\ Within(Data, S)
BY SMT, BoundsAssumption DEF Data, NoEnv, Envelopes, Within

\* A crash is counted and bounded.
LEMMA CrashesBounded ==
  ASSUME IInv, NEW rs, Ends(rs) \/ Crash \/ UNCHANGED crashes
  PROVE  crashes' \in 0 .. MaxCrashes
BY SMT, BoundsAssumption DEF IInv, Ends, Crash, MayCrash

\* An optional send keeps the half in order.
LEMMA MaybeSendGood ==
  ASSUME NEW n \in Nodes, NEW S, NEW P, NEW o, GoodOut(o, S, P),
         NEW e \in Envelopes, e # NoEnv, Within(e, S), NEW r,
         r = "skip" \/ (r \in SendEnds /\ CanSend(n, o))
  PROVE  GoodOut(MaybeSend(o, e, r), S, P) /\ Evolves(o, MaybeSend(o, e, r))
<1>1. CASE r = "skip"
  BY <1>1, EvolvesReflexive DEF MaybeSend, GoodOut
<1>2. CASE r # "skip"
  <2>1. r \in SendResults \cup SendCrashes  BY <1>2 DEF SendEnds
  <2>2. NextOutSeq(o) \in Seqs  BY SMT, <1>2, BoundsAssumption DEF CanSend, Seqs
  <2> QED  BY <1>2, <2>1, <2>2, SendGood DEF MaybeSend
<1> QED  BY <1>1, <1>2

\* A record is consumed and the engine's halves become o2 and i2.
LEMMA ConsumeStep ==
  ASSUME IInv, NEW n \in Nodes, NEW s, NEW o2, NEW i2 \in InType,
         Consume(n, s, o2, i2),
         GoodOut(o2, i2.seqs, inn[Peer(n)].seqs), Evolves(out[n], o2),
         inn[n].seqs \subseteq i2.seqs,
         i2.seqs \subseteq inn[n].seqs \cup Sent(out[Peer(n)]),
         i2.seqs \subseteq i2.ratchet,
         session' \in [Nodes -> {"active", "broken"}],
         crashes' \in 0 .. MaxCrashes
  PROVE  IInv' /\ Turned(n)
<1> DEFINE W == out[Peer(n)].wire \ {s}
<1>1. out' = [m \in Nodes |-> IF m = n THEN o2 ELSE [out[m] EXCEPT !.wire = W]]
  BY PeerFacts DEF Consume
<1>2. inn' = [inn EXCEPT ![n] = i2] /\ sweeps' \in 0 .. MaxSweeps  BY DEF Consume, IInv
<1>3. W \in SUBSET out[Peer(n)].wire  OBVIOUS
<1> HIDE DEF W
<1> QED  BY <1>1, <1>2, <1>3, EngineStep

\* What is known of a record on the peer's wire.
LEMMA WireFacts ==
  ASSUME IInv, NEW n \in Nodes, NEW s \in out[Peer(n)].wire
  PROVE  /\ s \in Seqs /\ s \in Sent(out[Peer(n)])
         /\ inn[n] \in InType /\ out[n] \in OutType
         /\ out[Peer(n)].env[s] \in Envelopes
         /\ Within(out[Peer(n)].env[s], inn[Peer(n)].seqs)
         /\ GoodOut(out[n], inn[n].seqs, inn[Peer(n)].seqs)
         /\ inn[n].seqs \subseteq inn[n].ratchet
<1>1. Peer(n) \in Nodes  BY PeerFacts
<1>2. GoodOut(out[Peer(n)], inn[Peer(n)].seqs, inn[Peer(Peer(n))].seqs)  BY <1>1 DEF IInv
<1>3. s \in Sent(out[Peer(n)]) /\ s \in Seqs  BY <1>2 DEF GoodOut, Sent
<1>4. out[Peer(n)].env[s] \in Envelopes  BY <1>2, <1>3 DEF GoodOut, OutType
<1>5. Within(out[Peer(n)].env[s], inn[Peer(n)].seqs)  BY <1>2, <1>3 DEF GoodOut
<1> QED  BY <1>3, <1>4, <1>5 DEF IInv

\* The end of handle_plaintext, from any half that its dispatch left in order.
LEMMA HandlerEndsStep ==
  ASSUME IInv, NEW n \in Nodes, NEW s \in out[Peer(n)].wire,
         NEW o, GoodOut(o, inn[n].seqs, inn[Peer(n)].seqs), Evolves(out[n], o),
         NEW replies \in BOOLEAN, HandlerEnds(n, s, o, replies), UNCHANGED session
  PROVE  IInv' /\ Turned(n)
<1> DEFINE S == inn[n].seqs \cup {s}
           P == inn[Peer(n)].seqs
           e == BuildRequest(S)
           i2 == Ledgered(inn[n], s)
<1>1. PICK reply \in {"skip"} \cup IF replies /\ CanSend(n, o) THEN SendEnds ELSE {} :
        LET replied == MaybeSend(o, Data, reply)
            asks == OpensGap(inn[n].seqs, s) /\ CanSend(n, replied)
                      /\ reply \notin SendCrashes \cup {"burned"}
        IN  \E req \in {"skip"} \cup IF asks THEN SendEnds ELSE {} :
              /\ Consume(n, s, MaybeSend(replied, e, req), i2)
              /\ Ends({reply, req})
  BY DEF HandlerEnds
<1> DEFINE o1 == MaybeSend(o, Data, reply)
<1>2. PICK req : /\ req = "skip" \/ (req \in SendEnds /\ CanSend(n, o1))
                 /\ Consume(n, s, MaybeSend(o1, e, req), i2)
                 /\ Ends({reply, req})
  BY <1>1
<1> DEFINE o2 == MaybeSend(o1, e, req)
<1>3. s \in Seqs /\ s \in Sent(out[Peer(n)]) /\ inn[n] \in InType /\ S \in SUBSET Seqs
        /\ inn[n].seqs \subseteq inn[n].ratchet /\ out[n] \in OutType
  BY WireFacts DEF InType
<1>4. i2 \in InType /\ i2.seqs = S /\ i2.ratchet = inn[n].ratchet \cup {s}
  BY <1>3, InFacts
<1>5. GoodOut(o, S, P)  BY SMT, GoodOutMonotone
<1>6. e \in Envelopes /\ e # NoEnv /\ Within(e, S)  BY <1>3, RequestWithin
<1>7. reply = "skip" \/ (reply \in SendEnds /\ CanSend(n, o))  OBVIOUS
<1> HIDE DEF S, P, e, i2, o1
<1>8. GoodOut(o1, S, P) /\ Evolves(o, o1)
  BY <1>5, <1>7, DataEnvelope, MaybeSendGood DEF o1
<1> HIDE DEF o2
<1>9. GoodOut(o2, S, P) /\ Evolves(o1, o2)
  BY <1>2, <1>6, <1>8, MaybeSendGood DEF o2
<1>10. Evolves(out[n], o2)
  <2>1. o \in OutType /\ o1 \in OutType /\ o2 \in OutType  BY <1>5, <1>8, <1>9 DEF GoodOut
  <2>2. Evolves(out[n], o1)  BY <1>3, <1>8, <2>1, EvolvesTransitive
  <2> QED  BY <1>3, <1>9, <2>1, <2>2, EvolvesTransitive
<1>11. crashes' \in 0 .. MaxCrashes  BY <1>2, CrashesBounded
<1>12. session' \in [Nodes -> {"active", "broken"}]  BY DEF IInv
<1>13. Consume(n, s, o2, i2)  BY <1>2 DEF o2
<1>14. GoodOut(o2, i2.seqs, inn[Peer(n)].seqs)  BY <1>4, <1>9 DEF P
<1>15. /\ inn[n].seqs \subseteq i2.seqs /\ i2.seqs \subseteq i2.ratchet
       /\ i2.seqs \subseteq inn[n].seqs \cup Sent(out[Peer(n)])
  BY <1>3, <1>4 DEF S
<1> QED  BY <1>4, <1>10, <1>11, <1>12, <1>13, <1>14, <1>15, ConsumeStep

\* A record from the peer reaches n.
LEMMA ReceiveStep ==
  ASSUME IInv, NEW n \in Nodes, NEW s \in out[Peer(n)].wire, Receive(n, s)
  PROVE  IInv' /\ Turned(n)
<1> DEFINE P == inn[Peer(n)].seqs
           view == out[Peer(n)].env[s]
<1>1. /\ s \in Seqs /\ s \in Sent(out[Peer(n)])
      /\ inn[n] \in InType /\ out[n] \in OutType
      /\ view \in Envelopes /\ Within(view, P)
      /\ GoodOut(out[n], inn[n].seqs, P)
      /\ inn[n].seqs \subseteq inn[n].ratchet
      /\ Evolves(out[n], out[n])
  BY WireFacts, EvolvesReflexive
<1>2. session \in [Nodes -> {"active", "broken"}] /\ crashes \in 0 .. MaxCrashes
  BY DEF IInv
<1>3. CASE DropFrame(n, s)
  BY <1>1, <1>2, <1>3, ConsumeStep DEF DropFrame
<1>4. CASE BreakOnReplay(n, s)
  <2>1. GoodOut(FailOutbound(out[n]), inn[n].seqs, P) /\ Evolves(out[n], FailOutbound(out[n]))
    BY <1>1, FailGood
  <2>2. session' \in [Nodes -> {"active", "broken"}]  BY <1>2, <1>4 DEF BreakOnReplay
  <2> QED  BY <1>1, <1>2, <1>4, <2>1, <2>2, ConsumeStep DEF BreakOnReplay
<1>5. CASE CutShort(n, s)
  <2>1. PICK i2 \in {KeyConsumed(inn[n], s), Decrypted(inn[n], s), Noted(inn[n], s)} :
          Consume(n, s, out[n], i2)
    BY <1>5 DEF CutShort
  <2>2. /\ i2 \in InType /\ inn[n].seqs \subseteq i2.seqs
        /\ i2.seqs \subseteq inn[n].seqs \cup {s} /\ i2.ratchet = inn[n].ratchet \cup {s}
    <3>1. CASE i2 = KeyConsumed(inn[n], s)  BY <1>1, <3>1, InFacts
    <3>2. CASE i2 = Decrypted(inn[n], s)  BY <1>1, <3>2, InFacts
    <3>3. CASE i2 = Noted(inn[n], s)
      <4>1. i2 \in InType /\ i2.seqs = inn[n].seqs \cup {s} /\ i2.ratchet = inn[n].ratchet \cup {s}
        BY <1>1, <3>3, InFacts
      <4> QED  BY <4>1
    <3> QED  BY <3>1, <3>2, <3>3
  <2>3. GoodOut(out[n], i2.seqs, P)  BY <1>1, <2>2, GoodOutMonotone
  <2>4. crashes' \in 0 .. MaxCrashes  BY <1>5, CrashesBounded DEF CutShort
  <2>5. session' = session  BY <1>5 DEF CutShort
  <2> QED  BY <1>1, <1>2, <2>1, <2>2, <2>3, <2>4, <2>5, ConsumeStep
<1>6. CASE HandleData(n, s)
  BY <1>1, <1>6, HandlerEndsStep DEF HandleData
<1>7. CASE HandleResync(n, s)
  <2>1. view.kind = "resync" /\ UNCHANGED session  BY <1>7 DEF HandleResync
  <2>2. CASE HandlerEnds(n, s, out[n], FALSE)
    BY <1>1, <2>1, <2>2, HandlerEndsStep
  <2>3. CASE \E live \in SUBSET Missing(out[n], view) :
               HandlerEnds(n, s, AfterRequest(out[n], Covered(out[n], view), live), TRUE)
    <3>1. PICK live \in SUBSET Missing(out[n], view) :
            HandlerEnds(n, s, AfterRequest(out[n], Covered(out[n], view), live), TRUE)
      BY <2>3
    <3> DEFINE o == AfterRequest(out[n], Covered(out[n], view), live)
    <3>2. GoodOut(o, inn[n].seqs, P) /\ Evolves(out[n], o)
      BY <1>1, <2>1, RequestGood
    <3> HIDE DEF o
    <3>3. HandlerEnds(n, s, o, TRUE)  BY <3>1 DEF o
    <3> QED  BY <2>1, <3>2, <3>3, HandlerEndsStep
  <2> QED  BY <1>7, <2>2, <2>3 DEF HandleResync
<1>8. CASE CrashInResync(n, s)
  <2>1. view.kind = "resync" /\ UNCHANGED session  BY <1>8 DEF CrashInResync
  <2>2. PICK acked \in SUBSET Covered(out[n], view) :
          Consume(n, s, AfterRequest(out[n], acked, {}), Ledgered(inn[n], s))
    BY <1>8 DEF CrashInResync
  <2> DEFINE o2 == AfterRequest(out[n], acked, {})
             i2 == Ledgered(inn[n], s)
  <2>3. GoodOut(o2, inn[n].seqs, P) /\ Evolves(out[n], o2)
    BY <1>1, <2>1, RequestGood
  <2>4. i2 \in InType /\ i2.seqs = inn[n].seqs \cup {s} /\ i2.ratchet = inn[n].ratchet \cup {s}
    BY <1>1, InFacts
  <2>5. crashes' \in 0 .. MaxCrashes  BY <1>8, CrashesBounded DEF CrashInResync
  <2> HIDE DEF o2, i2
  <2>6. GoodOut(o2, i2.seqs, P)  BY SMT, <2>3, <2>4, GoodOutMonotone
  <2>7. Consume(n, s, o2, i2)  BY <2>2 DEF o2, i2
  <2> QED  BY <1>1, <1>2, <2>1, <2>3, <2>4, <2>5, <2>6, <2>7, ConsumeStep
<1> QED  BY <1>3, <1>4, <1>5, <1>6, <1>7, <1>8 DEF Receive

\* Every step is a turn of one engine and keeps the invariant.
LEMMA NextTurns ==
  ASSUME IInv, Next
  PROVE  IInv' /\ \E n \in Nodes : Turned(n)
<1>1. PICK n \in Nodes :
        \/ Send(n) \/ EncryptBreaks(n) \/ DrainOutbox(n) \/ DrainStops(n) \/ Sweep(n)
        \/ \E s \in out[Peer(n)].wire : Receive(n, s)
        \/ \E s \in out[n].wire : Lose(n, s)
  BY DEF Next
<1> SUFFICES IInv' /\ Turned(n)
  OBVIOUS
<1> DEFINE o == out[n]
           S == inn[n].seqs
           P == inn[Peer(n)].seqs
<1>2. GoodOut(o, S, P) /\ o \in OutType /\ inn[n] \in InType  BY DEF IInv
<1>3. /\ session \in [Nodes -> {"active", "broken"}] /\ crashes \in 0 .. MaxCrashes
      /\ sweeps \in 0 .. MaxSweeps /\ out \in [Nodes -> OutType] /\ inn \in [Nodes -> InType]
  BY DEF IInv
<1>4. inn = [inn EXCEPT ![n] = inn[n]]  BY <1>3
<1>5. CASE Send(n)
  <2>1. PICK r \in SendEnds : out' = [out EXCEPT ![n] = AfterSend(o, Data, r)] /\ Ends({r})
    BY <1>3, <1>5 DEF Send
  <2>2. CanSend(n, o) /\ UNCHANGED <<inn, session, sweeps>>  BY <1>5 DEF Send
  <2>3. r \in SendResults \cup SendCrashes /\ NextOutSeq(o) \in Seqs
    BY SMT, <2>2, BoundsAssumption DEF SendEnds, CanSend, Seqs
  <2>4. GoodOut(AfterSend(o, Data, r), S, P) /\ Evolves(o, AfterSend(o, Data, r))
    BY <1>2, <2>3, DataEnvelope, SendGood
  <2>5. crashes' \in 0 .. MaxCrashes  BY <2>1, CrashesBounded
  <2> QED  BY <1>2, <1>3, <1>4, <2>1, <2>2, <2>4, <2>5, LocalStep
<1>6. CASE DrainOutbox(n)
  <2>1. UNCHANGED <<inn, session, crashes, sweeps>>  BY <1>6 DEF DrainOutbox
  <2>2. PICK sent \in SUBSET {s \in o.outbox : MayTransmit(o, s)},
             overdue \in SUBSET o.outbox, written \in SUBSET o.outbox :
          out' = [out EXCEPT ![n] = AfterDrain(o, sent, overdue, overdue, written)]
    <3>1. PICK sent \in SUBSET {s \in o.outbox : MayTransmit(o, s)} :
               \E late \in {{}} \cup {{s} : s \in o.outbox \ sent} :
               \E overdue \in SUBSET (o.outbox \ sent) :
                 out' = [out EXCEPT ![n] = AfterDrain(o, sent, overdue, overdue, sent \cup late)]
      BY <1>6 DEF DrainOutbox
    <3>2. PICK late \in {{}} \cup {{s} : s \in o.outbox \ sent},
               overdue \in SUBSET (o.outbox \ sent) :
                 out' = [out EXCEPT ![n] = AfterDrain(o, sent, overdue, overdue, sent \cup late)]
      BY <3>1
    <3>3. sent \cup late \in SUBSET o.outbox /\ overdue \in SUBSET o.outbox  OBVIOUS
    <3> QED  BY <3>2, <3>3
  <2>3. LET o2 == AfterDrain(o, sent, overdue, overdue, written)
        IN  GoodOut(o2, S, P) /\ Evolves(o, o2)
    BY <1>2, DrainGood
  <2> QED  BY <1>2, <1>3, <1>4, <2>1, <2>2, <2>3, LocalStep
<1>7. CASE DrainStops(n)
  <2>1. UNCHANGED <<inn, session, sweeps>>  BY <1>7 DEF DrainStops
  <2>2. PICK sent \in SUBSET {s \in o.outbox : MayTransmit(o, s)} :
             \/ \E s \in o.outbox \ sent :
                  /\ out' = [out EXCEPT ![n] = AfterDrain(o, sent, {s}, {}, sent \cup {s})]
                  /\ IF MayTransmit(o, s) THEN Crash ELSE UNCHANGED crashes
             \/ \E overdue \in (SUBSET (o.outbox \ sent)) \ {{}} :
                  /\ out' = [out EXCEPT ![n] = AfterDrain(o, sent, overdue, {}, sent)]
                  /\ Crash
    BY <1>7 DEF DrainStops
  <2>3. PICK gone \in SUBSET o.outbox, written \in SUBSET o.outbox :
          /\ out' = [out EXCEPT ![n] = AfterDrain(o, sent, gone, {}, written)]
          /\ Crash \/ UNCHANGED crashes
    <3>1. CASE \E s \in o.outbox \ sent :
                 /\ out' = [out EXCEPT ![n] = AfterDrain(o, sent, {s}, {}, sent \cup {s})]
                 /\ IF MayTransmit(o, s) THEN Crash ELSE UNCHANGED crashes
      <4>1. PICK s \in o.outbox \ sent :
                 /\ out' = [out EXCEPT ![n] = AfterDrain(o, sent, {s}, {}, sent \cup {s})]
                 /\ IF MayTransmit(o, s) THEN Crash ELSE UNCHANGED crashes
        BY <3>1
      <4>2. {s} \in SUBSET o.outbox /\ sent \cup {s} \in SUBSET o.outbox  OBVIOUS
      <4>3. Crash \/ UNCHANGED crashes  BY <4>1
      <4> QED  BY <4>1, <4>2, <4>3
    <3>2. CASE \E overdue \in (SUBSET (o.outbox \ sent)) \ {{}} :
                 /\ out' = [out EXCEPT ![n] = AfterDrain(o, sent, overdue, {}, sent)]
                 /\ Crash
      <4>1. PICK overdue \in SUBSET o.outbox :
                 /\ out' = [out EXCEPT ![n] = AfterDrain(o, sent, overdue, {}, sent)]
                 /\ Crash
        BY <3>2
      <4>2. sent \in SUBSET o.outbox  OBVIOUS
      <4> QED  BY <4>1, <4>2
    <3> QED  BY <2>2, <3>1, <3>2
  <2>4. LET o2 == AfterDrain(o, sent, gone, {}, written)
        IN  GoodOut(o2, S, P) /\ Evolves(o, o2)
    BY <1>2, DrainGood
  <2>5. crashes' \in 0 .. MaxCrashes  BY <2>3, CrashesBounded
  <2> QED  BY <1>2, <1>3, <1>4, <2>1, <2>3, <2>4, <2>5, LocalStep
<1>8. CASE Sweep(n)
  <2>1. PICK dead \in SUBSET Rows(o), hashes \in SUBSET inn[n].frames :
          /\ out' = [out EXCEPT ![n].row = [s \in Seqs |-> IF s \in dead THEN "none" ELSE @[s]]]
          /\ inn' = [inn EXCEPT ![n].frames = @ \ hashes]
    BY <1>8 DEF Sweep
  <2> DEFINE row == [s \in Seqs |-> IF s \in dead THEN "none" ELSE o.row[s]]
             o2 == [o EXCEPT !.row = row]
             i2 == [inn[n] EXCEPT !.frames = @ \ hashes]
  <2>2. out' = [out EXCEPT ![n] = o2] /\ inn' = [inn EXCEPT ![n] = i2]
    BY <1>3, <2>1
  <2>3. i2 \in InType /\ i2.seqs = inn[n].seqs /\ i2.ratchet = inn[n].ratchet
    BY <1>2 DEF InType
  <2>4. row \in [Seqs -> RowStates] /\ \A s \in Seqs : row[s] \in {"none", o.row[s]}
    BY <1>2 DEF OutType, RowStates
  <2>5. o.outbox \in SUBSET Sent(o) /\ o.wire \in SUBSET Sent(o)  BY <1>2 DEF GoodOut
  <2>6. \A s \in Seqs : row[s] = "acknowledged" => s \in P  BY <1>2, <2>4 DEF GoodOut
  <2> HIDE DEF row, i2
  <2>7. o2 = [floor |-> o.floor, env |-> o.env, row |-> row,
              outbox |-> o.outbox, wire |-> o.wire]
    BY SMT, <1>2 DEF OutType
  <2>8. GoodOut(o2, S, P) /\ Evolves(o, o2)
    BY SMT, <1>2, <2>4, <2>5, <2>6, <2>7, RowsGood DEF Settled
  <2>9. sweeps' \in 0 .. MaxSweeps /\ UNCHANGED <<session, crashes>>
    BY SMT, <1>3, <1>8, BoundsAssumption DEF Sweep
  <2> HIDE DEF o2
  <2> QED  BY <1>3, <2>2, <2>3, <2>8, <2>9, LocalStep
<1>9. CASE \E s \in out[Peer(n)].wire : Receive(n, s)
  BY <1>9, ReceiveStep
<1>10. CASE \E s \in out[n].wire : Lose(n, s)
  <2>1. PICK s \in o.wire : Lose(n, s)  BY <1>10
  <2> DEFINE W == o.wire \ {s}
             o2 == [o EXCEPT !.wire = W]
  <2>2. out' = [out EXCEPT ![n] = o2] /\ UNCHANGED <<inn, session, crashes, sweeps>>
    BY <1>3, <2>1 DEF Lose
  <2>3. GoodOut(o2, S, P) /\ Evolves(o, o2)  BY <1>2, WireGood
  <2> HIDE DEF o2
  <2> QED  BY <1>2, <1>3, <1>4, <2>2, <2>3, LocalStep
<1>11. CASE EncryptBreaks(n)
  <2> DEFINE o1 == AfterSend(o, Data, "burned")
             o2 == FailOutbound(o1)
  <2>1. out' = [out EXCEPT ![n] = o2] /\ CanSend(n, o) /\ UNCHANGED <<inn, sweeps>>
    BY <1>11 DEF EncryptBreaks
  <2>2. session' \in [Nodes -> {"active", "broken"}]  BY <1>3, <1>11 DEF EncryptBreaks
  <2>3. crashes' \in 0 .. MaxCrashes  BY <1>11, CrashesBounded DEF EncryptBreaks
  <2>4. NextOutSeq(o) \in Seqs  BY SMT, <2>1, BoundsAssumption DEF CanSend, Seqs
  <2>5. "burned" \in SendResults \cup SendCrashes  BY DEF SendResults
  <2>6. GoodOut(o1, S, P) /\ Evolves(o, o1)  BY <1>2, <2>4, <2>5, DataEnvelope, SendGood
  <2> HIDE DEF o1
  <2>7. GoodOut(o2, S, P) /\ Evolves(o1, o2)  BY <2>6, FailGood
  <2> HIDE DEF o2
  <2>8. Evolves(o, o2)  BY <1>2, <2>6, <2>7, EvolvesTransitive DEF GoodOut
  <2> QED  BY <1>2, <1>3, <1>4, <2>1, <2>2, <2>3, <2>7, <2>8, LocalStep
<1> QED  BY <1>1, <1>5, <1>6, <1>7, <1>8, <1>9, <1>10, <1>11

\* A new relationship is in order: nothing sent, nothing noted.
LEMMA InitGood ==
  ASSUME Init
  PROVE  IInv
<1> DEFINE o == [floor |-> 1, env |-> [s \in Seqs |-> NoEnv],
                 row |-> [s \in Seqs |-> "none"], outbox |-> {}, wire |-> {}]
<1>1. NoEnv \in Envelopes /\ MaxSeq \in Nat  BY SMT, BoundsAssumption DEF NoEnv, Envelopes
<1>2. o \in OutType  BY SMT, <1>1 DEF OutType, RowStates
<1>3. NoInbound \in InType /\ NoInbound.seqs = {}  BY DEF NoInbound, InType
<1>4. \A S, P : GoodOut(o, S, P)
  BY <1>2 DEF GoodOut, NoEnv, Within, Sent
<1>5. out = [n \in Nodes |-> o] /\ inn = [n \in Nodes |-> NoInbound]  BY DEF Init
<1> HIDE DEF o
<1>6. \A n \in Nodes : out[n] = o /\ inn[n] = NoInbound  BY <1>5
<1>7. out \in [Nodes -> OutType] /\ inn \in [Nodes -> InType]  BY <1>2, <1>3, <1>5
<1>8. /\ session \in [Nodes -> {"active", "broken"}]
      /\ crashes \in 0 .. MaxCrashes /\ sweeps \in 0 .. MaxSweeps
  BY SMT, BoundsAssumption DEF Init
<1>9. \A n \in Nodes : Peer(n) \in Nodes  BY PeerFacts
<1> QED  BY SMT, <1>3, <1>4, <1>6, <1>7, <1>8, <1>9 DEF IInv

\* Steps that change nothing keep the invariant.
LEMMA StutterGood ==
  ASSUME IInv, UNCHANGED vars
  PROVE  IInv'
BY DEF IInv, vars

\* IInv is an invariant of the specification.
THEOREM Invariance == Spec => []IInv
<1>1. Init => IInv  BY InitGood
<1>2. IInv /\ [Next]_vars => IInv'  BY NextTurns, StutterGood
<1> QED  BY <1>1, <1>2, PTL DEF Spec

\* Type correctness of the two engines' stores, for any bounds.
THEOREM TypeCorrect == Spec => []TypeOK
<1>1. IInv => TypeOK  BY DEF IInv, TypeOK, OutType, InType
<1> QED  BY <1>1, Invariance, PTL

\* An acknowledged row was noted by the peer, whatever is lost, repeated,
\* reordered or swept and wherever the engines die (resync::handle_request).
THEOREM AckSound == Spec => []AckMeansNoted
<1>1. IInv => AckMeansNoted  BY DEF IInv, AckMeansNoted, GoodOut
<1> QED  BY <1>1, Invariance, PTL

\* While no handler was cut short, what an engine noted it has also stored.
NotedIsStored == crashes = 0 => \A n \in Nodes : inn[n].seqs \subseteq inn[n].stored

\* A record that reaches n keeps it so: of the ways to end, only CutShort notes
\* a seq without storing its row, and it is counted.
LEMMA ReceiveStores ==
  ASSUME IInv, NotedIsStored, NEW n \in Nodes, NEW s \in out[Peer(n)].wire, Receive(n, s)
  PROVE  NotedIsStored'
<1>1. s \in Seqs /\ inn \in [Nodes -> InType]  BY WireFacts DEF IInv
<1>2. inn[n] \in InType  BY <1>1
<1>3. crashes \in Nat  BY SMT, BoundsAssumption DEF IInv
<1>4. ASSUME NEW o2, NEW i2, Consume(n, s, o2, i2), crashes' = 0 => crashes = 0,
             inn[n].seqs \subseteq inn[n].stored => i2.seqs \subseteq i2.stored
      PROVE  NotedIsStored'
  BY <1>1, <1>4 DEF Consume, NotedIsStored
<1>5. Crash => crashes' # 0  BY SMT, <1>3 DEF Crash
<1>6. Ledgered(inn[n], s).seqs = inn[n].seqs \cup {s}
      /\ Ledgered(inn[n], s).stored = inn[n].stored \cup {s}
  BY <1>2 DEF Ledgered, Noted, Decrypted, KeyConsumed, InType
<1>7. ASSUME NEW o, NEW replies, HandlerEnds(n, s, o, replies)
      PROVE  NotedIsStored'
  <2>1. PICK rs, o2 : Consume(n, s, o2, Ledgered(inn[n], s)) /\ Ends(rs)
    BY <1>7 DEF HandlerEnds
  <2>2. crashes' = 0 => crashes = 0  BY <2>1, <1>5 DEF Ends
  <2> QED  BY <1>4, <1>6, <2>1, <2>2
<1>8. CASE DropFrame(n, s)  BY <1>4, <1>8 DEF DropFrame
<1>9. CASE BreakOnReplay(n, s)  BY <1>4, <1>9 DEF BreakOnReplay
<1>10. CASE CutShort(n, s)  BY <1>5, <1>10 DEF CutShort, NotedIsStored
<1>11. CASE HandleData(n, s)  BY <1>7, <1>11 DEF HandleData
<1>12. CASE HandleResync(n, s)  BY <1>7, <1>12 DEF HandleResync
<1>13. CASE CrashInResync(n, s)  BY <1>5, <1>13 DEF CrashInResync, NotedIsStored
<1> QED  BY <1>8, <1>9, <1>10, <1>11, <1>12, <1>13 DEF Receive

\* An acknowledged message was ledgered and dispatched by the peer unless a
\* handler was cut short (note_inbound_seq, insert_message, handle_request).
THEOREM AckStored == Spec => []AckMeansStored
<1>1. Init => NotedIsStored  BY SMT DEF Init, NoInbound, NotedIsStored
<1>2. IInv /\ NotedIsStored /\ [Next]_vars => NotedIsStored'
  <2> SUFFICES ASSUME IInv, NotedIsStored, [Next]_vars PROVE NotedIsStored'
    OBVIOUS
  <2>0. crashes \in Nat /\ inn \in [Nodes -> InType]  BY SMT, BoundsAssumption DEF IInv
  <2>1. ASSUME UNCHANGED inn, crashes' = 0 => crashes = 0
        PROVE  NotedIsStored'
    BY <2>1 DEF NotedIsStored
  <2>2. Crash => crashes' # 0  BY SMT, <2>0 DEF Crash
  <2>3. CASE UNCHANGED vars  BY <2>1, <2>3 DEF vars
  <2>4. ASSUME NEW n \in Nodes, Send(n)  PROVE NotedIsStored'
    BY <2>1, <2>2, <2>4 DEF Send, Ends
  <2>5. ASSUME NEW n \in Nodes, EncryptBreaks(n)  PROVE NotedIsStored'
    BY <2>1, <2>2, <2>5 DEF EncryptBreaks
  <2>6. ASSUME NEW n \in Nodes, DrainOutbox(n)  PROVE NotedIsStored'
    BY <2>1, <2>6 DEF DrainOutbox
  <2>7. ASSUME NEW n \in Nodes, DrainStops(n)  PROVE NotedIsStored'
    BY <2>1, <2>2, <2>7 DEF DrainStops
  <2>8. ASSUME NEW n \in Nodes, Sweep(n)  PROVE NotedIsStored'
    <3>1. PICK F : inn' = [inn EXCEPT ![n].frames = F]  BY <2>8 DEF Sweep
    <3>2. \A k \in Nodes : inn'[k].seqs = inn[k].seqs /\ inn'[k].stored = inn[k].stored
      BY <2>0, <3>1 DEF InType
    <3> QED  BY <2>8, <3>2 DEF Sweep, NotedIsStored
  <2>9. ASSUME NEW n \in Nodes, NEW s \in out[n].wire, Lose(n, s)  PROVE NotedIsStored'
    BY <2>1, <2>9 DEF Lose
  <2> QED  BY <2>3, <2>4, <2>5, <2>6, <2>7, <2>8, <2>9, ReceiveStores DEF Next
<1>3. IInv /\ NotedIsStored => AckMeansStored
  BY PeerFacts DEF IInv, NotedIsStored, AckMeansStored, GoodOut
<1> QED  BY <1>1, <1>2, <1>3, Invariance, PTL DEF Spec

\* A sequence number names one envelope for ever, over sweeps of the ledger
\* and crashes (next_out_seq and its floor).
THEOREM OneEnvelopePerSeq == Spec => SeqNamesOneEnvelope
<1> DEFINE Keeps(n) ==
      \A s \in Seqs : out[n].env[s] # NoEnv =>
        /\ out'[n].env[s] = out[n].env[s]
        /\ out[n].row[s] = "none" => out'[n].row[s] = "none"
<1>1. IInv /\ [Next]_vars => \A n \in Nodes : Keeps(n)
  <2> SUFFICES ASSUME IInv, [Next]_vars, NEW k \in Nodes
               PROVE  Keeps(k)
    OBVIOUS
  <2>1. CASE UNCHANGED vars  BY <2>1 DEF vars
  <2>2. CASE Next
    <3>1. PICK n \in Nodes : Turned(n)  BY <2>2, NextTurns
    <3>2. k = n \/ k = Peer(n)  BY PeerFacts
    <3>3. CASE k = n
      <4>1. Evolves(out[k], out'[k])  BY <3>1, <3>3 DEF Turned
      <4>2. \A s \in Seqs : out[k].env[s] # NoEnv => s < out[k].floor
        BY DEF IInv, GoodOut
      <4> QED  BY <4>1, <4>2 DEF Evolves
    <3>4. CASE k = Peer(n)  BY <3>1, <3>4 DEF Turned
    <3> QED  BY <3>2, <3>3, <3>4
  <2> QED  BY <2>1, <2>2
<1>2. IInv /\ [Next]_vars =>
        [\A n \in Nodes, s \in Seqs :
           out[n].env[s] # NoEnv =>
             /\ out'[n].env[s] = out[n].env[s]
             /\ out[n].row[s] = "none" => out'[n].row[s] = "none"]_vars
  BY <1>1
<1> QED  BY <1>2, Invariance, PTL DEF Spec, SeqNamesOneEnvelope

\* An acknowledged or failed message of which no retransmission waits stays so
\* until it is erased, whatever view, drain or break comes late (transition,
\* handle_request, fail_expired, fail_relationship_outbound).
THEOREM SettledForGood == Spec => SettledStays
<1> DEFINE Final == {"acknowledged", "failed"}
           Stays(n) ==
             \A s \in Seqs : out[n].row[s] \in Final /\ s \notin out[n].outbox =>
               out'[n].row[s] \in {out[n].row[s], "none"}
<1>1. IInv /\ [Next]_vars => \A n \in Nodes : Stays(n)
  <2> SUFFICES ASSUME IInv, [Next]_vars, NEW k \in Nodes
               PROVE  Stays(k)
    OBVIOUS
  <2>1. CASE UNCHANGED vars  BY <2>1 DEF vars
  <2>2. CASE Next
    <3>1. PICK n \in Nodes : Turned(n)  BY <2>2, NextTurns
    <3>2. k = n \/ k = Peer(n)  BY PeerFacts
    <3>3. CASE k = n
      <4>1. Evolves(out[k], out'[k])  BY <3>1, <3>3 DEF Turned
      <4>2. \A s \in Seqs : out[k].row[s] # "none" => s < out[k].floor
        BY DEF IInv, GoodOut
      <4> QED  BY <4>1, <4>2 DEF Evolves, Settled, Undelivered
    <3>4. CASE k = Peer(n)  BY <3>1, <3>4 DEF Turned
    <3> QED  BY <3>2, <3>3, <3>4
  <2> QED  BY <2>1, <2>2
<1>2. IInv /\ [Next]_vars =>
        [\A n \in Nodes, s \in Seqs :
           out[n].row[s] \in Final /\ s \notin out[n].outbox =>
             out'[n].row[s] \in {out[n].row[s], "none"}]_vars
  BY <1>1
<1> QED  BY <1>2, Invariance, PTL DEF Spec, SettledStays

\* Delivery implements Channel: what the users see of the two engines is a
\* behaviour of the abstract channel.
THEOREM Refinement == Spec => ImplementsChannel
<1> DEFINE sent == [n \in Nodes |-> {s \in Seqs : out[n].env[s] # NoEnv}]
           received == [n \in Nodes |-> inn[n].seqs]
           acked == [n \in Nodes |-> {s \in Seqs : out[n].row[s] = "acknowledged"}]
<1>1. Init => C!Init
  <2> SUFFICES ASSUME Init PROVE C!Init
    OBVIOUS
  <2>1. \A n \in Nodes : {s \in Seqs : out[n].env[s] # NoEnv} = {}  BY DEF Init
  <2>2. \A n \in Nodes : inn[n].seqs = {}  BY DEF Init, NoInbound
  <2>3. \A n \in Nodes : {s \in Seqs : out[n].row[s] = "acknowledged"} = {}  BY DEF Init
  <2> QED  BY <2>1, <2>2, <2>3 DEF C!Init
<1>2. IInv /\ [Next]_vars => [C!Next]_(C!cvars)
  <2> SUFFICES ASSUME IInv, [Next]_vars PROVE [C!Next]_(C!cvars)
    OBVIOUS
  <2>1. CASE UNCHANGED vars  BY <2>1 DEF vars, C!cvars
  <2>2. CASE Next
    <3>0. IInv' /\ \E n \in Nodes : Turned(n)  BY <2>2, NextTurns
    <3>1. PICK n \in Nodes : Turned(n)  BY <3>0
    <3> DEFINE m == Peer(n)
    <3>2. m \in Nodes /\ m # n /\ C!Peer(n) = m /\ \A k \in Nodes \ {n} : k = m
      BY PeerFacts DEF Peer, C!Peer
    <3>3. Seqs \subseteq Nat  BY SMT, BoundsAssumption DEF Seqs
    <3>4. /\ sent' \in [Nodes -> SUBSET Nat]
          /\ received' \in [Nodes -> SUBSET Nat]
          /\ acked' \in [Nodes -> SUBSET Nat]
      BY <3>0, <3>3 DEF IInv, InType
    <3>5. sent[n] = Sent(out[n]) /\ sent'[n] = Sent(out'[n]) /\ sent[m] = Sent(out[m])
      BY <3>2 DEF Sent
    <3>6. sent'[m] = sent[m] /\ received'[m] = received[m] /\ acked'[m] = acked[m]
      BY <3>1, <3>2 DEF Turned
    <3>7. \A s \in Seqs : out[n].env[s] # NoEnv => s < out[n].floor
      BY DEF IInv, GoodOut
    <3>8. Evolves(out[n], out'[n])  BY <3>1 DEF Turned
    <3>9. sent[n] \subseteq sent'[n]  BY <3>7, <3>8 DEF Evolves
    <3>10. \A s \in sent[n], t \in sent'[n] \ sent[n] : s < t
      <4> SUFFICES ASSUME NEW s \in sent[n], NEW t \in sent'[n] \ sent[n] PROVE s < t
        OBVIOUS
      <4>1. s < out[n].floor /\ ~(t < out[n].floor)  BY <3>7, <3>8 DEF Evolves
      <4>2. s \in Int /\ t \in Int /\ out[n].floor \in Int
        BY SMT, BoundsAssumption DEF IInv, OutType, Seqs
      <4> QED  BY SMT, <4>1, <4>2
    <3>11. /\ received[n] \subseteq received'[n]
           /\ received'[n] \subseteq received[n] \cup sent[m]
      BY <3>1, <3>2, <3>5 DEF Turned
    <3>12. acked'[n] \subseteq received[m]  BY <3>1, <3>2 DEF Turned, Acked
    <3> HIDE DEF sent, received, acked, m
    <3>13. C!Turn(n)
      BY <3>2, <3>4, <3>6, <3>9, <3>10, <3>11, <3>12 DEF C!Turn, sent, received, acked
    <3> QED  BY <3>13 DEF C!Next
  <2> QED  BY <2>1, <2>2
<1> QED  BY <1>1, <1>2, Invariance, PTL DEF Spec, ImplementsChannel, C!Spec
=============================================================================
