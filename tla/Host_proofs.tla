---------------------------- MODULE Host_proofs -----------------------------
(***************************************************************************)
(* The sender and the vault, each with its inductive invariant.            *)
(*   src/crates/core/src/transport/socks/sender.rs, core/src/vault         *)
(***************************************************************************)
EXTENDS Sender, Vault, FiniteSetTheorems, TLAPS

\* A leaf is for Zenon unless it names another prover.
USE Zenon

-----------------------------------------------------------------------------
(* The sender *)

WorkType == [st : {"none", "idle", "gate", "connect", "write", "hold", "park",
                   "exiting", "leaving", "gone"},
             dest : Dests, q : Seq(Calls), batch : Seq(Calls),
             up : BOOLEAN, fails : Nat, retries : Nat]

CallType == [st : {"new", "holds", "queued", "ok", "err"}, to : Workers \cup {0}]

SenderTypeOK ==
  /\ kill \in BOOLEAN /\ online \in BOOLEAN
  /\ dests \in [Dests -> Workers \cup {0}]
  /\ work \in [Workers -> WorkType]
  /\ call \in [Calls -> CallType]
  /\ late \in [Workers -> Nat]

\* The writes in the hands of a worker.
Hands(w) == Range(w.q) \cup Range(w.batch)

\* Only between the gate and the end of the write does a worker hold a batch.
BatchInOrder(w) == w.st \notin {"gate", "connect", "write"} => w.batch = <<>>

\* A call that waits for its answer waits for a worker that has it.
CallInOrder(m) ==
  /\ call[m].st \in {"holds", "queued"} =>
       call[m].to \in Workers /\ work[call[m].to].st # "none"
  /\ call[m].st = "queued" =>
       work[call[m].to].st # "gone" /\ m \in Hands(work[call[m].to])
  /\ call[m].st = "ok" => m \in written

\* The map names a worker that receives, under that worker's destination.
EntryInOrder(d) ==
  dests[d] # 0 => /\ work[dests[d]].st \notin {"none", "leaving", "gone"}
                  /\ work[dests[d]].dest = d

\* A worker that wrote a batch since the kill switch went on is before the gate.
LateInOrder(k) ==
  /\ ~kill => late[k] = 0
  /\ late[k] <= 1
  /\ late[k] = 1 => work[k].st \notin {"connect", "write"}

SenderInv ==
  /\ SenderTypeOK
  /\ \A k \in Workers : BatchInOrder(work[k]) /\ LateInOrder(k)
  /\ \A m \in Calls : CallInOrder(m)
  /\ \A d \in Dests : EntryInOrder(d)
  /\ Cardinality(Entries) <= MaxLiveSessions

-----------------------------------------------------------------------------
\* What a worker that is not running is.
LEMMA ParkedType == Parked \in WorkType
<1>1. (CHOOSE d \in Dests : TRUE) \in Dests  BY SenderAssumption
<1> QED  BY SMT, <1>1 DEF Parked, WorkType

\* Settling nothing changes nothing.
LEMMA SettleNothing ==
  ASSUME SenderTypeOK, UNCHANGED call
  PROVE  call' = Settle({}, "err")
BY DEF SenderTypeOK, Settle

\* What a worker does keeps the invariant when nothing leaves its hands but to
\* be answered, and the map lets go of it before it stops receiving.
LEMMA WorkerMoves ==
  ASSUME SenderInv, NEW k \in Workers, NEW S, NEW how \in {"ok", "err"},
         work[k].st # "none",
         UNCHANGED <<kill, online>>,
         work' \in [Workers -> WorkType],
         \A j \in Workers : j # k => work'[j] = work[j],
         call' = Settle(S, how),
         dests' \in [Dests -> Workers \cup {0}],
         \A d \in Dests : dests'[d] # 0 => dests'[d] = dests[d],
         late' \in [Workers -> Nat],
         \A j \in Workers : j # k => late'[j] = late[j],
         BatchInOrder(work'[k]), LateInOrder(k)',
         Hands(work[k]) \subseteq S \cup Hands(work'[k]),
         work'[k].st # "none",
         work'[k].st = "gone" => Hands(work[k]) \subseteq S,
         work'[k].st \in {"leaving", "gone"} => \A d \in Dests : dests'[d] # k,
         work'[k].st # "gone" => work'[k].dest = work[k].dest,
         written \subseteq written', how = "ok" => S \subseteq written'
  PROVE  SenderInv'
<1>1. SenderTypeOK /\ \A m \in Calls : CallInOrder(m)  BY DEF SenderInv
<1>2. /\ work \in [Workers -> WorkType] /\ dests \in [Dests -> Workers \cup {0}]
      /\ call \in [Calls -> CallType]
  BY <1>1 DEF SenderTypeOK
<1>3. call' \in [Calls -> CallType]
  BY <1>2 DEF Settle, CallType
<1>4. SenderTypeOK'  BY <1>1, <1>3 DEF SenderTypeOK
<1>5. ASSUME NEW j \in Workers  PROVE (BatchInOrder(work[j]) /\ LateInOrder(j))'
  BY DEF SenderInv, LateInOrder
<1>6. ASSUME NEW m \in Calls  PROVE CallInOrder(m)'
  <2>1. CASE m \in S
    <3>1. call'[m] = [st |-> how, to |-> 0]  BY <2>1 DEF Settle
    <3>2. call'[m].st = how  BY SMT, <3>1
    <3> QED  BY <2>1, <3>2 DEF CallInOrder
  <2>2. CASE m \notin S
    <3>1. call'[m] = call[m]  BY <2>2 DEF Settle
    <3>2. CallInOrder(m)  BY <1>1
    <3>3. CASE call[m].to = k
      <4>1. call[m].st = "queued" => work'[k].st # "gone" /\ m \in Hands(work'[k])
        BY <2>2, <3>2, <3>3 DEF CallInOrder
      <4> QED  BY <3>1, <3>2, <3>3, <4>1 DEF CallInOrder
    <3>4. CASE call[m].to # k
      BY SMT, <3>1, <3>2, <3>4 DEF CallInOrder
    <3> QED  BY <3>3, <3>4
  <2> QED  BY <2>1, <2>2
<1>7. ASSUME NEW d \in Dests  PROVE EntryInOrder(d)'
  BY SMT, <1>2 DEF SenderInv, EntryInOrder
<1>8. Cardinality(Entries') <= MaxLiveSessions
  <2>1. IsFiniteSet(Entries)  BY SenderAssumption, FS_Subset DEF Entries
  <2>2. Entries' \subseteq Entries  BY DEF Entries
  <2>3. Cardinality(Entries') <= Cardinality(Entries)  BY <2>1, <2>2, FS_Subset
  <2>4. Cardinality(Entries) \in Nat /\ Cardinality(Entries') \in Nat
    BY <2>1, <2>2, FS_Subset, FS_CardinalityType
  <2> QED  BY SMT, <2>3, <2>4, SenderAssumption DEF SenderInv
<1> QED  BY <1>4, <1>5, <1>6, <1>7, <1>8 DEF SenderInv

\* A member of a record type, field by field.
LEMMA WorkFacts ==
  ASSUME SenderInv, NEW k \in Workers
  PROVE  /\ work[k] \in WorkType /\ BatchInOrder(work[k]) /\ LateInOrder(k)
         /\ work[k].q \in Seq(Calls) /\ work[k].batch \in Seq(Calls)
         /\ work \in [Workers -> WorkType] /\ dests \in [Dests -> Workers \cup {0}]
         /\ work[k].fails \in Nat /\ work[k].retries \in Nat
         /\ late \in [Workers -> Nat] /\ SenderTypeOK
BY DEF SenderInv, SenderTypeOK, WorkType

\* The elements of a queue as its ends move (Receive, Enqueue).
LEMMA Ranges ==
  /\ Range(<<>>) = {}
  /\ \A S : \A q \in Seq(S) : Range(q) \subseteq S
  /\ \A S : \A q \in Seq(S) : q # <<>> =>
       /\ Head(q) \in S /\ Tail(q) \in Seq(S)
       /\ Range(q) \subseteq Range(<<Head(q)>>) \cup Range(Tail(q))
  /\ \A S : \A q \in Seq(S), m \in S :
       Append(q, m) \in Seq(S) /\ Range(Append(q, m)) = Range(q) \cup {m}
<1>1. Range(<<>>) = {}  BY SMT DEF Range
<1>2. ASSUME NEW S, NEW q \in Seq(S)  PROVE Range(q) \subseteq S  BY SMT DEF Range
<1>3. ASSUME NEW S, NEW q \in Seq(S), q # <<>>
      PROVE  /\ Head(q) \in S /\ Tail(q) \in Seq(S)
             /\ Range(q) \subseteq Range(<<Head(q)>>) \cup Range(Tail(q))
  <2>1. Head(q) \in S /\ Tail(q) \in Seq(S)  BY SMT, <1>3
  <2>2. ASSUME NEW i \in DOMAIN q
        PROVE  q[i] \in Range(<<Head(q)>>) \cup Range(Tail(q))
    <3>1. CASE i = 1  BY SMT, <1>3, <3>1 DEF Range
    <3>2. CASE i # 1
      <4>1. i - 1 \in DOMAIN Tail(q) /\ Tail(q)[i - 1] = q[i]  BY SMT, <1>3, <3>2
      <4> QED  BY <4>1 DEF Range
    <3> QED  BY <3>1, <3>2
  <2> QED  BY <2>1, <2>2 DEF Range
<1>4. ASSUME NEW S, NEW q \in Seq(S), NEW m \in S
      PROVE  Append(q, m) \in Seq(S) /\ Range(Append(q, m)) = Range(q) \cup {m}
  <2>1. Append(q, m) \in Seq(S)  BY SMT
  <2>2. ASSUME NEW i \in DOMAIN q
        PROVE  i \in DOMAIN Append(q, m) /\ Append(q, m)[i] = q[i]
    BY SMT
  <2>3. Len(q) + 1 \in DOMAIN Append(q, m) /\ Append(q, m)[Len(q) + 1] = m  BY SMT
  <2>4. ASSUME NEW i \in DOMAIN Append(q, m)
        PROVE  Append(q, m)[i] = m \/ (i \in DOMAIN q /\ Append(q, m)[i] = q[i])
    BY SMT
  <2>5. Range(q) \cup {m} \subseteq Range(Append(q, m))  BY <2>2, <2>3 DEF Range
  <2>6. Range(Append(q, m)) \subseteq Range(q) \cup {m}  BY <2>4 DEF Range
  <2> QED  BY <2>1, <2>5, <2>6
<1> QED  BY <1>1, <1>2, <1>3, <1>4

\* A queue cut in two, its first part joining the batch (Connect).
LEMMA TakenInto ==
  ASSUME NEW S, NEW q \in Seq(S), NEW b \in Seq(S), NEW n \in 0 .. Len(q)
  PROVE  /\ b \o SubSeq(q, 1, n) \in Seq(S) /\ SubSeq(q, n + 1, Len(q)) \in Seq(S)
         /\ Range(q) \cup Range(b) \subseteq
              Range(SubSeq(q, n + 1, Len(q))) \cup Range(b \o SubSeq(q, 1, n))
<1> DEFINE u == SubSeq(q, 1, n)
           v == SubSeq(q, n + 1, Len(q))
<1>1. u \in Seq(S) /\ Len(u) = n /\ \A i \in 1 .. n : u[i] = q[i]  BY SMT
<1>2. v \in Seq(S) /\ Len(v) = Len(q) - n /\ \A i \in 1 .. Len(q) - n : v[i] = q[n + i]  BY SMT
<1> HIDE DEF u, v
<1>3. /\ b \o u \in Seq(S) /\ Len(b \o u) = Len(b) + n
      /\ \A i \in 1 .. Len(b) : (b \o u)[i] = b[i]
      /\ \A i \in 1 .. n : (b \o u)[Len(b) + i] = u[i]
  BY SMT, <1>1
<1>4. ASSUME NEW i \in DOMAIN b  PROVE b[i] \in Range(b \o u)
  <2>1. i \in 1 .. Len(b) /\ i \in DOMAIN (b \o u)  BY SMT, <1>3
  <2> QED  BY <1>3, <2>1 DEF Range
<1>5. ASSUME NEW i \in DOMAIN q  PROVE q[i] \in Range(v) \cup Range(b \o u)
  <2>1. CASE i <= n
    <3>1. i \in 1 .. n /\ Len(b) + i \in DOMAIN (b \o u)  BY SMT, <1>3, <2>1
    <3> QED  BY <1>1, <1>3, <3>1 DEF Range
  <2>2. CASE i > n
    <3>1. i - n \in 1 .. Len(q) - n /\ i - n \in DOMAIN v /\ n + (i - n) = i  BY SMT, <1>2, <2>2
    <3>2. v[i - n] = q[i]  BY <1>2, <3>1
    <3> QED  BY <3>1, <3>2 DEF Range
  <2> QED  BY SMT, <2>1, <2>2
<1> QED  BY ZenonT(60), <1>2, <1>3, <1>4, <1>5 DEF Range, u, v

\* The elements of two sequences joined.
LEMMA RangeOfBoth ==
  ASSUME NEW S, NEW u \in Seq(S), NEW v \in Seq(S)
  PROVE  Range(u) \cup Range(v) = Range(u \o v)
<1>1. /\ u \o v \in Seq(S) /\ Len(u \o v) = Len(u) + Len(v)
      /\ \A i \in 1 .. Len(u) : (u \o v)[i] = u[i]
      /\ \A i \in 1 .. Len(v) : (u \o v)[Len(u) + i] = v[i]
  BY SMT
<1>2. ASSUME NEW i \in DOMAIN u  PROVE u[i] \in Range(u \o v)
  <2>1. i \in 1 .. Len(u) /\ i \in DOMAIN (u \o v)  BY SMT, <1>1
  <2> QED  BY <1>1, <2>1 DEF Range
<1>3. ASSUME NEW i \in DOMAIN v  PROVE v[i] \in Range(u \o v)
  <2>1. i \in 1 .. Len(v) /\ Len(u) + i \in DOMAIN (u \o v)  BY SMT, <1>1
  <2> QED  BY <1>1, <2>1 DEF Range
<1>4. ASSUME NEW i \in DOMAIN (u \o v)  PROVE (u \o v)[i] \in Range(u) \cup Range(v)
  <2>1. CASE i <= Len(u)
    <3>1. i \in 1 .. Len(u) /\ i \in DOMAIN u  BY SMT, <1>1, <2>1
    <3> QED  BY <1>1, <3>1 DEF Range
  <2>2. CASE i > Len(u)
    <3>1. i - Len(u) \in 1 .. Len(v) /\ i - Len(u) \in DOMAIN v /\ Len(u) + (i - Len(u)) = i
      BY SMT, <1>1, <2>2
    <3>2. (u \o v)[i] = v[i - Len(u)]  BY <1>1, <3>1
    <3> QED  BY <3>1, <3>2 DEF Range
  <2> QED  BY SMT, <1>1, <2>1, <2>2
<1> QED  BY <1>2, <1>3, <1>4 DEF Range

\* The worker takes the next write, or finds that its session has ended.
LEMMA ReceiveKeeps ==
  ASSUME SenderInv, NEW k \in Workers, Receive(k)  PROVE SenderInv'
<1>1. call' = Settle({}, "err")  BY SettleNothing DEF Receive, SenderInv
<1>2. /\ UNCHANGED <<kill, online, dests, written, late>>
      /\ work[k].st \in {"idle", "hold", "park"} /\ work[k].batch = <<>>
  BY WorkFacts DEF Receive, Quiet, BatchInOrder
<1>3. CASE /\ work[k].q # <<>>
           /\ work' = [work EXCEPT ![k].st = "gate", ![k].batch = <<Head(work[k].q)>>,
                                   ![k].q = Tail(@)]
  <2>1. /\ Head(work[k].q) \in Calls /\ Tail(work[k].q) \in Seq(Calls)
        /\ Range(work[k].q) \subseteq Range(<<Head(work[k].q)>>) \cup Range(Tail(work[k].q))
    BY <1>3, WorkFacts, Ranges
  <2>2. /\ work'[k].st = "gate" /\ work'[k].q = Tail(work[k].q)
        /\ work'[k].batch = <<Head(work[k].q)>> /\ work'[k].dest = work[k].dest
        /\ \A j \in Workers : j # k => work'[j] = work[j]
    BY <1>3, WorkFacts DEF WorkType
  <2>3. work' \in [Workers -> WorkType]
    <3> DEFINE w == [work[k] EXCEPT !.st = "gate", !.batch = <<Head(work[k].q)>>,
                                    !.q = Tail(work[k].q)]
    <3>1. work[k] \in WorkType  BY WorkFacts
    <3>2. <<Head(work[k].q)>> \in Seq(Calls)  BY SMT, <2>1
    <3>3. w \in WorkType  BY <2>1, <3>1, <3>2 DEF WorkType
    <3>4. work' = [work EXCEPT ![k] = w]  BY <1>3
    <3> HIDE DEF w
    <3> QED  BY <3>3, <3>4, WorkFacts
  <2>4. Hands(work[k]) \subseteq Hands(work'[k])
    BY <1>2, <2>1, <2>2, Ranges DEF Hands
  <2>5. BatchInOrder(work'[k]) /\ LateInOrder(k)'
    BY <1>2, <2>2, WorkFacts DEF BatchInOrder, LateInOrder
  <2> QED  BY <1>1, <1>2, <2>2, <2>3, <2>4, <2>5, WorkFacts, WorkerMoves
<1>4. CASE work' = [work EXCEPT ![k].st = "exiting"]
  <2>2. /\ work'[k].st = "exiting" /\ work'[k].q = work[k].q
        /\ work'[k].batch = work[k].batch /\ work'[k].dest = work[k].dest
        /\ \A j \in Workers : j # k => work'[j] = work[j]
    BY <1>4, WorkFacts DEF WorkType
  <2>3. work' \in [Workers -> WorkType]
    BY ZenonT(60), <1>4, WorkFacts DEF WorkType
  <2>4. Hands(work[k]) \subseteq Hands(work'[k])  BY <2>2 DEF Hands
  <2>5. BatchInOrder(work'[k]) /\ LateInOrder(k)'
    BY <1>2, <2>2, WorkFacts DEF BatchInOrder, LateInOrder
  <2> QED  BY <1>1, <1>2, <2>2, <2>3, <2>4, <2>5, WorkFacts, WorkerMoves
<1> QED  BY <1>3, <1>4 DEF Receive

\* The idle worker lets its stream go.
LEMMA ReleaseKeeps ==
  ASSUME SenderInv, NEW k \in Workers, Release(k)  PROVE SenderInv'
<1>1. call' = Settle({}, "err")  BY SettleNothing DEF Release, SenderInv
<1>2. /\ UNCHANGED <<kill, online, dests, written, late>>
      /\ work[k].st = "hold" /\ work' = [work EXCEPT ![k].st = "park", ![k].up = FALSE]
  BY DEF Release, Quiet
<1>3. /\ work'[k].st = "park" /\ work'[k].q = work[k].q
      /\ work'[k].batch = work[k].batch /\ work'[k].dest = work[k].dest
      /\ \A j \in Workers : j # k => work'[j] = work[j]
  BY <1>2, WorkFacts DEF WorkType
<1>4. work' \in [Workers -> WorkType]
  <2> DEFINE w == [work[k] EXCEPT !.st = "park", !.up = FALSE]
  <2>1. work[k] \in WorkType /\ work \in [Workers -> WorkType]
    BY WorkFacts DEF SenderInv, SenderTypeOK
  <2>2. w \in WorkType  BY <2>1 DEF WorkType
  <2>3. work' = [work EXCEPT ![k] = w]  BY <1>2, <2>1
  <2> HIDE DEF w
  <2> QED  BY <2>1, <2>2, <2>3
<1>5. Hands(work[k]) \subseteq Hands(work'[k])  BY <1>3 DEF Hands
<1>6. BatchInOrder(work'[k]) /\ LateInOrder(k)'
  BY <1>2, <1>3, WorkFacts DEF BatchInOrder, LateInOrder
<1> QED  BY <1>1, <1>2, <1>3, <1>4, <1>5, <1>6, WorkFacts, WorkerMoves

\* fail_all answers all that is in the hands of the worker.
LEMMA FailAllKeeps ==
  ASSUME SenderInv, NEW k \in Workers, FailAll(k), work[k].st # "none",
         UNCHANGED <<kill, online, dests, written, late>>
  PROVE  SenderInv'
<1>1. call' = Settle(Hands(work[k]), "err")
  <2>1. Hands(work[k]) = Range(work[k].batch) \cup Range(work[k].q)  BY DEF Hands
  <2> QED  BY <2>1 DEF FailAll
<1>2. /\ work'[k].st = "exiting" /\ work'[k].batch = <<>> /\ work'[k].dest = work[k].dest
      /\ \A j \in Workers : j # k => work'[j] = work[j]
  BY WorkFacts DEF WorkType, FailAll
<1>3. work' \in [Workers -> WorkType]
  <2> DEFINE w == [work[k] EXCEPT !.st = "exiting", !.q = <<>>, !.batch = <<>>]
  <2>1. work[k] \in WorkType /\ <<>> \in Seq(Calls)  BY SMT, WorkFacts
  <2>2. w \in WorkType  BY <2>1 DEF WorkType
  <2>3. work' = [work EXCEPT ![k] = w]  BY DEF FailAll
  <2> HIDE DEF w
  <2> QED  BY <2>2, <2>3, WorkFacts
<1>4. BatchInOrder(work'[k]) /\ LateInOrder(k)'
  BY <1>2, WorkFacts DEF BatchInOrder, LateInOrder
<1> QED  BY <1>1, <1>2, <1>3, <1>4, WorkFacts, WorkerMoves

\* The kill switch and the flag `online` are read before the dial.
LEMMA GateKeeps ==
  ASSUME SenderInv, NEW k \in Workers, Gate(k)  PROVE SenderInv'
<1>1. UNCHANGED <<kill, online, dests, written, late>> /\ work[k].st = "gate"
  BY DEF Gate, Quiet
<1>2. CASE kill \/ ~online  BY <1>1, <1>2, FailAllKeeps DEF Gate
<1>3. CASE ~(kill \/ ~online)
  <2>1. work' = [work EXCEPT ![k].st = "connect"] /\ UNCHANGED call  BY <1>3 DEF Gate
  <2>2. call' = Settle({}, "err")  BY <2>1, SettleNothing DEF SenderInv
  <2>3. /\ work'[k].st = "connect" /\ work'[k].q = work[k].q
        /\ work'[k].batch = work[k].batch /\ work'[k].dest = work[k].dest
        /\ \A j \in Workers : j # k => work'[j] = work[j]
    BY <2>1, WorkFacts DEF WorkType
  <2>4. work' \in [Workers -> WorkType]  BY ZenonT(60), <2>1, WorkFacts DEF WorkType
  <2>5. Hands(work[k]) \subseteq Hands(work'[k])  BY <2>3 DEF Hands
  <2>6. BatchInOrder(work'[k]) /\ LateInOrder(k)'
    BY SMT, <1>1, <1>3, <2>3, WorkFacts DEF BatchInOrder, LateInOrder
  <2> QED  BY <1>1, <2>2, <2>3, <2>4, <2>5, <2>6, WorkFacts, WorkerMoves
<1> QED  BY <1>2, <1>3

\* The dial: refused until the retries are used up, or the queue joins the batch.
LEMMA ConnectKeeps ==
  ASSUME SenderInv, NEW k \in Workers, Connect(k)  PROVE SenderInv'
<1>1. UNCHANGED <<kill, online, dests, written, late>> /\ work[k].st = "connect"
  BY DEF Connect, Quiet
<1>2. ASSUME NEW n \in 0 .. Len(work[k].q), UNCHANGED call,
             work' = [work EXCEPT ![k].st = "write", ![k].up = TRUE, ![k].fails = 0,
                                  ![k].retries = 0,
                                  ![k].batch = @ \o SubSeq(work[k].q, 1, n),
                                  ![k].q = SubSeq(@, n + 1, Len(@))]
      PROVE  SenderInv'
  <2> DEFINE b == work[k].batch \o SubSeq(work[k].q, 1, n)
             q == SubSeq(work[k].q, n + 1, Len(work[k].q))
  <2>1. /\ b \in Seq(Calls) /\ q \in Seq(Calls)
        /\ Range(work[k].q) \cup Range(work[k].batch) \subseteq Range(q) \cup Range(b)
    BY WorkFacts, TakenInto
  <2>2. work' = [work EXCEPT ![k].st = "write", ![k].up = TRUE, ![k].fails = 0,
                             ![k].retries = 0, ![k].batch = b, ![k].q = q]
    BY ZenonT(60), <1>2
  <2> HIDE DEF b, q
  <2>3. /\ work'[k].st = "write" /\ work'[k].q = q
        /\ work'[k].batch = b /\ work'[k].dest = work[k].dest
        /\ \A j \in Workers : j # k => work'[j] = work[j]
    BY SMT, <2>2, WorkFacts DEF WorkType
  <2>4. work' \in [Workers -> WorkType]
    <3> DEFINE w == [work[k] EXCEPT !.st = "write", !.up = TRUE, !.fails = 0,
                                    !.retries = 0, !.batch = b, !.q = q]
    <3>1. w \in WorkType  BY ZenonT(60), <2>1, WorkFacts DEF WorkType
    <3>2. work' = [work EXCEPT ![k] = w]  BY <2>2
    <3> HIDE DEF w
    <3> QED  BY <3>1, <3>2, WorkFacts
  <2>5. Hands(work[k]) \subseteq Hands(work'[k])  BY <2>1, <2>3 DEF Hands
  <2>6. BatchInOrder(work'[k]) /\ LateInOrder(k)'
    BY <1>1, <2>3, WorkFacts DEF BatchInOrder, LateInOrder
  <2>7. call' = Settle({}, "err")  BY <1>2, SettleNothing DEF SenderInv
  <2> QED  BY <1>1, <2>3, <2>4, <2>5, <2>6, <2>7, WorkFacts, WorkerMoves
<1>3. CASE FailAll(k)  BY <1>1, <1>3, FailAllKeeps
<1>4. CASE work' = [work EXCEPT ![k].fails = @ + 1] /\ UNCHANGED call
  <2>2. call' = Settle({}, "err")  BY <1>4, SettleNothing DEF SenderInv
  <2>3. /\ work'[k].st = "connect" /\ work'[k].q = work[k].q
        /\ work'[k].batch = work[k].batch /\ work'[k].dest = work[k].dest
        /\ \A j \in Workers : j # k => work'[j] = work[j]
    BY <1>1, <1>4, WorkFacts DEF WorkType
  <2>4. work' \in [Workers -> WorkType]
    <3> DEFINE w == [work[k] EXCEPT !.fails = @ + 1]
    <3>1. work[k] \in WorkType  BY WorkFacts
    <3>2. w \in WorkType  BY SMT, <3>1 DEF WorkType
    <3>3. work' = [work EXCEPT ![k] = w]  BY <1>4
    <3> HIDE DEF w
    <3> QED  BY <3>2, <3>3, WorkFacts
  <2>5. Hands(work[k]) \subseteq Hands(work'[k])  BY <2>3 DEF Hands
  <2>6. BatchInOrder(work'[k]) /\ LateInOrder(k)'
    BY <1>1, <2>3, WorkFacts DEF BatchInOrder, LateInOrder
  <2> QED  BY <1>1, <2>2, <2>3, <2>4, <2>5, <2>6, WorkFacts, WorkerMoves
<1> QED  BY <1>2, <1>3, <1>4 DEF Connect

\* A batch on the stream answers its callers.
LEMMA WriteDoneKeeps ==
  ASSUME SenderInv, NEW k \in Workers, Write_Done(k)  PROVE SenderInv'
<1>1. /\ UNCHANGED <<kill, online, dests>> /\ work[k].st = "write"
      /\ written' = written \cup Range(work[k].batch)
      /\ call' = Settle(Range(work[k].batch), "ok")
      /\ work' = [work EXCEPT ![k].st = "hold", ![k].batch = <<>>]
      /\ late' = [late EXCEPT ![k] = IF kill THEN @ + 1 ELSE 0]
  BY DEF Write_Done, Quiet
<1>2. /\ work'[k].st = "hold" /\ work'[k].q = work[k].q
      /\ work'[k].batch = <<>> /\ work'[k].dest = work[k].dest
      /\ \A j \in Workers : j # k => work'[j] = work[j]
  BY <1>1, WorkFacts DEF WorkType
<1>3. work' \in [Workers -> WorkType]
  <2> DEFINE w == [work[k] EXCEPT !.st = "hold", !.batch = <<>>]
  <2>1. work[k] \in WorkType /\ <<>> \in Seq(Calls)  BY SMT, WorkFacts
  <2>2. w \in WorkType  BY <2>1 DEF WorkType
  <2>3. work' = [work EXCEPT ![k] = w]  BY <1>1
  <2> HIDE DEF w
  <2> QED  BY <2>2, <2>3, WorkFacts
<1>4. /\ late' \in [Workers -> Nat] /\ \A j \in Workers : j # k => late'[j] = late[j]
      /\ late'[k] = IF kill THEN late[k] + 1 ELSE 0
  BY SMT, <1>1, WorkFacts
<1>5. late[k] \in Nat /\ late[k] = 0  BY SMT, <1>1, WorkFacts DEF LateInOrder
<1>6. BatchInOrder(work'[k]) /\ LateInOrder(k)'
  BY SMT, <1>1, <1>2, <1>4, <1>5 DEF BatchInOrder, LateInOrder
<1>7. Hands(work[k]) \subseteq Range(work[k].batch) \cup Hands(work'[k])
  BY <1>2 DEF Hands
<1> DEFINE S == Range(work[k].batch)
<1>8. /\ call' = Settle(S, "ok") /\ written \subseteq written' /\ S \subseteq written'
      /\ Hands(work[k]) \subseteq S \cup Hands(work'[k])
  BY <1>1, <1>7
<1> HIDE DEF S
<1> QED  BY <1>1, <1>2, <1>3, <1>4, <1>6, <1>8, WorkFacts, WorkerMoves

\* A write that fails is tried again or fails its callers.
LEMMA WriteFailedKeeps ==
  ASSUME SenderInv, NEW k \in Workers, Write_Failed(k)  PROVE SenderInv'
<1>1. UNCHANGED <<kill, online, dests, written, late>> /\ work[k].st = "write"
  BY DEF Write_Failed, Quiet
<1>2. CASE work' = [work EXCEPT ![k].retries = @ + 1] /\ UNCHANGED call
  <2>1. call' = Settle({}, "err")  BY <1>2, SettleNothing DEF SenderInv
  <2>2. /\ work'[k].st = "write" /\ work'[k].q = work[k].q
        /\ work'[k].batch = work[k].batch /\ work'[k].dest = work[k].dest
        /\ \A j \in Workers : j # k => work'[j] = work[j]
    BY <1>1, <1>2, WorkFacts DEF WorkType
  <2>3. work' \in [Workers -> WorkType]
    <3> DEFINE w == [work[k] EXCEPT !.retries = @ + 1]
    <3>1. work[k] \in WorkType  BY WorkFacts
    <3>2. w \in WorkType  BY SMTT(60), <3>1 DEF WorkType
    <3>3. work' = [work EXCEPT ![k] = w]  BY <1>2
    <3> HIDE DEF w
    <3> QED  BY <3>2, <3>3, WorkFacts
  <2>4. Hands(work[k]) \subseteq Hands(work'[k])  BY <2>2 DEF Hands
  <2>5. BatchInOrder(work'[k]) /\ LateInOrder(k)'
    BY <1>1, <2>2, WorkFacts DEF BatchInOrder, LateInOrder
  <2> QED  BY <1>1, <2>1, <2>2, <2>3, <2>4, <2>5, WorkFacts, WorkerMoves
<1>3. CASE /\ call' = Settle(Range(work[k].batch), "err")
           /\ work' = [work EXCEPT ![k].st = "exiting", ![k].batch = <<>>]
  <2>2. /\ work'[k].st = "exiting" /\ work'[k].q = work[k].q
        /\ work'[k].batch = <<>> /\ work'[k].dest = work[k].dest
        /\ \A j \in Workers : j # k => work'[j] = work[j]
    BY <1>3, WorkFacts DEF WorkType
  <2>3. work' \in [Workers -> WorkType]
    <3> DEFINE w == [work[k] EXCEPT !.st = "exiting", !.batch = <<>>]
    <3>1. work[k] \in WorkType /\ <<>> \in Seq(Calls)  BY SMT, WorkFacts
    <3>2. w \in WorkType  BY <3>1 DEF WorkType
    <3>3. work' = [work EXCEPT ![k] = w]  BY <1>3
    <3> HIDE DEF w
    <3> QED  BY <3>2, <3>3, WorkFacts
  <2> DEFINE S == Range(work[k].batch)
  <2>4. call' = Settle(S, "err") /\ Hands(work[k]) \subseteq S \cup Hands(work'[k])
    BY <1>3, <2>2 DEF Hands
  <2>5. BatchInOrder(work'[k]) /\ LateInOrder(k)'
    BY <1>1, <2>2, WorkFacts DEF BatchInOrder, LateInOrder
  <2> HIDE DEF S
  <2> QED  BY <1>1, <2>2, <2>3, <2>4, <2>5, WorkFacts, WorkerMoves
<1> QED  BY <1>2, <1>3 DEF Write_Failed

\* The entry that goes is the worker's own, if it has one.
LEMMA LeaveKeeps ==
  ASSUME SenderInv, NEW k \in Workers, Leave(k)  PROVE SenderInv'
<1>1. /\ UNCHANGED <<kill, online, call, written, late>> /\ work[k].st = "exiting"
      /\ dests' = [dests EXCEPT ![work[k].dest] = 0]
      /\ work' = [work EXCEPT ![k].st = "leaving"]
  BY DEF Leave
<1>2. call' = Settle({}, "err")  BY <1>1, SettleNothing DEF SenderInv
<1>3. /\ work'[k].st = "leaving" /\ work'[k].q = work[k].q
      /\ work'[k].batch = work[k].batch /\ work'[k].dest = work[k].dest
      /\ \A j \in Workers : j # k => work'[j] = work[j]
  BY <1>1, WorkFacts DEF WorkType
<1>4. work' \in [Workers -> WorkType]
  <2> DEFINE w == [work[k] EXCEPT !.st = "leaving"]
  <2>1. work[k] \in WorkType  BY WorkFacts
  <2>2. w \in WorkType  BY <2>1 DEF WorkType
  <2>3. work' = [work EXCEPT ![k] = w]  BY <1>1
  <2> HIDE DEF w
  <2> QED  BY <2>2, <2>3, WorkFacts
<1>5. Hands(work[k]) \subseteq Hands(work'[k])  BY <1>3 DEF Hands
<1>6. BatchInOrder(work'[k]) /\ LateInOrder(k)'
  BY <1>1, <1>3, WorkFacts DEF BatchInOrder, LateInOrder
<1>7. /\ dests' \in [Dests -> Workers \cup {0}]
      /\ \A d \in Dests : dests'[d] # 0 => dests'[d] = dests[d] /\ d # work[k].dest
  BY <1>1, WorkFacts
<1>8. ASSUME NEW d \in Dests  PROVE dests'[d] # k
  <2>1. EntryInOrder(d) /\ k # 0  BY SenderAssumption DEF SenderInv
  <2> QED  BY <1>7, <2>1 DEF EntryInOrder
<1> QED  BY <1>1, <1>2, <1>3, <1>4, <1>5, <1>6, <1>7, <1>8, WorkFacts, WorkerMoves

\* What is left in the queue of a worker that ends is failed.
LEMMA GoneKeeps ==
  ASSUME SenderInv, NEW k \in Workers, Gone(k)  PROVE SenderInv'
<1>1. /\ UNCHANGED <<kill, online, dests, written, late>> /\ work[k].st = "leaving"
      /\ work' = [work EXCEPT ![k] = [Parked EXCEPT !.st = "gone"]]
      /\ call' = Settle(Range(work[k].q), "err")
  BY DEF Gone, Quiet
<1>2. [Parked EXCEPT !.st = "gone"] \in WorkType  BY ParkedType DEF WorkType
<1>3. /\ work'[k].st = "gone" /\ work'[k].batch = <<>>
      /\ \A j \in Workers : j # k => work'[j] = work[j]
  BY <1>1, WorkFacts DEF Parked
<1>4. work' \in [Workers -> WorkType]  BY <1>1, <1>2, WorkFacts
<1>5. Hands(work[k]) = Range(work[k].q)
  BY <1>1, WorkFacts, Ranges DEF Hands, BatchInOrder
<1>6. BatchInOrder(work'[k]) /\ LateInOrder(k)'
  BY <1>1, <1>3, WorkFacts DEF BatchInOrder, LateInOrder
<1>7. ASSUME NEW d \in Dests  PROVE dests'[d] # k
  <2>1. EntryInOrder(d) /\ k # 0  BY SenderAssumption DEF SenderInv
  <2> QED  BY <1>1, <2>1 DEF EntryInOrder
<1> DEFINE S == Range(work[k].q)
<1>8. call' = Settle(S, "err") /\ Hands(work[k]) \subseteq S  BY <1>1, <1>5
<1> HIDE DEF S
<1> QED  BY <1>1, <1>3, <1>4, <1>6, <1>7, <1>8, WorkFacts, WorkerMoves

\* The states of a caller, from the type invariant.
LEMMA CallFacts ==
  ASSUME SenderInv, NEW m \in Calls
  PROVE  /\ call \in [Calls -> CallType]
         /\ CallInOrder(m)
BY DEF SenderInv, SenderTypeOK

\* A call that changes while the workers and the map stay.
LEMMA CallMoves ==
  ASSUME SenderInv, NEW m \in Calls,
         UNCHANGED <<kill, online, dests, work, written, late>>,
         NEW c \in CallType,
         call' = [call EXCEPT ![m] = c], CallInOrder(m)'
  PROVE  SenderInv'
<1>1. /\ call' \in [Calls -> CallType]
      /\ \A n \in Calls : n # m => call'[n] = call[n]
  BY CallFacts DEF CallType
<1>2. ASSUME NEW n \in Calls  PROVE CallInOrder(n)'
  <2>1. CASE n = m  BY <2>1
  <2>2. CASE n # m  BY <1>1, <2>2, CallFacts DEF CallInOrder
  <2> QED  BY <2>1, <2>2
<1>3. SenderTypeOK'  BY <1>1 DEF SenderInv, SenderTypeOK
<1>4. ASSUME NEW k \in Workers  PROVE (BatchInOrder(work[k]) /\ LateInOrder(k))'
  BY DEF SenderInv, LateInOrder
<1>5. ASSUME NEW d \in Dests  PROVE EntryInOrder(d)'  BY DEF SenderInv, EntryInOrder
<1>6. Cardinality(Entries') <= MaxLiveSessions  BY DEF SenderInv, Entries
<1> QED  BY <1>2, <1>3, <1>4, <1>5, <1>6 DEF SenderInv

\* A caller that is refused waits for nobody.
LEMMA RefusedKeeps ==
  ASSUME SenderInv, NEW m \in Calls, call' = Settle({m}, "err"),
         UNCHANGED <<kill, online, dests, work, written, late>>
  PROVE  SenderInv'
<1> DEFINE c == [st |-> "err", to |-> 0]
<1>1. call' = [call EXCEPT ![m] = c]  BY CallFacts DEF Settle
<1>2. c \in [st : {"new", "holds", "queued", "ok", "err"}, to : Workers \cup {0}]  OBVIOUS
<1>3. call'[m] = c  BY DEF Settle
<1>4. CallInOrder(m)'
  <2>1. call'[m].st = "err"  BY SMT, <1>3
  <2> QED  BY <2>1 DEF CallInOrder
<1> HIDE DEF c
<1> QED  BY <1>1, <1>2, <1>4, CallMoves DEF CallType

\* A write into the queue is in the hands of the worker, or its caller is failed.
LEMMA EnqueueKeeps ==
  ASSUME SenderInv, NEW m \in Calls, Enqueue(m)  PROVE SenderInv'
<1> DEFINE k == call[m].to
<1>1. UNCHANGED <<kill, online, dests, written, late>> /\ call[m].st = "holds"  BY DEF Enqueue
<1>2. k \in Workers /\ work[k].st # "none"  BY <1>1, CallFacts DEF CallInOrder
<1>3. CASE call' = Settle({m}, "err") /\ UNCHANGED work  BY <1>1, <1>3, RefusedKeeps
<1>4. CASE /\ work[k].st # "gone"
           /\ call' = [call EXCEPT ![m].st = "queued"]
           /\ work' = [work EXCEPT ![k].q = Append(@, m)]
  <2> HIDE DEF k
  <2>1. /\ Append(work[k].q, m) \in Seq(Calls)
        /\ Range(Append(work[k].q, m)) = Range(work[k].q) \cup {m}
    BY SMT, <1>2, WorkFacts, Ranges
  <2>2. /\ work'[k].st = work[k].st /\ work'[k].q = Append(work[k].q, m)
        /\ work'[k].batch = work[k].batch /\ work'[k].dest = work[k].dest
        /\ \A j \in Workers : j # k => work'[j] = work[j]
    BY <1>2, <1>4, WorkFacts DEF WorkType
  <2>3. work' \in [Workers -> WorkType]
    <3> DEFINE w == [work[k] EXCEPT !.q = Append(work[k].q, m)]
    <3>1. work[k] \in WorkType  BY <1>2, WorkFacts
    <3>2. w \in WorkType  BY <2>1, <3>1 DEF WorkType
    <3>3. work' = [work EXCEPT ![k] = w]  BY <1>4
    <3> HIDE DEF w
    <3> QED  BY <1>2, <3>2, <3>3, WorkFacts
  <2>4. /\ call' \in [Calls -> CallType]
        /\ \A n \in Calls : n # m => call'[n] = call[n]
        /\ call'[m].st = "queued" /\ call'[m].to = k
    BY <1>4, CallFacts DEF k, CallType
  <2>5. Hands(work'[k]) = Hands(work[k]) \cup {m}  BY <2>1, <2>2 DEF Hands
  <2>6. ASSUME NEW n \in Calls  PROVE CallInOrder(n)'
    <3>1. CASE n = m  BY ZenonT(60), <1>2, <1>4, <2>2, <2>4, <2>5, <3>1 DEF CallInOrder
    <3>2. CASE n # m
      <4>1. CallInOrder(n) /\ call'[n] = call[n]  BY <2>4, <3>2, CallFacts
      <4>2. CASE call[n].to = k  BY <1>1, <2>2, <2>5, <4>1, <4>2 DEF CallInOrder
      <4>3. CASE call[n].to # k  BY <1>1, <2>2, <4>1, <4>3 DEF CallInOrder
      <4> QED  BY <4>2, <4>3
    <3> QED  BY <3>1, <3>2
  <2>7. SenderTypeOK'  BY <1>1, <2>3, <2>4 DEF SenderInv, SenderTypeOK
  <2>8. ASSUME NEW j \in Workers  PROVE (BatchInOrder(work[j]) /\ LateInOrder(j))'
    BY <1>1, <2>2 DEF SenderInv, LateInOrder, BatchInOrder
  <2>9. ASSUME NEW d \in Dests  PROVE EntryInOrder(d)'
    <3>1. EntryInOrder(d)  BY DEF SenderInv
    <3>2. dests[d] \in Workers \cup {0}  BY <1>2, WorkFacts
    <3> QED  BY <1>1, <2>2, <3>1, <3>2 DEF EntryInOrder
  <2>10. Cardinality(Entries') <= MaxLiveSessions  BY <1>1 DEF SenderInv, Entries
  <2> QED  BY <2>6, <2>7, <2>8, <2>9, <2>10 DEF SenderInv
<1> QED  BY <1>3, <1>4 DEF Enqueue

\* evict_if_full makes room for one entry.
LEMMA RoomForOne ==
  ASSUME NEW room \in SUBSET Entries, NEW d \in Dests, EvictIfFull(room),
         Cardinality(Entries) <= MaxLiveSessions
  PROVE  Cardinality(room \cup {d}) <= MaxLiveSessions
<1>1. IsFiniteSet(Entries) /\ IsFiniteSet(room)  BY SenderAssumption, FS_Subset DEF Entries
<1>2. Cardinality(Entries) \in Nat /\ Cardinality(room) \in Nat  BY <1>1, FS_CardinalityType
<1>3. Cardinality(room) + 1 <= MaxLiveSessions
  <2>1. CASE Cardinality(Entries) >= MaxLiveSessions
    <3>1. PICK e \in Entries : room = Entries \ {e}  BY <2>1 DEF EvictIfFull
    <3>2. Cardinality(room) = Cardinality(Entries) - 1  BY <1>1, <3>1, FS_RemoveElement
    <3> QED  BY SMT, <1>2, <3>2, SenderAssumption
  <2>2. CASE ~(Cardinality(Entries) >= MaxLiveSessions)
    BY SMT, <1>2, <2>2, SenderAssumption DEF EvictIfFull
  <2> QED  BY <2>1, <2>2
<1>4. Cardinality(room \cup {d}) \in Nat /\ Cardinality(room \cup {d}) <= Cardinality(room) + 1
  <2>1. Cardinality(room \cup {d}) =
          IF d \in room THEN Cardinality(room) ELSE Cardinality(room) + 1
    BY <1>1, FS_AddElement
  <2> QED  BY SMT, <1>2, <2>1
<1> QED  BY SMT, <1>2, <1>3, <1>4, SenderAssumption

\* A caller finds or makes the session: the pool keeps its bound.
LEMMA SendKeeps ==
  ASSUME SenderInv, NEW m \in Calls, NEW d \in Dests, Send(m, d)  PROVE SenderInv'
<1>1. UNCHANGED <<kill, online, written, late>>  BY DEF Send
<1>2. EntryInOrder(d) /\ dests[d] \in Workers \cup {0}  BY DEF SenderInv, SenderTypeOK
<1>3. CASE /\ dests[d] # 0 /\ UNCHANGED <<dests, work>>
           /\ call' = [call EXCEPT ![m] = [st |-> "holds", to |-> dests[d]]]
  <2> DEFINE c == [st |-> "holds", to |-> dests[d]]
  <2>1. c \in [st : {"new", "holds", "queued", "ok", "err"}, to : Workers \cup {0}]  BY <1>2
  <2>2. call' = [call EXCEPT ![m] = c] /\ c.st = "holds" /\ c.to = dests[d]  BY <1>3
  <2> HIDE DEF c
  <2>3. call'[m] = c  BY <2>2, CallFacts
  <2>4. CallInOrder(m)'  BY <1>2, <1>3, <2>2, <2>3 DEF CallInOrder, EntryInOrder
  <2> QED  BY <1>1, <1>3, <2>1, <2>2, <2>4, CallMoves DEF CallType
<1>4. ASSUME NEW k \in Workers, NEW room \in SUBSET Entries, dests[d] = 0,
             work[k].st = "none", EvictIfFull(room),
             dests' = [e \in Dests |-> IF e = d THEN k ELSE IF e \in room THEN dests[e] ELSE 0],
             work' = [work EXCEPT ![k] = [Parked EXCEPT !.st = "idle", !.dest = d]],
             call' = [call EXCEPT ![m] = [st |-> "holds", to |-> k]]
      PROVE  SenderInv'
  <2> DEFINE w == [Parked EXCEPT !.st = "idle", !.dest = d]
  <2>1. w \in WorkType /\ w.st = "idle" /\ w.dest = d /\ w.batch = <<>>
    BY ParkedType DEF WorkType, Parked
  <2>2. work' = [work EXCEPT ![k] = w]  BY <1>4
  <2> HIDE DEF w
  <2>3. /\ work' \in [Workers -> WorkType] /\ work'[k] = w
        /\ \A j \in Workers : j # k => work'[j] = work[j]
    BY <2>1, <2>2, WorkFacts
  <2>4. /\ call' \in [Calls -> CallType]
        /\ \A n \in Calls : n # m => call'[n] = call[n]
        /\ call'[m].st = "holds" /\ call'[m].to = k
    BY <1>4, CallFacts DEF CallType
  <2>5. dests' \in [Dests -> Workers \cup {0}]  BY <1>4, WorkFacts
  <2>6. SenderTypeOK'  BY <1>1, <2>3, <2>4, <2>5 DEF SenderInv, SenderTypeOK
  <2>7. ASSUME NEW j \in Workers  PROVE (BatchInOrder(work[j]) /\ LateInOrder(j))'
    <3>1. BatchInOrder(work[j]) /\ LateInOrder(j)  BY WorkFacts
    <3>2. CASE j = k  BY <1>1, <2>1, <2>3, <3>1, <3>2 DEF BatchInOrder, LateInOrder
    <3>3. CASE j # k  BY <1>1, <2>3, <3>1, <3>3 DEF BatchInOrder, LateInOrder
    <3> QED  BY <3>2, <3>3
  <2>8. ASSUME NEW n \in Calls  PROVE CallInOrder(n)'
    <3>1. CASE n = m  BY <2>1, <2>3, <2>4, <3>1 DEF CallInOrder
    <3>2. CASE n # m
      <4>1. CallInOrder(n) /\ call'[n] = call[n]  BY <2>4, <3>2, CallFacts
      <4>2. call[n].st \in {"holds", "queued"} => call[n].to # k  BY <1>4, <4>1 DEF CallInOrder
      <4> QED  BY <1>1, <2>3, <4>1, <4>2 DEF CallInOrder
    <3> QED  BY <3>1, <3>2
  <2>9. ASSUME NEW e \in Dests  PROVE EntryInOrder(e)'
    <3>1. CASE e = d
      <4>1. dests'[e] = k  BY <1>4, <3>1
      <4> QED  BY <2>1, <2>3, <3>1, <4>1 DEF EntryInOrder
    <3>2. CASE e # d
      <4>1. dests'[e] # 0 => dests'[e] = dests[e]  BY <1>4, <3>2
      <4>2. EntryInOrder(e) /\ dests[e] \in Workers \cup {0}  BY DEF SenderInv, SenderTypeOK
      <4>3. dests[e] # k  BY <1>4, <4>2, SenderAssumption DEF EntryInOrder
      <4> QED  BY <2>3, <4>1, <4>2, <4>3 DEF EntryInOrder
    <3> QED  BY <3>1, <3>2
  <2>10. Cardinality(Entries') <= MaxLiveSessions
    <3>1. Cardinality(room \cup {d}) <= MaxLiveSessions  BY <1>4, RoomForOne DEF SenderInv
    <3>2. Entries' = room \cup {d}
      <4>1. k # 0 /\ room \subseteq Dests /\ \A e \in room : dests[e] # 0
        BY <1>4, SenderAssumption DEF Entries
      <4> QED  BY <1>4, <4>1 DEF Entries
    <3> QED  BY <3>1, <3>2
  <2> QED  BY <2>6, <2>7, <2>8, <2>9, <2>10 DEF SenderInv
<1> QED  BY <1>3, <1>4 DEF Send

\* The kill switch and `online` change.
LEMMA FlipKeeps ==
  ASSUME SenderInv, Flip  PROVE SenderInv'
<1>1. /\ UNCHANGED <<dests, work, call, written>>
      /\ \/ kill' = ~kill /\ UNCHANGED online
         \/ online' = ~online /\ UNCHANGED kill
      /\ late' = IF kill # kill' THEN [k \in Workers |-> 0] ELSE late
  BY DEF Flip
<1>2. kill \in BOOLEAN /\ online \in BOOLEAN /\ late \in [Workers -> Nat]
  BY DEF SenderInv, SenderTypeOK
<1>3. kill' \in BOOLEAN /\ online' \in BOOLEAN /\ late' \in [Workers -> Nat]
  BY <1>1, <1>2
<1>4. SenderTypeOK'  BY <1>1, <1>3 DEF SenderInv, SenderTypeOK
<1>5. ASSUME NEW k \in Workers  PROVE (BatchInOrder(work[k]) /\ LateInOrder(k))'
  <2>1. BatchInOrder(work[k]) /\ LateInOrder(k)  BY WorkFacts
  <2>2. CASE kill = kill'  BY <1>1, <2>1, <2>2 DEF LateInOrder
  <2>3. CASE kill # kill'  BY SMT, <1>1, <2>1, <2>3 DEF LateInOrder
  <2> QED  BY <2>2, <2>3
<1>6. ASSUME NEW m \in Calls  PROVE CallInOrder(m)'  BY <1>1, CallFacts DEF CallInOrder
<1>7. ASSUME NEW d \in Dests  PROVE EntryInOrder(d)'  BY <1>1 DEF SenderInv, EntryInOrder
<1>8. Cardinality(Entries') <= MaxLiveSessions  BY <1>1 DEF SenderInv, Entries
<1> QED  BY <1>4, <1>5, <1>6, <1>7, <1>8 DEF SenderInv

\* A pool without workers.
LEMMA SenderInitKeeps == SenderInit => SenderInv
<1> SUFFICES ASSUME SenderInit  PROVE SenderInv  OBVIOUS
<1>1. work = [k \in Workers |-> Parked] /\ Parked \in WorkType  BY ParkedType DEF SenderInit
<1>2. SenderTypeOK  BY <1>1 DEF SenderInit, SenderTypeOK, CallType
<1>3. ASSUME NEW k \in Workers  PROVE BatchInOrder(work[k]) /\ LateInOrder(k)
  BY SMT, <1>1 DEF SenderInit, BatchInOrder, LateInOrder, Parked
<1>4. ASSUME NEW m \in Calls  PROVE CallInOrder(m)  BY DEF SenderInit, CallInOrder
<1>5. ASSUME NEW d \in Dests  PROVE EntryInOrder(d)  BY DEF SenderInit, EntryInOrder
<1>6. Entries = {}  BY DEF SenderInit, Entries
<1>7. Cardinality(Entries) <= MaxLiveSessions  BY SMT, <1>6, FS_EmptySet, SenderAssumption
<1> QED  BY <1>2, <1>3, <1>4, <1>5, <1>7 DEF SenderInv

\* The invariant of the sender holds in every behaviour.
LEMMA SenderInvariance == SenderSpec => []SenderInv
<1>1. SenderInv /\ [SenderNext]_sender => SenderInv'
  <2> SUFFICES ASSUME SenderInv, [SenderNext]_sender  PROVE SenderInv'  OBVIOUS
  <2>1. ASSUME NEW m \in Calls, Refused(m)  PROVE SenderInv'  BY <2>1, RefusedKeeps DEF Refused
  <2>2. ASSUME NEW m \in Calls, Enqueue(m)  PROVE SenderInv'  BY <2>2, EnqueueKeeps
  <2>3. ASSUME NEW m \in Calls, NEW d \in Dests, Send(m, d)  PROVE SenderInv'  BY <2>3, SendKeeps
  <2>4. ASSUME NEW k \in Workers, Worker(k)  PROVE SenderInv'
    BY <2>4, ReceiveKeeps, ReleaseKeeps, GateKeeps, ConnectKeeps, WriteDoneKeeps,
       WriteFailedKeeps, LeaveKeeps, GoneKeeps DEF Worker
  <2>5. CASE Flip  BY <2>5, FlipKeeps
  <2>6. CASE UNCHANGED sender
    <3>1. UNCHANGED <<kill, online, dests, work, call, written, late>>  BY <2>6 DEF sender
    <3> QED  BY <3>1 DEF SenderInv, SenderTypeOK, LateInOrder, CallInOrder, EntryInOrder, Entries
  <2> QED  BY <2>1, <2>2, <2>3, <2>4, <2>5, <2>6 DEF SenderNext
<1> QED  BY <1>1, SenderInitKeeps, PTL DEF SenderSpec

\* KillStopsAfterOneBatch, for any number of workers, calls and flips.
THEOREM KillStops == SenderSpec => []KillStopsAfterOneBatch
<1>1. SenderInv => KillStopsAfterOneBatch
  BY DEF SenderInv, LateInOrder, KillStopsAfterOneBatch
<1> QED  BY <1>1, SenderInvariance, PTL

\* NoCallerForgotten, for any number of workers and calls and any limits.
THEOREM CallersAnswered == SenderSpec => []NoCallerForgotten
<1>1. SenderInv => NoCallerForgotten
  <2> SUFFICES ASSUME SenderInv  PROVE NoCallerForgotten  OBVIOUS
  <2>1. ASSUME NEW m \in Calls
        PROVE  /\ call[m].st = "queued" =>
                    LET k == call[m].to
                    IN  work[k].st # "gone" /\ m \in Range(work[k].q \o work[k].batch)
               /\ call[m].st = "ok" => m \in written
    <3>1. CallInOrder(m)  BY CallFacts
    <3>2. ASSUME call[m].st = "queued"
          PROVE  m \in Range(work[call[m].to].q \o work[call[m].to].batch)
      <4> DEFINE k == call[m].to
      <4>1. k \in Workers /\ m \in Hands(work[k])  BY <3>1, <3>2 DEF CallInOrder
      <4> HIDE DEF k
      <4>2. Range(work[k].q) \cup Range(work[k].batch) = Range(work[k].q \o work[k].batch)
        BY <4>1, WorkFacts, RangeOfBoth
      <4> QED  BY <4>1, <4>2 DEF Hands, k
    <3> QED  BY <3>1, <3>2 DEF CallInOrder
  <2>2. ASSUME NEW d \in Entries
        PROVE  work[dests[d]].st \notin {"none", "leaving", "gone"}
    <3>1. d \in Dests /\ dests[d] # 0  BY DEF Entries
    <3>2. EntryInOrder(d)  BY <3>1 DEF SenderInv
    <3> QED  BY <3>1, <3>2 DEF EntryInOrder
  <2> QED  BY <2>1, <2>2 DEF NoCallerForgotten, SenderInv
<1> QED  BY <1>1, SenderInvariance, PTL

-----------------------------------------------------------------------------
(* The vault *)

File == [drop : Drops, key : Nat]

DiskType == [store : Deks \cup {"absent", "plain"}, rows : SUBSET Drops, copy : BOOLEAN,
             key : Nat, dir : BOOLEAN, files : SUBSET File, temps : SUBSET Drops]

VaultTypeOK ==
  /\ disk \in DiskType
  /\ tierA \in Nat
  /\ took \in SUBSET Drops
  /\ crashes \in Nat /\ faults \in Nat /\ wipes \in Nat

\* A process that runs without a wipe holds the key of the data dir, and a
\* data dir without a key has an empty queue.
KeyInOrder ==
  wipes = 0 =>
    /\ host # "wiped"
    /\ host # "down" => tierA = disk.key /\ disk.key # 0
    /\ disk.key = 0 => took = {}

VaultInv ==
  /\ VaultTypeOK /\ KeyInOrder /\ KeptUntilUnlock /\ CalmLossIsLoud /\ WipeIsComplete
  /\ crashes = 0 => ~disk.copy

-----------------------------------------------------------------------------
\* A data dir an operation leaves but for some of its fields.
LEMMA DiskFacts ==
  ASSUME VaultInv
  PROVE  /\ disk \in DiskType /\ disk.files \subseteq File /\ disk.rows \subseteq Drops
         /\ disk.key \in Nat /\ disk.temps \subseteq Drops /\ disk.copy \in BOOLEAN
         /\ tierA \in Nat /\ took \subseteq Drops
         /\ crashes \in Nat /\ faults \in Nat /\ wipes \in Nat
BY DEF VaultInv, VaultTypeOK, DiskType

\* Opening the store leaves the queue, the rows and the keys.
LEMMA OpenedFacts ==
  ASSUME VaultInv, NEW k \in Deks
  PROVE  /\ Opened(k) \in DiskType
         /\ Opened(k).files = disk.files /\ Opened(k).rows = disk.rows
         /\ Opened(k).key = disk.key /\ (Opened(k).copy => disk.copy)
BY DiskFacts DEF Opened, DiskType

\* What keeps the queue, the rows and the keys of a running vault keeps the
\* invariant.
LEMMA QueueStays ==
  ASSUME VaultInv, disk' \in DiskType,
         disk'.files = disk.files, disk'.rows = disk.rows, disk'.key = disk.key,
         UNCHANGED <<tierA, took, drained, told, erased, wipes>>,
         crashes' \in Nat, faults' \in Nat,
         crashes' = 0 => crashes = 0 /\ ~disk'.copy, faults' = 0 => faults = 0,
         host' # "wiped", host = "down" => host' = "down"
  PROVE  VaultInv'
<1>1. VaultTypeOK'  BY DEF VaultInv, VaultTypeOK
<1>2. KeyInOrder'  BY DEF VaultInv, KeyInOrder
<1>3. KeptUntilUnlock'  BY SMT DEF VaultInv, KeptUntilUnlock
<1>4. CalmLossIsLoud'  BY DEF VaultInv, CalmLossIsLoud, LossIsLoud, DropsOf
<1>5. WipeIsComplete'  BY DEF WipeIsComplete
<1> QED  BY <1>1, <1>2, <1>3, <1>4, <1>5 DEF VaultInv

\* A launch reads or makes the key of the data dir.
LEMMA LaunchKeeps ==
  ASSUME VaultInv, Launch  PROVE VaultInv'
<1>1. /\ host = "down" /\ host' = "locked" /\ tierA' = TierA
      /\ disk' = [disk EXCEPT !.key = tierA', !.dir = TRUE]
      /\ UNCHANGED <<took, drained, told, erased, crashes, faults, wipes>>
  BY DEF Launch
<1>2. TierA \in Nat /\ TierA # 0 /\ (disk.key # 0 => TierA = disk.key)  BY SMT, DiskFacts DEF TierA
<1>3. /\ disk' \in DiskType /\ disk'.files = disk.files /\ disk'.rows = disk.rows
      /\ disk'.key = TierA /\ disk'.copy = disk.copy
  BY <1>1, <1>2, DiskFacts DEF DiskType
<1>4. VaultTypeOK'  BY <1>1, <1>2, <1>3 DEF VaultInv, VaultTypeOK
<1>5. KeyInOrder'  BY <1>1, <1>2, <1>3 DEF VaultInv, KeyInOrder
<1>6. KeptUntilUnlock'  BY SMT, <1>1, <1>2, <1>3 DEF VaultInv, KeptUntilUnlock, KeyInOrder
<1>7. CalmLossIsLoud'  BY <1>1, <1>3 DEF VaultInv, CalmLossIsLoud, LossIsLoud, DropsOf
<1>8. WipeIsComplete' /\ (crashes' = 0 => ~disk'.copy)  BY <1>1, <1>3 DEF WipeIsComplete, VaultInv
<1> QED  BY <1>4, <1>5, <1>6, <1>7, <1>8 DEF VaultInv

\* A drop becomes a file of the queue, or is refused with a word.
LEMMA IngestLockedKeeps ==
  ASSUME VaultInv, NEW d \in Drops, IngestLocked(d)  PROVE VaultInv'
<1>1. /\ host = "locked"
      /\ UNCHANGED <<host, tierA, drained, told, erased, crashes, faults, wipes>>
  BY DEF IngestLocked
<1>2. CASE disk' = [disk EXCEPT !.files = Put(@, d)] /\ took' = took \cup {d}
  <2> DEFINE f == [drop |-> d, key |-> tierA]
  <2>1. f \in File /\ f.drop = d /\ f.key = tierA  BY DiskFacts DEF File
  <2>2. Put(disk.files, d) = {g \in disk.files : g.drop # d} \cup {f}  BY DEF Put
  <2> HIDE DEF f
  <2>3. Put(disk.files, d) \subseteq File  BY <2>1, <2>2, DiskFacts
  <2>4. /\ disk' \in DiskType /\ disk'.files = Put(disk.files, d) /\ disk'.rows = disk.rows
        /\ disk'.key = disk.key /\ disk'.copy = disk.copy
    BY <1>2, <2>3, DiskFacts DEF DiskType
  <2>5. VaultTypeOK'  BY <1>1, <1>2, <2>4 DEF VaultInv, VaultTypeOK
  <2>6. KeyInOrder'  BY <1>1, <2>4 DEF VaultInv, KeyInOrder
  <2>7. ASSUME wipes' = 0, NEW e \in took' \ drained'
        PROVE  \E g \in disk'.files : g.drop = e /\ g.key = disk'.key
    <3>1. CASE e = d
      <4>1. tierA = disk.key  BY <1>1, <2>7 DEF VaultInv, KeyInOrder
      <4> QED  BY <2>1, <2>2, <2>4, <3>1, <4>1
    <3>2. CASE e # d
      <4>1. e \in took \ drained  BY <1>1, <1>2, <2>7, <3>2
      <4>2. PICK g \in disk.files : g.drop = e /\ g.key = disk.key
        BY <1>1, <2>7, <4>1 DEF VaultInv, KeptUntilUnlock
      <4> QED  BY <2>2, <2>4, <3>2, <4>2
    <3> QED  BY <3>1, <3>2
  <2>8. DropsOf(disk'.files) = DropsOf(disk.files) \cup {d}
    BY SMT, <2>1, <2>2, <2>4 DEF DropsOf
  <2>9. CalmLossIsLoud'
    BY <1>1, <1>2, <2>4, <2>8 DEF VaultInv, CalmLossIsLoud, LossIsLoud
  <2>10. WipeIsComplete' /\ (crashes' = 0 => ~disk'.copy)
    BY <1>1, <2>4 DEF WipeIsComplete, VaultInv
  <2> QED  BY <2>5, <2>6, <2>7, <2>9, <2>10 DEF VaultInv, KeptUntilUnlock
<1>3. CASE UNCHANGED <<disk, took>>
  BY <1>1, <1>3, DiskFacts, QueueStays DEF VaultInv
<1> QED  BY <1>2, <1>3 DEF IngestLocked

\* A drop becomes a row.
LEMMA IngestKeeps ==
  ASSUME VaultInv, NEW d \in Drops, Ingest(d)  PROVE VaultInv'
<1>1. /\ host = "unlocked" /\ disk' = [disk EXCEPT !.rows = @ \cup {d}]
      /\ UNCHANGED <<host, tierA, took, drained, told, erased, crashes, faults, wipes>>
  BY DEF Ingest
<1>2. /\ disk' \in DiskType /\ disk'.files = disk.files /\ disk'.rows = disk.rows \cup {d}
      /\ disk'.key = disk.key /\ disk'.copy = disk.copy
  BY <1>1, DiskFacts DEF DiskType
<1>3. VaultTypeOK'  BY <1>1, <1>2 DEF VaultInv, VaultTypeOK
<1>4. KeyInOrder'  BY <1>1, <1>2 DEF VaultInv, KeyInOrder
<1>5. KeptUntilUnlock'  BY SMT, <1>1, <1>2 DEF VaultInv, KeptUntilUnlock
<1>6. CalmLossIsLoud'  BY <1>1, <1>2 DEF VaultInv, CalmLossIsLoud, LossIsLoud, DropsOf
<1>7. WipeIsComplete' /\ (crashes' = 0 => ~disk'.copy)
  BY <1>1, <1>2 DEF WipeIsComplete, VaultInv
<1> QED  BY <1>3, <1>4, <1>5, <1>6, <1>7 DEF VaultInv

\* A drain keeps the invariant when it notes what leaves the queue, and, no
\* process dying and no file operation failing, what is not ingested is told.
LEMMA Drains ==
  ASSUME VaultInv, disk' \in DiskType,
         disk'.files \subseteq disk.files, disk.rows \subseteq disk'.rows, disk'.key = disk.key,
         UNCHANGED <<tierA, took, erased, wipes>>,
         drained \subseteq drained', told \subseteq told',
         \A f \in disk.files \ disk'.files : f.drop \in drained',
         crashes' \in Nat, faults' \in Nat,
         crashes' = 0 => crashes = 0 /\ ~disk'.copy,
         crashes' = 0 /\ faults' = 0 =>
           /\ faults = 0
           /\ DropsOf(disk.files) \subseteq DropsOf(disk'.files) \cup disk'.rows \cup told',
         host' # "wiped", host # "down"
  PROVE  VaultInv'
<1>1. VaultTypeOK'  BY DEF VaultInv, VaultTypeOK
<1>2. KeyInOrder'  BY DEF VaultInv, KeyInOrder
<1>3. ASSUME wipes' = 0, NEW d \in took' \ drained'
      PROVE  \E f \in disk'.files : f.drop = d /\ f.key = disk'.key
  <2>1. d \in took \ drained  BY <1>3
  <2>2. PICK f \in disk.files : f.drop = d /\ f.key = disk.key
    BY <1>3, <2>1 DEF VaultInv, KeptUntilUnlock
  <2>3. f \in disk'.files  BY <1>3, <2>2
  <2> QED  BY <2>2, <2>3
<1>4. CalmLossIsLoud'
  BY DEF VaultInv, CalmLossIsLoud, LossIsLoud
<1>5. WipeIsComplete'  BY DEF WipeIsComplete
<1> QED  BY <1>1, <1>2, <1>3, <1>4, <1>5 DEF VaultInv, KeptUntilUnlock

\* The drain takes every file whose key is the one of the data dir.
LEMMA UnlockKeeps ==
  ASSUME VaultInv, NEW k \in Deks, Unlock(k)  PROVE VaultInv'
<1>1. PICK ok \in SUBSET Readable(disk.files), stuck \in SUBSET DropsOf(disk.files) :
        /\ disk' = [Opened(k) EXCEPT !.rows = @ \cup ok,
                                     !.files = {f \in @ : f.drop \in stuck}]
        /\ told' = told \cup Counted(disk.files, ok)
        /\ IF stuck = {} THEN UNCHANGED faults ELSE Fault
  BY DEF Unlock
<1>2. /\ drained' = drained \cup DropsOf(disk.files) /\ host' = "unlocked"
      /\ host \in {"locked", "wiped"} /\ UNCHANGED <<tierA, took, erased, crashes, wipes>>
  BY DEF Unlock, Opens
<1>3. ok \subseteq Drops  BY SMT, DiskFacts DEF Readable, DropsOf, File
<1>4. /\ disk' \in DiskType /\ disk'.rows = disk.rows \cup ok
      /\ disk'.files = {f \in disk.files : f.drop \in stuck}
      /\ disk'.key = disk.key /\ (disk'.copy => disk.copy)
  BY <1>1, <1>3, OpenedFacts, DiskFacts DEF DiskType
<1>5. faults' \in Nat /\ (faults' = 0 => faults = 0)  BY SMT, <1>1, DiskFacts DEF Fault
<1>6. DropsOf(disk.files) \subseteq disk'.rows \cup told'  BY <1>1, <1>4 DEF Counted
<1>7. \A f \in disk.files \ disk'.files : f.drop \in drained'  BY <1>2 DEF DropsOf
<1>8. crashes' \in Nat /\ (crashes' = 0 => crashes = 0 /\ ~disk'.copy)
  BY <1>2, <1>4, DiskFacts DEF VaultInv
<1> QED  BY ZenonT(60), <1>1, <1>2, <1>4, <1>5, <1>6, <1>7, <1>8, Drains

\* A drain that stops keeps what it did not take.
LEMMA UnlockStopsKeeps ==
  ASSUME VaultInv, NEW k \in Deks, UnlockStops(k)  PROVE VaultInv'
<1>1. PICK gone \in (SUBSET disk.files) \ {disk.files} :
        /\ disk' = [Opened(k) EXCEPT !.files = @ \ gone]
        /\ drained' = drained \cup DropsOf(gone)
        /\ told' = told \cup (DropsOf(gone) \ Readable(gone))
  BY DEF UnlockStops
<1>2. /\ faults' = faults + 1 /\ host' = "locked" /\ host \in {"locked", "wiped"}
      /\ UNCHANGED <<tierA, took, erased, crashes, wipes>>
  BY DEF UnlockStops, Opens, Fault
<1>3. /\ disk' \in DiskType /\ disk'.rows = disk.rows /\ disk'.files = disk.files \ gone
      /\ disk'.key = disk.key /\ (disk'.copy => disk.copy)
  BY <1>1, OpenedFacts, DiskFacts DEF DiskType
<1>4. \A f \in disk.files \ disk'.files : f.drop \in drained'  BY <1>1, <1>3 DEF DropsOf
<1>5. faults' \in Nat /\ faults' # 0  BY SMT, <1>2, DiskFacts
<1>6. crashes' \in Nat /\ (crashes' = 0 => crashes = 0 /\ ~disk'.copy)
  BY <1>2, <1>3, DiskFacts DEF VaultInv
<1> QED  BY <1>1, <1>2, <1>3, <1>4, <1>5, <1>6, Drains

\* A process that dies between two files of the drain.
LEMMA CrashInDrainKeeps ==
  ASSUME VaultInv, NEW k \in Deks, CrashInDrain(k)  PROVE VaultInv'
<1>1. PICK gone \in (SUBSET disk.files) \ {{}}, seen \in SUBSET disk.files :
        /\ \E ok \in SUBSET Readable(seen) :
             /\ disk' = [Opened(k) EXCEPT !.rows = @ \cup ok, !.files = @ \ gone]
             /\ told' = told \cup Counted(seen, ok) \cup (DropsOf(gone) \ Readable(gone))
        /\ drained' = drained \cup DropsOf(gone)
  BY DEF CrashInDrain
<1>2. PICK ok \in SUBSET Readable(seen) :
        /\ disk' = [Opened(k) EXCEPT !.rows = @ \cup ok, !.files = @ \ gone]
        /\ told' = told \cup Counted(seen, ok) \cup (DropsOf(gone) \ Readable(gone))
  BY <1>1
<1>3. /\ crashes' = crashes + 1 /\ host' = "down" /\ host \in {"locked", "wiped"}
      /\ UNCHANGED <<tierA, took, erased, faults, wipes>>
  BY DEF CrashInDrain, Opens, Crash
<1>4. ok \subseteq Drops  BY SMT, DiskFacts DEF Readable, DropsOf, File
<1>5. /\ disk' \in DiskType /\ disk'.rows = disk.rows \cup ok /\ disk'.files = disk.files \ gone
      /\ disk'.key = disk.key
  BY <1>2, <1>4, OpenedFacts, DiskFacts DEF DiskType
<1>6. \A f \in disk.files \ disk'.files : f.drop \in drained'  BY <1>1, <1>5 DEF DropsOf
<1>7. crashes' \in Nat /\ crashes' # 0 /\ faults' \in Nat  BY SMT, <1>3, DiskFacts
<1> QED  BY <1>1, <1>2, <1>3, <1>5, <1>6, <1>7, Drains

\* What the lock boundary does to nothing but the temporary files, the copy and
\* the process.
LEMMA OthersKeep ==
  ASSUME VaultInv,
         \/ Lock \/ Exit
         \/ \E d \in Drops : CrashInEnqueue(d)
         \/ \E k \in Deks : UnlockRefused(k) \/ CrashInMigrate(k)
  PROVE  VaultInv'
<1>1. CASE Lock  BY <1>1, DiskFacts, QueueStays DEF Lock, VaultInv
<1>2. CASE Exit  BY <1>2, DiskFacts, QueueStays DEF Exit, VaultInv
<1>3. ASSUME NEW d \in Drops, CrashInEnqueue(d)  PROVE VaultInv'
  <2>1. /\ disk' = [disk EXCEPT !.temps = @ \cup {d}] /\ crashes' = crashes + 1 /\ host' = "down"
        /\ UNCHANGED <<tierA, took, drained, told, erased, faults, wipes>>
    BY <1>3 DEF CrashInEnqueue, Crash
  <2>2. /\ disk' \in DiskType /\ disk'.rows = disk.rows /\ disk'.files = disk.files
        /\ disk'.key = disk.key
    BY <2>1, DiskFacts DEF DiskType
  <2>3. crashes' \in Nat /\ crashes' # 0 /\ faults' \in Nat  BY SMT, <2>1, DiskFacts
  <2> QED  BY <2>1, <2>2, <2>3, QueueStays
<1>4. ASSUME NEW k \in Deks, UnlockRefused(k)  PROVE VaultInv'
  <2>1. /\ disk' = Opened(k) /\ host' = "locked" /\ host \in {"locked", "wiped"}
        /\ UNCHANGED <<tierA, took, drained, told, erased, crashes, faults, wipes>>
    BY <1>4 DEF UnlockRefused, Opens
  <2>2. /\ disk' \in DiskType /\ disk'.rows = disk.rows /\ disk'.files = disk.files
        /\ disk'.key = disk.key /\ (disk'.copy => disk.copy)
    BY <2>1, OpenedFacts
  <2> QED  BY <2>1, <2>2, DiskFacts, QueueStays DEF VaultInv
<1>5. ASSUME NEW k \in Deks, CrashInMigrate(k)  PROVE VaultInv'
  <2>1. /\ disk' = [disk EXCEPT !.copy = TRUE] /\ crashes' = crashes + 1 /\ host' = "down"
        /\ UNCHANGED <<tierA, took, drained, told, erased, faults, wipes>>
    BY <1>5 DEF CrashInMigrate, Crash
  <2>2. /\ disk' \in DiskType /\ disk'.rows = disk.rows /\ disk'.files = disk.files
        /\ disk'.key = disk.key
    BY <2>1, DiskFacts DEF DiskType
  <2>3. crashes' \in Nat /\ crashes' # 0 /\ faults' \in Nat  BY SMT, <2>1, DiskFacts
  <2> QED  BY <2>1, <2>2, <2>3, QueueStays
<1> QED  BY <1>1, <1>2, <1>3, <1>4, <1>5

\* The wipe leaves nothing that was there.
LEMMA PanicWipeKeeps ==
  ASSUME VaultInv, PanicWipe  PROVE VaultInv'
<1>1. /\ wipes' = wipes + 1 /\ erased' = erased \cup DropsOf(disk.files) \cup disk.rows
      /\ UNCHANGED <<tierA, took, drained, told>>
  BY DEF PanicWipe
<1>2. PICK left \in SUBSET Parts :
        /\ disk' = Wiped(left)
        /\ crashes' \in Nat /\ faults' \in Nat
        /\ crashes' = 0 => crashes = 0
        /\ faults' = 0 => faults = 0
        /\ host' = "wiped" => left = {}
  <2>1. CASE disk' = Wiped({}) /\ UNCHANGED <<crashes, faults>>
    <3>1. {} \in SUBSET Parts  OBVIOUS
    <3> QED  BY <2>1, <3>1, DiskFacts
  <2>2. CASE /\ \E left \in (SUBSET Parts) \ {{}} : disk' = Wiped(left)
             /\ host' = "locked" /\ Fault /\ UNCHANGED crashes
    BY SMT, <2>2, DiskFacts DEF Fault
  <2>3. CASE /\ \E left \in {{"keys", "queue"}, {"queue"}} : disk' = Wiped(left)
             /\ Crash /\ UNCHANGED faults
    <3>1. {"keys", "queue"} \in SUBSET Parts /\ {"queue"} \in SUBSET Parts  BY DEF Parts
    <3> QED  BY SMT, <2>3, <3>1, DiskFacts DEF Crash
  <2> QED  BY <2>1, <2>2, <2>3 DEF PanicWipe
<1>3. disk' \in DiskType /\ disk'.copy = disk.copy
  BY ZenonT(60), <1>2, DiskFacts DEF Wiped, DiskType
<1>4. wipes' \in Nat /\ wipes' # 0  BY SMT, <1>1, DiskFacts
<1>5. VaultTypeOK'  BY <1>1, <1>2, <1>3, <1>4 DEF VaultInv, VaultTypeOK
<1>6. KeyInOrder' /\ KeptUntilUnlock'  BY <1>4 DEF KeyInOrder, KeptUntilUnlock
<1>7. CalmLossIsLoud'  BY <1>1, <1>2 DEF VaultInv, CalmLossIsLoud, LossIsLoud
<1>8. WipeIsComplete'
  <2> SUFFICES ASSUME crashes' = 0, host' = "wiped"  PROVE disk' = Fresh("absent")
    BY DEF WipeIsComplete
  <2>1. disk' = Wiped({}) /\ ~disk.copy  BY <1>2 DEF VaultInv
  <2> QED  BY <2>1, DiskFacts DEF Wiped, Fresh, DiskType
<1>9. crashes' = 0 => ~disk'.copy  BY <1>2, <1>3 DEF VaultInv
<1> QED  BY <1>5, <1>6, <1>7, <1>8, <1>9 DEF VaultInv

\* The invariant of the vault holds in every behaviour.
LEMMA VaultInvariance == VaultSpec => []VaultInv
<1>1. VaultInit => VaultInv
  <2> SUFFICES ASSUME VaultInit  PROVE VaultInv  OBVIOUS
  <2>1. PICK s \in Stores : disk = Fresh(s)  BY DEF VaultInit
  <2>2. s \in Deks \cup {"absent", "plain"}  BY VaultAssumption
  <2>3. disk \in DiskType /\ ~disk.copy  BY <2>1, <2>2 DEF Fresh, DiskType
  <2> QED  BY <2>3 DEF VaultInit, VaultInv, VaultTypeOK, KeyInOrder, KeptUntilUnlock,
                       CalmLossIsLoud, LossIsLoud, WipeIsComplete
<1>2. VaultInv /\ [VaultNext]_vaultVars => VaultInv'
  <2> SUFFICES ASSUME VaultInv, [VaultNext]_vaultVars  PROVE VaultInv'  OBVIOUS
  <2>1. CASE Launch  BY <2>1, LaunchKeeps
  <2>2. CASE PanicWipe  BY <2>2, PanicWipeKeeps
  <2>3. ASSUME NEW d \in Drops, IngestLocked(d) \/ CrashInEnqueue(d) \/ Ingest(d)  PROVE VaultInv'
    BY <2>3, IngestLockedKeeps, OthersKeep, IngestKeeps
  <2>4. ASSUME NEW k \in Deks, Unlock(k) \/ UnlockRefused(k) \/ UnlockStops(k)
                               \/ CrashInMigrate(k) \/ CrashInDrain(k)
        PROVE  VaultInv'
    BY <2>4, UnlockKeeps, UnlockStopsKeeps, CrashInDrainKeeps, OthersKeep
  <2>5. CASE UNCHANGED vaultVars
    <3>1. UNCHANGED <<disk, host, tierA, took, drained, told, erased, crashes, faults, wipes>>
      BY <2>5 DEF vaultVars
    <3> QED  BY <3>1 DEF VaultInv, VaultTypeOK, KeyInOrder, KeptUntilUnlock, CalmLossIsLoud,
                         LossIsLoud, WipeIsComplete, DropsOf
  <2> QED  BY ZenonT(60), <2>1, <2>2, <2>3, <2>4, <2>5, OthersKeep DEF VaultNext
<1> QED  BY <1>1, <1>2, PTL DEF VaultSpec

\* KeptUntilUnlock, for any drops, caps, keys, crashes and failing operations.
THEOREM DropsKept == VaultSpec => []KeptUntilUnlock
<1>1. VaultInv => KeptUntilUnlock  BY DEF VaultInv
<1> QED  BY <1>1, VaultInvariance, PTL

\* CalmLossIsLoud, for any drops, caps and keys.
THEOREM CalmIsLoud == VaultSpec => []CalmLossIsLoud
<1>1. VaultInv => CalmLossIsLoud  BY DEF VaultInv
<1> QED  BY <1>1, VaultInvariance, PTL

\* WipeIsComplete, for any content of the data dir.
THEOREM WipeFreshens == VaultSpec => []WipeIsComplete
<1>1. VaultInv => WipeIsComplete  BY DEF VaultInv
<1> QED  BY <1>1, VaultInvariance, PTL

=============================================================================
