------------------------------ MODULE Inbound ------------------------------
(***************************************************************************)
(* The inbound path of one hosted service: records and frames as they are  *)
(* built and read, the connections of a listener with their budgets, the   *)
(* ring of frames seen, and the arrival event.                             *)
(*   src/crates/core/src/transport/{inbound,seen,framing,services}.rs,     *)
(*   wire/frame.rs                                                         *)
(* A record is its bytes up to what the code looks at: version, length     *)
(* prefix, size, and a name for the rest.  The flood bucket is the one of  *)
(* RateLimit; here it refuses a bounded number of frames, at any time.     *)
(* MAX_CONN_BYTES is out of reach: MAX_CONN_PACKETS of the largest record  *)
(* with the largest intro stay below it, so the packets alone are counted. *)
(***************************************************************************)
EXTENDS Integers, FiniteSets, Sequences, Functions

CONSTANTS
  Payloads,         \* payloads, each named by its length
  Conns,            \* 1..n
  MaxConnections,   \* inbound::MAX_CONNECTIONS
  MaxConnPackets,   \* limits::MAX_CONN_PACKETS
  RingCapacity,     \* seen::DEFAULT_CAPACITY
  MaxReads,         \* frames read in all
  MaxFloods         \* frames the flood bucket refuses

ASSUME InboundAssumption ==
  /\ Payloads \subseteq Nat /\ Conns \subseteq Nat /\ IsFiniteSet(Conns)
  /\ RingCapacity \in Nat \ {0} /\ MaxConnPackets \in Nat

VARIABLES
  conn,     \* every connection: what its task does
  ring,     \* SeenRing::order
  sink,     \* the channel to the pump
  drops,    \* how many frames the pump broadcast
  marks,    \* every frame the ring was asked about, in order
  arrivals, \* the arrival events, by frame
  lost,     \* built frames the reader called malformed
  reads, floods

inbound == <<conn, ring, sink, drops, marks, arrivals, lost, reads, floods>>

-----------------------------------------------------------------------------
(* Records and frames *)

Version == 2
Buckets == <<256, 512, 1024, 4096, 16384, 32768>>
Header == 3
MaxIntro == 8192

IsBucket(n) == n \in Range(Buckets)

\* bucket_for: the smallest bucket that fits header and payload, 0 for none.
BucketFor(n) ==
  LET fits == {b \in Range(Buckets) : Header + n <= b}
  IN IF fits = {} THEN 0 ELSE CHOOSE b \in fits : \A c \in fits : b <= c

BuildRecord(p) ==
  [version |-> Version, len |-> p % 65536, size |-> BucketFor(p), of |-> p]

\* parse_record: how many bytes of payload, -1 for an error.
ParseRecord(r) ==
  IF r.version # Version \/ ~IsBucket(r.size) \/ Header + r.len > r.size THEN -1 ELSE r.len

\* pack and read_frame: the flag byte, the intro's length and the record's.
Flag(intro, alert) ==
  IF intro = 0 THEN (IF alert THEN 6 ELSE 5) ELSE (IF alert THEN 253 ELSE 252)

Packable(intro, r) == IsBucket(r.size) /\ r.version = Version /\ intro <= MaxIntro

Pack(intro, r, alert) ==
  [flag |-> Flag(intro, alert), intro |-> intro, len |-> r.size % 65536, record |-> r]

\* What read_frame makes of it: "bad" ends the connection.
ReadFrame(f) ==
  IF \/ f.flag \notin {5, 6, 252, 253}
     \/ f.flag \in {252, 253} /\ f.intro \notin 1..MaxIntro
     \/ ~IsBucket(f.len) \/ f.record.version # Version
    THEN [ok |-> FALSE]
    ELSE [ok |-> TRUE, alert |-> f.flag \in {6, 253}, record |-> f.record]

-----------------------------------------------------------------------------
(* The ring of frames seen *)

\* As it would be if only the newest frame were compared.
Seen_NewestOnly(f) == ring # <<>> /\ ring[Len(ring)] = f

Seen(f) == f \in Range(ring)

\* seen_or_mark: a frame seen again becomes the newest (`set` holds it, so it has
\* one place in `order`); a new one makes the oldest leave.
SeenOrMark(f) ==
  IF Seen(f)
    THEN LET i == CHOOSE i \in DOMAIN ring : ring[i] = f
         IN SubSeq(ring, 1, i - 1) \o SubSeq(ring, i + 1, Len(ring)) \o <<f>>
    ELSE LET marked == Append(ring, f)
         IN IF Len(marked) > RingCapacity THEN Tail(marked) ELSE marked

-----------------------------------------------------------------------------
(* Connections *)

Shut == [st |-> "closed", packets |-> 0, got |-> <<>>]

InboundInit ==
  /\ conn = [c \in Conns |-> Shut]
  /\ ring = <<>> /\ sink = <<>> /\ drops = 0 /\ marks = <<>>
  /\ arrivals = [p \in Payloads |-> 0] /\ lost = {} /\ reads = 0 /\ floods = 0

Open == {c \in Conns : conn[c].st # "closed"}

\* accept: without a permit the stream is dropped at once.
Accept(c) ==
  /\ conn[c].st = "closed" /\ \A b \in 1..(c - 1) : conn[b].st # "closed"
  /\ Cardinality(Open) < MaxConnections
  /\ conn' = [conn EXCEPT ![c].st = "read"]
  /\ UNCHANGED <<ring, sink, drops, marks, arrivals, lost, reads, floods>>

\* The peer ends the stream, a read times out, or what comes is no frame.
Close(c) ==
  /\ conn[c].st = "read" /\ conn' = [conn EXCEPT ![c] = Shut]
  /\ UNCHANGED <<ring, sink, drops, marks, arrivals, lost, reads, floods>>

\* A record built and packed by a peer is read: decode, budget, flood gate.
Read(c, p, intro, alert) ==
  LET r == BuildRecord(p)
      f == ReadFrame(Pack(intro, r, alert))
  IN
  /\ conn[c].st = "read" /\ reads < MaxReads /\ reads' = reads + 1
  /\ r.size # 0 /\ Packable(intro, r)
  /\ IF ~f.ok \/ ParseRecord(f.record) # p \/ f.alert # alert
       THEN conn' = [conn EXCEPT ![c] = Shut] /\ lost' = lost \cup {p} /\ UNCHANGED floods
       ELSE /\ UNCHANGED lost
            /\ \/ /\ conn[c].packets + 1 > MaxConnPackets
                  /\ conn' = [conn EXCEPT ![c] = Shut] /\ UNCHANGED floods
               \/ /\ conn[c].packets + 1 <= MaxConnPackets
                  /\ floods < MaxFloods /\ floods' = floods + 1
                  /\ conn' = [conn EXCEPT ![c].packets = @ + 1]
               \/ /\ conn[c].packets + 1 <= MaxConnPackets
                  /\ conn' = [conn EXCEPT ![c].packets = @ + 1, ![c].st = "mark",
                                          ![c].got = <<[frame |-> p, alert |-> alert,
                                                        first |-> FALSE]>>]
                  /\ UNCHANGED floods
  /\ UNCHANGED <<ring, sink, drops, marks, arrivals>>

\* Under the ring's lock.
Mark(c) ==
  LET f == conn[c].got[1].frame IN
  /\ conn[c].st = "mark"
  /\ conn' = [conn EXCEPT ![c].st = "push", ![c].got[1].first = ~Seen(f)]
  /\ ring' = SeenOrMark(f) /\ marks' = Append(marks, f)
  /\ UNCHANGED <<sink, drops, arrivals, lost, reads, floods>>

Push(c) ==
  /\ conn[c].st = "push"
  /\ sink' = Append(sink, conn[c].got[1])
  /\ conn' = [conn EXCEPT ![c].st = "read", ![c].got = <<>>]
  /\ UNCHANGED <<ring, drops, marks, arrivals, lost, reads, floods>>

\* The pump of host_service_with_auth: broadcast, and an arrival for the
\* first sight of an alerting frame.
Pump ==
  /\ sink # <<>> /\ sink' = Tail(sink)
  /\ drops' = drops + 1
  /\ arrivals' = IF Head(sink).alert /\ Head(sink).first
                   THEN [arrivals EXCEPT ![Head(sink).frame] = @ + 1] ELSE arrivals
  /\ UNCHANGED <<conn, ring, marks, lost, reads, floods>>

InboundNext ==
  \/ Pump
  \/ \E c \in Conns :
       \/ Accept(c) \/ Close(c) \/ Mark(c) \/ Push(c)
       \/ \E p \in Payloads, intro \in {0, MaxIntro}, alert \in BOOLEAN :
            Read(c, p, intro, alert)

InboundSpec == InboundInit /\ [][InboundNext]_inbound

-----------------------------------------------------------------------------
(* Properties *)

Held == {c \in Conns : conn[c].st = "push"}

(* What build_record and pack produce, read_frame and parse_record give    *)
(* back, at every boundary of the buckets.  A frame announces itself at    *)
(* most once while it is in the ring's reach: the same frame on two        *)
(* connections at the same moment gives one arrival.  And none that passed *)
(* the flood gate is lost or doubled on its way to the core: what the ring *)
(* was asked about is broadcast, is in the channel or is in the hands of a *)
(* connection's task.                                                      *)
ArrivesOnce ==
  /\ lost = {}
  /\ Cardinality(Range(marks)) <= RingCapacity => \A p \in Payloads : arrivals[p] <= 1
  /\ Len(marks) = drops + Len(sink) + Cardinality(Held)

=============================================================================
