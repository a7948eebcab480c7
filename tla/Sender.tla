------------------------------ MODULE Sender ------------------------------
(***************************************************************************)
(* The pooled SOCKS sender: one worker per destination, the callers that   *)
(* queue a write and wait for its answer, eviction, and the exit of a      *)
(* worker.                                                                 *)
(*   src/crates/core/src/transport/socks/{sender,mod,handshake}.rs,        *)
(*   sending.rs                                                            *)
(* A step ends where the code awaits.  A write is the name of its call.    *)
(***************************************************************************)
EXTENDS Naturals, FiniteSets, Sequences, Functions

CONSTANTS
  Dests,
  Calls,             \* 1..n: the calls of send(), in the order they begin
  Workers,           \* 1..n: the workers there is room to spawn
  MaxLiveSessions,   \* socks::MAX_LIVE_SESSIONS
  MaxConnectFails,   \* socks::MAX_CONNECT_FAILS
  MaxWriteRetries,   \* socks::MAX_WRITE_RETRIES
  QueueRoom,         \* 256 in the code: the channel of a worker
  MaxFlips           \* changes of the kill switch and of online

ASSUME SenderAssumption ==
  /\ IsFiniteSet(Dests) /\ Dests # {}
  /\ Workers \subseteq Nat \ {0}
  /\ MaxLiveSessions \in Nat \ {0}

VARIABLES
  kill, online,
  dests,    \* the worker in the map under each destination, 0 for none
  work,     \* every worker's state
  call,     \* every call's state and the worker whose queue it holds
  written,  \* writes that went out whole
  late,     \* batches a worker wrote since the kill switch went on
  flips

sender == <<kill, online, dests, work, call, written, late, flips>>

Parked == [st |-> "none", dest |-> CHOOSE d \in Dests : TRUE, q |-> <<>>, batch |-> <<>>,
           up |-> FALSE, fails |-> 0, retries |-> 0]

SenderInit ==
  /\ kill = FALSE /\ online = TRUE
  /\ dests = [d \in Dests |-> 0]
  /\ work = [k \in Workers |-> Parked]
  /\ call = [m \in Calls |-> [st |-> "new", to |-> 0]]
  /\ written = {} /\ late = [k \in Workers |-> 0] /\ flips = 0

Entries == {d \in Dests : dests[d] # 0}
Settled(m) == call[m].st \in {"ok", "err"}
Begins(m) == call[m].st = "new" /\ \A n \in 1..(m - 1) : call[n].st # "new"

\* The answers of ms are sent; a caller that has its answer lets the queue go.
Settle(ms, how) == [m \in Calls |-> IF m \in ms THEN [st |-> how, to |-> 0] ELSE call[m]]

-----------------------------------------------------------------------------
(* The caller *)

Refused(m) ==
  /\ Begins(m) /\ (kill \/ ~online)
  /\ call' = Settle({m}, "err")
  /\ UNCHANGED <<kill, online, dests, work, written, late, flips>>

\* evict_if_full: any entry leaves the map, its worker lives on.
EvictIfFull(room) ==
  IF Cardinality(Entries) >= MaxLiveSessions
    THEN \E e \in Entries : room = Entries \ {e}
    ELSE room = Entries

\* send(): the worker of the destination, or a new one.
Send(m, d) ==
  /\ Begins(m) /\ ~kill /\ online
  /\ \/ /\ dests[d] # 0
        /\ call' = [call EXCEPT ![m] = [st |-> "holds", to |-> dests[d]]]
        /\ UNCHANGED <<dests, work>>
     \/ /\ dests[d] = 0
        /\ \E k \in Workers, room \in SUBSET Entries :
             /\ work[k].st = "none" /\ \A j \in 1..(k - 1) : work[j].st # "none"
             /\ EvictIfFull(room)
             /\ dests' = [e \in Dests |-> IF e = d THEN k
                                          ELSE IF e \in room THEN dests[e] ELSE 0]
             /\ work' = [work EXCEPT ![k] = [Parked EXCEPT !.st = "idle", !.dest = d]]
             /\ call' = [call EXCEPT ![m] = [st |-> "holds", to |-> k]]
  /\ UNCHANGED <<kill, online, written, late, flips>>

\* tx.send: it waits for room, and fails once the receiver is gone.
Enqueue(m) ==
  LET k == call[m].to IN
  /\ call[m].st = "holds"
  /\ \/ /\ work[k].st = "gone" /\ call' = Settle({m}, "err") /\ UNCHANGED work
     \/ /\ work[k].st # "gone" /\ Len(work[k].q) < QueueRoom
        /\ call' = [call EXCEPT ![m].st = "queued"]
        /\ work' = [work EXCEPT ![k].q = Append(@, m)]
  /\ UNCHANGED <<kill, online, dests, written, late, flips>>

-----------------------------------------------------------------------------
(* The worker *)

Quiet == UNCHANGED <<kill, online, dests, flips>>

\* The channel is closed when neither the map nor a waiting call holds it.
Closed(k) ==
  /\ dests[work[k].dest] # k
  /\ \A m \in Calls : call[m].to # k

\* rx.recv() of an idle, holding or parked worker.
Receive(k) ==
  /\ Quiet /\ work[k].st \in {"idle", "hold", "park"}
  /\ \/ /\ work[k].q # <<>>
        /\ work' = [work EXCEPT ![k].st = "gate", ![k].batch = <<Head(work[k].q)>>,
                                ![k].q = Tail(@)]
     \/ /\ work[k].q = <<>> /\ Closed(k)
        /\ work' = [work EXCEPT ![k].st = "exiting"]
  /\ UNCHANGED <<call, written, late>>

\* The hold runs out or the read side ends: the stream is dropped.
Release(k) ==
  /\ Quiet /\ work[k].st = "hold"
  /\ work' = [work EXCEPT ![k].st = "park", ![k].up = FALSE]
  /\ UNCHANGED <<call, written, late>>

\* As it would be if the drained writes were not answered.
FailAll_FirstOnly(k) ==
  /\ call' = Settle(Range(work[k].batch), "err")
  /\ work' = [work EXCEPT ![k].st = "exiting", ![k].q = <<>>, ![k].batch = <<>>]

\* fail_all over drain(): the pending write and everything queued.
FailAll(k) ==
  /\ call' = Settle(Range(work[k].batch) \cup Range(work[k].q), "err")
  /\ work' = [work EXCEPT ![k].st = "exiting", ![k].q = <<>>, ![k].batch = <<>>]

\* As it would be if the gate were only at the start of a worker.
Gate_Open(k) ==
  /\ Quiet /\ work[k].st = "gate"
  /\ work' = [work EXCEPT ![k].st = "connect"]
  /\ UNCHANGED <<call, written, late>>

\* The gate is passed once per batch.
Gate(k) ==
  /\ Quiet /\ work[k].st = "gate"
  /\ IF kill \/ ~online
       THEN FailAll(k)
       ELSE work' = [work EXCEPT ![k].st = "connect"] /\ UNCHANGED call
  /\ UNCHANGED <<written, late>>

\* What a proxy may answer: the method, the authentication, the reply and the
\* type of the address it bound.
ProxyAnswers == [method : {2, 255}, auth : {0, 1}, reply : {0, 4}, atyp : {1, 3, 4, 9}]

\* socks_handshake: every answer has to be the expected one.
SocksConnect(a) == a.method = 2 /\ a.auth = 0 /\ a.reply = 0 /\ a.atyp \in {1, 3, 4}
Handshakes == {SocksConnect(a) : a \in ProxyAnswers}

\* socks_connect with backoff, then whatever is queued joins the batch.
Connect(k) ==
  /\ Quiet /\ work[k].st = "connect"
  /\ \/ \E n \in 0..Len(work[k].q) :
          /\ work[k].up \/ TRUE \in Handshakes
          /\ work' = [work EXCEPT ![k].st = "write", ![k].up = TRUE, ![k].fails = 0,
                                  ![k].retries = 0,
                                  ![k].batch = @ \o SubSeq(work[k].q, 1, n),
                                  ![k].q = SubSeq(@, n + 1, Len(@))]
          /\ UNCHANGED call
     \/ /\ ~work[k].up /\ FALSE \in Handshakes
        /\ IF work[k].fails + 1 >= MaxConnectFails
             THEN FailAll(k)
             ELSE work' = [work EXCEPT ![k].fails = @ + 1] /\ UNCHANGED call
  /\ UNCHANGED <<written, late>>

Write_Done(k) ==
  /\ Quiet /\ work[k].st = "write"
  /\ written' = written \cup Range(work[k].batch)
  /\ call' = Settle(Range(work[k].batch), "ok")
  /\ work' = [work EXCEPT ![k].st = "hold", ![k].batch = <<>>]
  /\ late' = [late EXCEPT ![k] = IF kill THEN @ + 1 ELSE 0]

\* A broken write is retried whole on a new stream; when it is given up only
\* the batch is answered, the queue goes with the receiver.
Write_Failed(k) ==
  /\ Quiet /\ work[k].st = "write"
  /\ \/ /\ work[k].retries + 1 < MaxWriteRetries
        /\ work' = [work EXCEPT ![k].retries = @ + 1]
        /\ UNCHANGED call
     \/ /\ call' = Settle(Range(work[k].batch), "err")
        /\ work' = [work EXCEPT ![k].st = "exiting", ![k].batch = <<>>]
  /\ UNCHANGED <<written, late>>

\* The entry under the destination's name goes, whoever's it is by now.
Leave(k) ==
  /\ work[k].st = "exiting"
  /\ dests' = [dests EXCEPT ![work[k].dest] = 0]
  /\ work' = [work EXCEPT ![k].st = "leaving"]
  /\ UNCHANGED <<kill, online, call, written, late, flips>>

\* The receiver is dropped, and with it the answers of what is still queued.
Gone(k) ==
  /\ Quiet /\ work[k].st = "leaving"
  /\ work' = [work EXCEPT ![k] = [Parked EXCEPT !.st = "gone"]]
  /\ call' = Settle(Range(work[k].q), "err")
  /\ UNCHANGED <<written, late>>

Worker(k) ==
  \/ Receive(k) \/ Release(k) \/ Gate(k) \/ Connect(k)
  \/ Write_Done(k) \/ Write_Failed(k) \/ Leave(k) \/ Gone(k)

-----------------------------------------------------------------------------
Flip ==
  /\ flips < MaxFlips /\ flips' = flips + 1
  /\ \/ kill' = ~kill /\ UNCHANGED online
     \/ online' = ~online /\ UNCHANGED kill
  /\ late' = IF kill # kill' THEN [k \in Workers |-> 0] ELSE late
  /\ UNCHANGED <<dests, work, call, written>>

SenderNext ==
  \/ \E m \in Calls : Refused(m) \/ Enqueue(m) \/ \E d \in Dests : Send(m, d)
  \/ \E k \in Workers : Worker(k)
  \/ Flip

SenderSpec == SenderInit /\ [][SenderNext]_sender

-----------------------------------------------------------------------------
(* Properties *)

(* Engaging the kill switch stops a worker after the one batch that had    *)
(* passed the gate, whatever waits in its queue.                           *)
KillStopsAfterOneBatch == \A k \in Workers : late[k] <= 1

(* No caller hangs or is told a lie.  A write that reached a queue and has *)
(* no answer yet is in the hands of a worker that will still answer or     *)
(* drop it, also when it came to one that had just drained its queue to    *)
(* exit, or to one that was evicted.  Ok is the answer of a write whose    *)
(* bytes went out whole.  And whoever finds a worker in the map finds one  *)
(* that still receives, although an evicted worker removes by name.        *)
NoCallerForgotten ==
  /\ \A m \in Calls :
       /\ call[m].st = "queued" =>
            LET k == call[m].to
            IN  work[k].st # "gone" /\ m \in Range(work[k].q \o work[k].batch)
       /\ call[m].st = "ok" => m \in written
  /\ \A d \in Entries : work[dests[d]].st \notin {"none", "leaving", "gone"}
  /\ Cardinality(Entries) <= MaxLiveSessions

=============================================================================
