---------------------------- MODULE Policy_proofs ----------------------------
(***************************************************************************)
(* Proofs about the chat rules and the capability wants, for any TTLs,     *)
(* capabilities, number of proposals, switches and crashes, and about the  *)
(* token bucket, for every set of keys, capacity, refill rate and clock.   *)
(*                                                                         *)
(* A rule in force is traced back to its proposal: Traced says so of what  *)
(* is pending, of the envelopes on their way and of the rule itself.       *)
(*                                                                         *)
(* A capability that is switched off stays blocked (Blocked): whatever     *)
(* could bring it back on its way to the peer is followed there by the     *)
(* CAP_SET off.                                                            *)
(***************************************************************************)
EXTENDS RateLimit, PolicyRules, PolicyWants, TLAPS

-----------------------------------------------------------------------------
(* The token bucket *)

\* The bucket invariant of one key, in or out of the window (the body of Inv).
Balanced(b, w, t, f) ==
  IF b.made
    THEN /\ t + b.tokens >= Capacity
         /\ IF b.last < f
              THEN w = 0
              ELSE w + b.tokens <= Capacity + Refill * (b.last - f)
    ELSE w = 0 /\ t = 0

Bucket == [made : BOOLEAN, tokens : 0 .. Capacity, last : Times]

\* The refill rate times the length of two spans that meet (the arithmetic of
\* two refills in a row).
LEMMA SpansAdd ==
  ASSUME NEW a \in Int, NEW b \in Int, NEW c \in Int
  PROVE  /\ Refill * (c - a) = Refill * (b - a) + Refill * (c - b)
         /\ a <= b => Refill * (b - a) \in Nat
BY RateAssumption, SMTT(30)

\* TokenBucket::check first refills: the bucket stays a bucket, its clock does
\* not run backwards, it loses no token and gains at most the refill.
LEMMA RefillFacts ==
  ASSUME NEW b \in Bucket, b.made, NEW moment \in Times
  PROVE  /\ Refilled(b, moment) \in Bucket
         /\ Refilled(b, moment).made
         /\ Refilled(b, moment).last = IF moment > b.last THEN moment ELSE b.last
         /\ Refilled(b, moment).tokens >= b.tokens
         /\ Refilled(b, moment).tokens
              <= b.tokens + Refill * (Refilled(b, moment).last - b.last)
<1>1. CASE moment > b.last
  <2>1. Refill * (moment - b.last) \in Nat
    <3>1. moment \in Int /\ b.last \in Int /\ b.last <= moment
      BY <1>1, RateAssumption DEF Bucket, Times
    <3> QED
      BY Zenon, <3>1, SpansAdd
  <2> DEFINE t == Smaller(Capacity, b.tokens + Refill * (moment - b.last))
  <2>2. /\ t \in 0 .. Capacity
        /\ t >= b.tokens
        /\ t <= b.tokens + Refill * (moment - b.last)
    <3> DEFINE r == Refill * (moment - b.last)
    <3>1. r \in Nat
      BY <2>1
    <3> HIDE DEF r
    <3>2. /\ Smaller(Capacity, b.tokens + r) \in 0 .. Capacity
          /\ Smaller(Capacity, b.tokens + r) >= b.tokens
          /\ Smaller(Capacity, b.tokens + r) <= b.tokens + r
      BY <3>1, RateAssumption DEF Smaller, Bucket
    <3> QED
      BY <3>2 DEF r
  <2> HIDE DEF t
  <2>3. Refilled(b, moment) = [b EXCEPT !.tokens = t, !.last = moment]
    BY <1>1 DEF Refilled, t
  <2>4. /\ Refilled(b, moment) \in Bucket
        /\ Refilled(b, moment).made
        /\ Refilled(b, moment).last = moment
        /\ Refilled(b, moment).tokens = t
    BY Zenon, <2>2, <2>3 DEF Bucket
  <2> QED
    BY <1>1, <2>2, <2>4
<1>2. CASE ~(moment > b.last)
  <2>1. Refilled(b, moment) = b
    BY <1>2 DEF Refilled
  <2>2. Refill * (b.last - b.last) = 0
    BY RateAssumption DEF Bucket, Times
  <2> QED
    BY <1>2, <2>1, <2>2, RateAssumption DEF Bucket
<1> QED
  BY <1>1, <1>2

\* A refill keeps the balance of a key, granted nothing yet.  In the window the
\* refill pays for the new tokens; a window that opened since the last refill
\* starts with at most one burst.
LEMMA RefillBalanced ==
  ASSUME NEW b \in Bucket, b.made, NEW moment \in Times, NEW w \in Nat, NEW t \in Nat,
         NEW f \in Times, Balanced(b, w, t, f)
  PROVE  Balanced(Refilled(b, moment), w, t, f)
<1> DEFINE r == Refilled(b, moment)
<1>1. /\ r \in Bucket
      /\ r.made
      /\ r.last = IF moment > b.last THEN moment ELSE b.last
      /\ r.tokens >= b.tokens
      /\ r.tokens <= b.tokens + Refill * (r.last - b.last)
  BY RefillFacts
<1> SUFFICES Balanced(r, w, t, f)
  OBVIOUS
<1> HIDE DEF r
<1>0. b.last \in Int /\ r.last \in Int /\ f \in Int
  BY <1>1, RateAssumption DEF Bucket, Times
<1>2. t + r.tokens >= Capacity
  BY <1>1, RateAssumption DEF Balanced, Bucket
<1>3. CASE b.last < f
  <2>1. w = 0
    BY <1>3 DEF Balanced
  <2>2. r.last >= f => Refill * (r.last - f) \in Nat
    BY Zenon, <1>0, SpansAdd
  <2>3. CASE r.last < f
    BY <1>1, <1>2, <2>1, <2>3 DEF Balanced
  <2>4. CASE ~(r.last < f)
    <3> DEFINE x == Refill * (r.last - f)
    <3>1. x \in Nat
      BY <1>0, <2>2, <2>4
    <3> HIDE DEF x
    <3>2. w + r.tokens <= Capacity + x
      BY <1>1, <2>1, <3>1, RateAssumption DEF Bucket
    <3> QED
      BY <1>1, <1>2, <2>4, <3>2 DEF Balanced, x
  <2> QED
    BY <2>3, <2>4
<1>4. CASE ~(b.last < f)
  <2>1. w + b.tokens <= Capacity + Refill * (b.last - f)
    BY <1>4 DEF Balanced
  <2>2. Refill * (r.last - f) = Refill * (b.last - f) + Refill * (r.last - b.last)
    BY Zenon, <1>0, SpansAdd
  <2> DEFINE x == Refill * (b.last - f)
             y == Refill * (r.last - b.last)
             z == Refill * (r.last - f)
  <2>3. x \in Int /\ y \in Int /\ z \in Int
    BY <1>0, RateAssumption
  <2>4. /\ z = x + y
        /\ w + b.tokens <= Capacity + x
        /\ r.tokens <= b.tokens + y
    BY <1>1, <2>1, <2>2
  <2> HIDE DEF x, y, z
  <2>5. w + r.tokens <= Capacity + z
    BY <1>1, <2>3, <2>4, RateAssumption DEF Bucket
  <2>6. ~(r.last < f)
    BY <1>0, <1>1, <1>4, RateAssumption DEF Times
  <2> QED
    BY <1>1, <1>2, <2>5, <2>6 DEF Balanced, z
<1> QED
  BY <1>3, <1>4

\* Inv, key by key.
LEMMA InvByKey ==
  Inv <=> /\ TypeOK
          /\ \A k \in Keys : Balanced(buckets[k], window[k], total[k], from)
          /\ LimitedHadABurst
BY DEF Inv, Balanced

\* The bucket RateTables::check finds or makes is refilled and balanced.
LEMMA FoundBalanced ==
  ASSUME Inv, NEW k \in Keys, NEW moment \in Times
  PROVE  /\ Found(k, moment) \in Bucket
         /\ Found(k, moment).made
         /\ moment <= Found(k, moment).last
         /\ Balanced(Found(k, moment), window[k], total[k], from)
<1>1. /\ buckets[k] \in Bucket /\ window[k] \in Nat /\ total[k] \in Nat /\ from \in Times
      /\ Balanced(buckets[k], window[k], total[k], from)
  BY InvByKey DEF TypeOK, Bucket
<1> DEFINE b == IF buckets[k].made THEN buckets[k] ELSE NewBucket(moment)
<1>2. b \in Bucket /\ b.made /\ Balanced(b, window[k], total[k], from)
  <2>1. CASE buckets[k].made
    BY <1>1, <2>1
  <2>2. CASE ~buckets[k].made
    <3>1. b = [made |-> TRUE, tokens |-> Capacity, last |-> moment]
      BY <2>2 DEF NewBucket
    <3>2. window[k] = 0 /\ total[k] = 0
      BY <1>1, <2>2 DEF Balanced
    <3>3. ~(moment < from) => Refill * (moment - from) \in Nat
      <4>1. moment \in Int /\ from \in Int /\ (~(moment < from) => from <= moment)
        BY <1>1, RateAssumption DEF Times
      <4>2. from <= moment => Refill * (moment - from) \in Nat
        BY Zenon, <4>1, SpansAdd
      <4> QED
        BY <4>1, <4>2
    <3> DEFINE x == Refill * (moment - from)
    <3>4. ~(moment < from) => window[k] + Capacity <= Capacity + x
      <4>1. ~(moment < from) => x \in Nat
        BY <3>3
      <4> HIDE DEF x
      <4> QED
        BY <3>2, <4>1, RateAssumption
    <3>5. b \in Bucket /\ b.made /\ b.tokens = Capacity /\ b.last = moment
      <4> HIDE DEF b
      <4> QED
        BY <3>1, RateAssumption DEF Bucket
    <3>6. /\ total[k] + b.tokens >= Capacity
          /\ b.last < from => window[k] = 0
          /\ ~(b.last < from) => window[k] + b.tokens <= Capacity + Refill * (b.last - from)
      <4>1. total[k] + b.tokens >= Capacity
        BY <3>2, <3>5, RateAssumption
      <4> HIDE DEF b
      <4> QED
        BY <3>2, <3>4, <3>5, <4>1
    <3> HIDE DEF b
    <3> QED
      BY <3>5, <3>6 DEF Balanced
  <2> QED
    BY <2>1, <2>2
<1> HIDE DEF b
<1>3. Found(k, moment) = Refilled(b, moment)
  BY DEF Found, b
<1>4. moment <= Refilled(b, moment).last
  <2>1. Refilled(b, moment).last = IF moment > b.last THEN moment ELSE b.last
    BY <1>2, RefillFacts
  <2> QED
    BY <1>2, <2>1, RateAssumption DEF Bucket, Times
<1> QED
  BY <1>1, <1>2, <1>3, <1>4, RefillFacts, RefillBalanced

\* Taking a token moves it from the bucket to what was granted.
LEMMA GrantBalanced ==
  ASSUME NEW b \in Bucket, b.made, b.tokens > 0, NEW w \in Nat, NEW t \in Nat,
         NEW f \in Times, NEW moment \in Times, moment <= b.last, Balanced(b, w, t, f)
  PROVE  LET c == [b EXCEPT !.tokens = @ - 1]
         IN  /\ c \in Bucket
             /\ Balanced(c, IF moment >= f THEN w + 1 ELSE w, t + 1, f)
<1> DEFINE c == [b EXCEPT !.tokens = @ - 1]
           v == IF moment >= f THEN w + 1 ELSE w
<1>1. c \in Bucket /\ c.made /\ c.last = b.last /\ c.tokens = b.tokens - 1
  BY RateAssumption DEF Bucket
<1>2. t + 1 + c.tokens >= Capacity
  BY <1>1, RateAssumption DEF Balanced, Bucket
<1>3. CASE b.last < f
  <2>1. v = w /\ w = 0
    BY <1>3, RateAssumption DEF Balanced, Bucket, Times
  <2> QED
    BY <1>1, <1>2, <1>3, <2>1 DEF Balanced
<1>4. CASE ~(b.last < f)
  <2> DEFINE x == Refill * (b.last - f)
  <2>1. x \in Int /\ w + b.tokens <= Capacity + x
    BY <1>4, RateAssumption DEF Balanced, Bucket, Times
  <2> HIDE DEF x
  <2>2. v + c.tokens <= Capacity + x
    BY <1>1, <2>1, RateAssumption DEF Bucket
  <2> QED
    BY <1>1, <1>2, <1>4, <2>2 DEF Balanced, x
<1> QED
  BY <1>1, <1>3, <1>4

\* Every bucket table keeps Inv: RateTables starts empty, a granted check takes
\* one token, a refused one only refills.
THEOREM BucketInvariance == Spec => []Inv
<1>1. Init => Inv
  <2>1. ASSUME Init PROVE TypeOK
    <3>1. NoBucket \in Bucket
      BY RateAssumption DEF NoBucket, Bucket, Times
    <3> QED
      BY <2>1, <3>1 DEF Init, TypeOK, Bucket
  <2>2. ASSUME Init, NEW k \in Keys
        PROVE  Balanced(buckets[k], window[k], total[k], from)
    BY <2>2 DEF Init, NoBucket, Balanced
  <2>3. Init => LimitedHadABurst
    BY Zenon DEF Init, LimitedHadABurst
  <2> QED
    BY <2>1, <2>2, <2>3, InvByKey
<1>2. Inv /\ [Next]_vars => Inv'
  <2> SUFFICES ASSUME Inv, [Next]_vars PROVE Inv'
    OBVIOUS
  <2>0. /\ TypeOK
        /\ \A k \in Keys : Balanced(buckets[k], window[k], total[k], from)
        /\ LimitedHadABurst
    BY InvByKey
  <2> SUFFICES /\ TypeOK'
               /\ \A k \in Keys : Balanced(buckets'[k], window'[k], total'[k], from')
               /\ LimitedHadABurst'
    BY DEF Inv, Balanced
  <2>1. ASSUME NEW k \in Keys, NEW moment \in Times, Grant(k, moment)
        PROVE  /\ TypeOK'
               /\ \A j \in Keys : Balanced(buckets'[j], window'[j], total'[j], from')
               /\ LimitedHadABurst'
    <3> DEFINE c == [Found(k, moment) EXCEPT !.tokens = @ - 1]
               v == IF moment >= from THEN window[k] + 1 ELSE window[k]
    <3>1. c \in Bucket /\ Balanced(c, v, total[k] + 1, from)
      <4>1. window[k] \in Nat /\ total[k] \in Nat /\ from \in Times
        BY <2>0 DEF TypeOK
      <4>2. Found(k, moment).tokens > 0
        BY <2>1 DEF Grant
      <4> QED
        BY <4>1, <4>2, FoundBalanced, GrantBalanced
    <3> HIDE DEF c
    <3>2. v \in Nat
      BY <2>0 DEF TypeOK
    <3>3. /\ buckets' = [buckets EXCEPT ![k] = c]
          /\ window' = [window EXCEPT ![k] = v]
          /\ total' = [total EXCEPT ![k] = @ + 1]
          /\ limited' = limited /\ from' = from
      BY <2>1 DEF Grant, c
    <3> HIDE DEF v
    <3>4. TypeOK'
      BY <2>0, <3>1, <3>2, <3>3 DEF TypeOK, Bucket
    <3>5. ASSUME NEW j \in Keys PROVE Balanced(buckets'[j], window'[j], total'[j], from')
      <4>1. CASE j = k
        BY <2>0, <3>1, <3>3, <4>1 DEF TypeOK
      <4>2. CASE j # k
        BY <2>0, <3>3, <4>2 DEF TypeOK
      <4> QED
        BY <4>1, <4>2
    <3>6. LimitedHadABurst'
      BY <2>0, <3>3, RateAssumption DEF TypeOK, LimitedHadABurst
    <3> QED
      BY <3>4, <3>5, <3>6
  <2>2. ASSUME NEW k \in Keys, NEW moment \in Times, Refuse(k, moment)
        PROVE  /\ TypeOK'
               /\ \A j \in Keys : Balanced(buckets'[j], window'[j], total'[j], from')
               /\ LimitedHadABurst'
    <3> DEFINE c == Found(k, moment)
    <3>1. c \in Bucket /\ c.made /\ Balanced(c, window[k], total[k], from)
      BY FoundBalanced
    <3>2. /\ buckets' = [buckets EXCEPT ![k] = c]
          /\ limited' = limited \cup {k}
          /\ window' = window /\ total' = total /\ from' = from
          /\ c.tokens = 0
      BY <2>2 DEF Refuse
    <3> HIDE DEF c
    <3>3. TypeOK'
      BY <2>0, <3>1, <3>2 DEF TypeOK, Bucket
    <3>4. ASSUME NEW j \in Keys PROVE Balanced(buckets'[j], window'[j], total'[j], from')
      <4>1. CASE j = k
        BY <2>0, <3>1, <3>2, <4>1 DEF TypeOK
      <4>2. CASE j # k
        BY <2>0, <3>2, <4>2 DEF TypeOK
      <4> QED
        BY <4>1, <4>2
    <3>5. total[k] >= Capacity
      BY <2>0, <3>1, <3>2, RateAssumption DEF Balanced, TypeOK
    <3>6. LimitedHadABurst'
      BY <2>0, <3>2, <3>5 DEF LimitedHadABurst
    <3> QED
      BY <3>3, <3>4, <3>6
  <2>3. CASE UNCHANGED vars
    BY <2>0, <2>3 DEF vars, TypeOK, LimitedHadABurst
  <2> QED
    BY <2>1, <2>2, <2>3 DEF Next
<1> QED
  BY <1>1, <1>2, PTL DEF Spec

\* Type correctness of the bucket table.
THEOREM TypeCorrect == Spec => []TypeOK
<1>1. Inv => TypeOK
  BY DEF Inv
<1> QED
  BY <1>1, BucketInvariance, PTL

\* TokenBucket::check grants at most a burst and the refill of the time passed,
\* from any moment on and under any clock.
THEOREM Bounded == Spec => []GrantsBounded
<1>1. Inv => GrantsBounded
  <2> SUFFICES ASSUME Inv, NEW k \in Keys, window[k] > 0
               PROVE  /\ from <= buckets[k].last
                      /\ window[k] <= Capacity + Refill * (buckets[k].last - from)
    BY DEF GrantsBounded
  <2>1. TypeOK /\ Balanced(buckets[k], window[k], total[k], from)
    BY InvByKey
  <2>2. buckets[k].made /\ ~(buckets[k].last < from)
    BY <2>1 DEF Balanced, TypeOK
  <2> DEFINE x == Refill * (buckets[k].last - from)
  <2>3. x \in Int /\ window[k] + buckets[k].tokens <= Capacity + x
    BY <2>1, <2>2, RateAssumption DEF Balanced, TypeOK, Times
  <2> HIDE DEF x
  <2>4. window[k] <= Capacity + x
    BY <2>1, <2>3, RateAssumption DEF TypeOK
  <2> QED
    BY <2>1, <2>2, <2>4, RateAssumption DEF TypeOK, Times, x
<1> QED
  BY <1>1, BucketInvariance, PTL

\* A key is only limited after a whole burst of its own: the first honest burst
\* passes (RateTables::check).
THEOREM FirstBurstPasses == Spec => []LimitedHadABurst
<1>1. Inv => LimitedHadABurst
  BY DEF Inv
<1> QED
  BY <1>1, BucketInvariance, PTL

-----------------------------------------------------------------------------
(* The chat rules *)

\* A leaf is for Zenon unless it names another prover.
USE Zenon

Proposals == [ttl : Nat, inbound : BOOLEAN, id : Nat]

Envelopes == [op : {"propose", "accept"}, to : Nodes, ttl : Nat, id : Nat]

RuleTypeOK ==
  /\ ttl \in [Nodes -> Nat]
  /\ pending \in [Nodes -> Proposals]
  /\ expiries \in [Nodes -> SUBSET Int]
  /\ net \in SUBSET Envelopes
  /\ offers \in Seq([by : Nodes, ttl : Nat])
  /\ accepted \in SUBSET (Nat \X Nodes)
  /\ basis \in [Nodes -> Nat]
  /\ now \in Nat
  /\ crashes \in Nat

\* A pending proposal of n is a proposal that was made, by n or by its peer.
TracedPending(n, p) ==
  p.id # 0 =>
    /\ p.id \in DOMAIN offers
    /\ p.ttl = offers[p.id].ttl
    /\ offers[p.id].by = IF p.inbound THEN Peer(n) ELSE n

\* An envelope is about a proposal that was made; an ACCEPT is the peer's.
TracedEnvelope(m) ==
  /\ m.id \in DOMAIN offers
  /\ m.ttl = offers[m.id].ttl
  /\ m.op = "propose" => offers[m.id].by = Peer(m.to)
  /\ m.op = "accept" => offers[m.id].by = m.to /\ <<m.id, Peer(m.to)>> \in accepted

Traced ==
  /\ \A n \in Nodes : /\ TracedPending(n, pending[n])
                      /\ pending[n].inbound => pending[n].id # 0
                      /\ basis[n] # 0 => basis[n] \in DOMAIN offers
  /\ \A m \in net : TracedEnvelope(m)
  /\ \A a \in accepted : a[1] \in DOMAIN offers

IInv == RuleTypeOK /\ Traced /\ RuleWasAgreed

-----------------------------------------------------------------------------
\* Each engine is the other's peer.
LEMMA PeerFacts ==
  ASSUME NEW n \in Nodes
  PROVE  /\ Peer(n) \in Nodes /\ Peer(n) # n /\ Peer(Peer(n)) = n
         /\ \A m \in Nodes : m = n \/ m = Peer(n)
<1>1. PICK a \in Nodes, b \in Nodes : a # b /\ Nodes = {a, b}  BY PairAssumption
<1>2. Peer(a) = b  BY <1>1 DEF Peer
<1>3. Peer(b) = a  BY <1>1 DEF Peer
<1> QED  BY <1>1, <1>2, <1>3

\* A new proposal does not touch the earlier ones.
LEMMA OfferAppended ==
  ASSUME NEW S, NEW q \in Seq(S), NEW x \in S
  PROVE  /\ Append(q, x) \in Seq(S)
         /\ DOMAIN Append(q, x) = DOMAIN q \cup {Len(q) + 1}
         /\ \A i \in DOMAIN q : Append(q, x)[i] = q[i]
         /\ Append(q, x)[Len(q) + 1] = x
         /\ Len(q) + 1 \notin DOMAIN q /\ Len(q) \in Nat
  BY SMT

\* An element of a sequence.
LEMMA Element ==
  ASSUME NEW S, NEW q \in Seq(S), NEW i \in DOMAIN q
  PROVE  q[i] \in S /\ i # 0
<1>1. DOMAIN q = 1 .. Len(q) /\ Len(q) \in Nat  BY SMT
<1>2. i # 0  BY SMT, <1>1
<1> QED  BY SMT, <1>2

\* What is clamped expires, and not after the horizon.
LEMMA ClampBounds ==
  ASSUME NEW E \in SUBSET Int, NEW h \in Nat
  PROVE  /\ Clamp(E, h) \in SUBSET Int
         /\ \A e \in Clamp(E, h) : e # NoExpiry /\ e <= h
<1>1. ASSUME NEW x \in Clamp(E, h)  PROVE x \in Int /\ x # NoExpiry /\ x <= h
  <2>1. PICK e \in E : x = IF e = NoExpiry \/ e > h THEN h ELSE e  BY <1>1 DEF Clamp
  <2>2. e \in Int  OBVIOUS
  <2> QED  BY SMT, <2>1, <2>2 DEF NoExpiry
<1> QED  BY <1>1

\* apply_rules with the rule of an accepted proposal.
LEMMA ApplyKeeps ==
  ASSUME IInv, NEW n \in Nodes, NEW p \in Proposals, p.id # 0, TracedPending(n, p),
         NEW end \in {"saved", "applied", "done"}, ApplyRules(n, p.ttl, p.id, end),
         offers' = offers, accepted \subseteq accepted',
         <<p.id, Peer(offers[p.id].by)>> \in accepted'
  PROVE  /\ ttl' \in [Nodes -> Nat] /\ pending' \in [Nodes -> Proposals]
         /\ expiries' \in [Nodes -> SUBSET Int] /\ basis' \in [Nodes -> Nat]
         /\ \A k \in Nodes : /\ TracedPending(k, pending[k])'
                             /\ pending'[k].inbound => pending'[k].id # 0
                             /\ basis'[k] # 0 => basis'[k] \in DOMAIN offers'
         /\ RuleWasAgreed'
<1>1. p.id \in Nat /\ p.ttl \in Nat  BY DEF Proposals
<1>2. NoProposal \in Proposals /\ NoProposal.id = 0 /\ ~NoProposal.inbound
  BY DEF NoProposal, Proposals
<1>3. \A E \in SUBSET Int : Clamp(E, now + p.ttl) \in SUBSET Int
  BY SMT, <1>1, ClampBounds DEF IInv, RuleTypeOK
<1>4. expiries' \in [Nodes -> SUBSET Int]
  BY <1>3 DEF ApplyRules, IInv, RuleTypeOK
<1>5. ttl' \in [Nodes -> Nat] /\ pending' \in [Nodes -> Proposals] /\ basis' \in [Nodes -> Nat]
  BY <1>1, <1>2 DEF ApplyRules, IInv, RuleTypeOK
<1>6. \A k \in Nodes : pending'[k] = IF k = n THEN NoProposal ELSE pending[k]
  BY DEF ApplyRules, IInv, RuleTypeOK
<1>7. \A k \in Nodes : /\ ttl'[k] = IF k = n THEN p.ttl ELSE ttl[k]
                       /\ basis'[k] = IF k = n THEN p.id ELSE basis[k]
  BY DEF ApplyRules, IInv, RuleTypeOK
<1>8. \A k \in Nodes : /\ TracedPending(k, pending[k])'
                       /\ pending'[k].inbound => pending'[k].id # 0
  BY SMT, <1>2, <1>6 DEF IInv, Traced, TracedPending
<1>9. \A k \in Nodes : basis'[k] # 0 => basis'[k] \in DOMAIN offers'
  BY <1>7 DEF IInv, Traced, TracedPending
<1>10. RuleWasAgreed'
  BY <1>7 DEF IInv, RuleWasAgreed, TracedPending
<1> QED  BY <1>4, <1>5, <1>8, <1>9, <1>10

\* The strengthened invariant holds at the start.
LEMMA InitTraced ==
  ASSUME RulesInit
  PROVE  IInv
<1>1. NoProposal \in Proposals /\ NoProposal.id = 0 /\ ~NoProposal.inbound
  BY DEF NoProposal, Proposals
<1>2. DefaultTtl \in Nat  BY RuleBoundsAssumption
<1>3. RuleTypeOK  BY SMT, <1>1, <1>2 DEF RulesInit, RuleTypeOK
<1>4. Traced  BY <1>1 DEF RulesInit, Traced, TracedPending
<1> QED  BY <1>3, <1>4 DEF IInv, RuleWasAgreed, RulesInit

\* Every step keeps it.
LEMMA NextTraced ==
  ASSUME IInv, [RulesNext]_ruleVars
  PROVE  IInv'
<1> USE DEF IInv
<1>1. CASE UNCHANGED ruleVars
  BY <1>1 DEF ruleVars, RuleTypeOK, Traced, TracedPending, TracedEnvelope, RuleWasAgreed
<1>2. CASE Tick
  BY SMTT(60), <1>2 DEF Tick, RuleTypeOK, Traced, TracedPending, TracedEnvelope, RuleWasAgreed
<1>3. ASSUME NEW n \in Nodes, NEW r \in Requests, ProposeRules(n, r)
      PROVE  IInv'
  <2> DEFINE id == Len(offers) + 1
             p == [ttl |-> r, inbound |-> FALSE, id |-> id]
             x == [by |-> n, ttl |-> r]
  <2>1. r \in Nat /\ x \in [by : Nodes, ttl : Nat]  BY RuleBoundsAssumption
  <2>2. /\ offers' = Append(offers, x)
        /\ offers' \in Seq([by : Nodes, ttl : Nat])
        /\ DOMAIN offers' = DOMAIN offers \cup {id}
        /\ \A i \in DOMAIN offers : offers'[i] = offers[i]
        /\ offers'[id] = x /\ id \notin DOMAIN offers /\ id \in Nat /\ id # 0
    <3>1. offers' = Append(offers, x)  BY <1>3 DEF ProposeRules
    <3>2. offers \in Seq([by : Nodes, ttl : Nat])  BY DEF RuleTypeOK
    <3>3. id # 0 /\ id \in Nat  BY SMT, <3>2
    <3> QED  BY SMT, <2>1, <3>1, <3>2, <3>3, OfferAppended
  <2>3. p \in Proposals  BY <2>1, <2>2 DEF Proposals
  <2>4. pending' = [pending EXCEPT ![n] = p]  BY <1>3 DEF ProposeRules
  <2>5. net' \subseteq net \cup {Propose(n, r, id)}  BY <1>3 DEF ProposeRules
  <2>6. Propose(n, r, id) \in Envelopes  BY <2>1, <2>2, PeerFacts DEF Propose, Envelopes
  <2>7. crashes' \in Nat  BY SMT, <1>3 DEF ProposeRules, Ends, RuleTypeOK
  <2> HIDE DEF id, p, x
  <2>8. UNCHANGED <<ttl, expiries, accepted, basis, now>>  BY <1>3 DEF ProposeRules
  <2>9. RuleTypeOK'  BY <2>2, <2>3, <2>4, <2>5, <2>6, <2>7, <2>8 DEF RuleTypeOK
  <2>10. \A k \in Nodes :
           TracedPending(k, pending[k])' /\ (pending'[k].inbound => pending'[k].id # 0)
    <3> SUFFICES ASSUME NEW k \in Nodes
                 PROVE  TracedPending(k, pending[k])' /\ (pending'[k].inbound => pending'[k].id # 0)
      OBVIOUS
    <3>1. CASE k = n
      BY SMT, <2>2, <2>4, <3>1 DEF p, x, TracedPending, RuleTypeOK
    <3>2. CASE k # n
      BY SMTT(60), <2>2, <2>4, <3>2 DEF TracedPending, RuleTypeOK, Traced
    <3> QED  BY <3>1, <3>2
  <2>11. \A m \in net' : TracedEnvelope(m)'
    <3> SUFFICES ASSUME NEW m \in net' PROVE TracedEnvelope(m)'
      OBVIOUS
    <3>1. CASE m \in net  BY <2>2, <2>8, <3>1 DEF TracedEnvelope, Traced
    <3>2. CASE m = Propose(n, r, id)
      BY SMT, <2>2, <3>2, PeerFacts DEF TracedEnvelope, Propose, x
    <3> QED  BY <2>5, <3>1, <3>2
  <2>12. \A k \in Nodes :
           basis[k] # 0 => basis[k] \in DOMAIN offers' /\ offers'[basis[k]] = offers[basis[k]]
    BY <2>2 DEF Traced
  <2>13. Traced'  BY <2>2, <2>8, <2>10, <2>11, <2>12 DEF Traced
  <2>14. RuleWasAgreed'  BY <2>8, <2>12 DEF RuleWasAgreed
  <2> QED  BY <2>9, <2>13, <2>14
<1>4. ASSUME NEW n \in Nodes, AcceptRules(n)
      PROVE  IInv'
  <2> DEFINE p == pending[n]
  <2>1. p \in Proposals /\ p.inbound /\ p.id # 0 /\ TracedPending(n, p)
    BY <1>4 DEF AcceptRules, RuleTypeOK, Traced
  <2>2. p.id \in DOMAIN offers /\ p.ttl = offers[p.id].ttl /\ offers[p.id].by = Peer(n)
    BY <2>1 DEF TracedPending
  <2>3. /\ offers' = offers /\ now' = now /\ accepted' = accepted \cup {<<p.id, n>>}
    BY <1>4 DEF AcceptRules
  <2>4. Peer(offers[p.id].by) = n  BY <2>2, PeerFacts
  <2>5. PICK end \in {"saved", "applied", "done"} :
          /\ ApplyRules(n, p.ttl, p.id, end) /\ Ends(end)
          /\ net' \subseteq net \cup {Accept(n, p.ttl, p.id)}
    BY <1>4 DEF AcceptRules
  <2> HIDE DEF p
  <2>6. /\ ttl' \in [Nodes -> Nat] /\ pending' \in [Nodes -> Proposals]
        /\ expiries' \in [Nodes -> SUBSET Int] /\ basis' \in [Nodes -> Nat]
        /\ \A k \in Nodes : /\ TracedPending(k, pending[k])'
                            /\ pending'[k].inbound => pending'[k].id # 0
                            /\ basis'[k] # 0 => basis'[k] \in DOMAIN offers'
        /\ RuleWasAgreed'
    BY <2>1, <2>3, <2>4, <2>5, ApplyKeeps
  <2>7. p.id \in Nat /\ p.ttl \in Nat  BY <2>1 DEF Proposals
  <2>8. Accept(n, p.ttl, p.id) \in Envelopes  BY <2>7, PeerFacts DEF Accept, Envelopes
  <2>9. crashes' \in Nat  BY SMT, <2>5 DEF Ends, RuleTypeOK
  <2>10. RuleTypeOK'  BY SMTT(60), <2>3, <2>5, <2>6, <2>7, <2>8, <2>9 DEF RuleTypeOK
  <2>11. \A m \in net' : TracedEnvelope(m)'
    <3> SUFFICES ASSUME NEW m \in net' PROVE TracedEnvelope(m)'
      OBVIOUS
    <3>1. CASE m \in net  BY <2>3, <3>1 DEF TracedEnvelope, Traced
    <3>2. CASE m = Accept(n, p.ttl, p.id)
      BY <2>2, <2>3, <3>2, PeerFacts DEF TracedEnvelope, Accept
    <3> QED  BY <2>5, <3>1, <3>2
  <2>12. \A a \in accepted' : a[1] \in DOMAIN offers'  BY SMT, <2>2, <2>3 DEF Traced
  <2> QED  BY <2>6, <2>10, <2>11, <2>12 DEF Traced
<1>5. ASSUME NEW n \in Nodes, NEW p \in Proposals, TracedPending(n, p), p.inbound => p.id # 0,
             pending' = [pending EXCEPT ![n] = p], net' \subseteq net,
             UNCHANGED <<ttl, expiries, offers, accepted, basis, now, crashes>>
      PROVE  IInv'
  <2>1. RuleTypeOK'  BY <1>5 DEF RuleTypeOK
  <2>2. \A k \in Nodes : pending'[k] = IF k = n THEN p ELSE pending[k]  BY <1>5 DEF RuleTypeOK
  <2>3. Traced'  BY SMT, <1>5, <2>2 DEF Traced, TracedPending, TracedEnvelope
  <2>4. RuleWasAgreed'  BY <1>5 DEF RuleWasAgreed
  <2> QED  BY <2>1, <2>3, <2>4
<1>6. ASSUME NEW n \in Nodes, DeclineRules(n)
      PROVE  IInv'
  <2>1. NoProposal \in Proposals /\ NoProposal.id = 0 /\ ~NoProposal.inbound
    BY DEF NoProposal, Proposals
  <2>2. TracedPending(n, NoProposal)  BY <2>1 DEF TracedPending
  <2> QED  BY <1>5, <1>6, <2>1, <2>2 DEF DeclineRules
<1>7. ASSUME NEW m \in net, ReceivePropose(m)
      PROVE  IInv'
  <2> DEFINE p == [ttl |-> m.ttl, inbound |-> TRUE, id |-> m.id]
  <2>1. m \in Envelopes /\ TracedEnvelope(m) /\ m.op = "propose"
    BY <1>7 DEF RuleTypeOK, Traced, ReceivePropose
  <2>2. m.to \in Nodes /\ p \in Proposals  BY ZenonT(60), <2>1 DEF Envelopes, Proposals
  <2>3. TracedPending(m.to, p) /\ p.id # 0
    <3>1. offers \in Seq([by : Nodes, ttl : Nat])  BY DEF RuleTypeOK
    <3> QED  BY SMT, <2>1, <3>1 DEF TracedPending, TracedEnvelope
  <2> QED  BY <1>5, <1>7, <2>2, <2>3 DEF ReceivePropose
<1>8. ASSUME NEW m \in net, ReceiveAccept(m)
      PROVE  IInv'
  <2> DEFINE p == pending[m.to]
  <2>1. m \in Envelopes /\ TracedEnvelope(m) /\ m.op = "accept"
    BY <1>8 DEF RuleTypeOK, Traced, ReceiveAccept
  <2>2. m.to \in Nodes  BY <2>1 DEF Envelopes
  <2>3. p \in Proposals /\ TracedPending(m.to, p)  BY <2>2 DEF RuleTypeOK, Traced
  <2>4. UNCHANGED <<offers, accepted, now>> /\ net' \subseteq net  BY <1>8 DEF ReceiveAccept
  <2>5. \A e \in net' : TracedEnvelope(e)'  BY <2>4 DEF Traced, TracedEnvelope
  <2>6. CASE Answers(p, m)
    <3>1. PICK end \in {"saved", "done"} : ApplyRules(m.to, p.ttl, p.id, end) /\ Ends(end)
      BY <1>8, <2>6 DEF ReceiveAccept
    <3>2. p.id = m.id /\ <<m.id, Peer(m.to)>> \in accepted /\ offers[m.id].by = m.to
          /\ m.id \in DOMAIN offers
      BY <2>1, <2>6 DEF Answers, TracedEnvelope
    <3>3. p.id # 0  BY SMTT(60), <3>2 DEF RuleTypeOK
    <3> HIDE DEF p
    <3>4. /\ ttl' \in [Nodes -> Nat] /\ pending' \in [Nodes -> Proposals]
          /\ expiries' \in [Nodes -> SUBSET Int] /\ basis' \in [Nodes -> Nat]
          /\ \A k \in Nodes : /\ TracedPending(k, pending[k])'
                              /\ pending'[k].inbound => pending'[k].id # 0
                              /\ basis'[k] # 0 => basis'[k] \in DOMAIN offers'
          /\ RuleWasAgreed'
      BY <2>2, <2>3, <2>4, <3>1, <3>2, <3>3, ApplyKeeps
    <3>5. crashes' \in Nat  BY SMT, <3>1 DEF Ends, RuleTypeOK
    <3>6. RuleTypeOK'  BY <2>4, <3>4, <3>5 DEF RuleTypeOK
    <3> QED  BY <2>4, <2>5, <3>4, <3>6 DEF Traced
  <2>7. CASE ~Answers(p, m)
    <3>1. UNCHANGED <<ttl, pending, expiries, basis, crashes>>  BY <1>8, <2>7 DEF ReceiveAccept
    <3>2. RuleTypeOK'  BY <2>4, <3>1 DEF RuleTypeOK
    <3> QED  BY <2>4, <2>5, <3>1, <3>2 DEF Traced, TracedPending, RuleWasAgreed
  <2> QED  BY <2>6, <2>7
<1>9. ASSUME NEW n \in Nodes, NEW E \in SUBSET Int, expiries' = [expiries EXCEPT ![n] = E],
             UNCHANGED <<ttl, pending, net, offers, accepted, basis, now, crashes>>
      PROVE  IInv'
  BY <1>9 DEF RuleTypeOK, Traced, TracedPending, TracedEnvelope, RuleWasAgreed
<1>10. ASSUME NEW n \in Nodes, NewMessage(n)
       PROVE  IInv'
  <2>1. expiries[n] \in SUBSET Int /\ ExpiryAt(ttl[n], now) \in Int
    BY SMT DEF ExpiryAt, NoExpiry, RuleTypeOK
  <2>2. expiries[n] \cup {ExpiryAt(ttl[n], now)} \in SUBSET Int  BY <2>1
  <2> QED  BY <1>9, <1>10, <2>2 DEF NewMessage
<1>11. ASSUME NEW n \in Nodes, Sweep(n)
       PROVE  IInv'
  <2>1. {e \in expiries[n] : e = NoExpiry \/ e > now} \in SUBSET Int  BY DEF RuleTypeOK
  <2> QED  BY <1>9, <1>11, <2>1 DEF Sweep
<1> QED  BY <1>1, <1>2, <1>3, <1>4, <1>6, <1>7, <1>8, <1>10, <1>11 DEF RulesNext

\* Rules are traced throughout.
LEMMA Invariance == RulesSpec => []IInv
<1>1. RulesInit => IInv  BY InitTraced
<1>2. IInv /\ [RulesNext]_ruleVars => IInv'  BY NextTraced
<1> QED  BY <1>1, <1>2, PTL DEF RulesSpec

\* A rule in force was proposed by one user and accepted by the other, however
\* many proposals cross, replace each other, are declined or accepted late, and
\* wherever the engines die (propose_rules, accept_rules, apply_accept).
THEOREM RulesAgreed == RulesSpec => []RuleWasAgreed
<1>1. IInv => RuleWasAgreed  BY DEF IInv
<1> QED  BY <1>1, Invariance, PTL

-----------------------------------------------------------------------------
\* apply_rules to its end keeps live messages within the TTL in force: a TTL
\* that shrinks clamps them, one that grows leaves room.
LEMMA ApplyExpires ==
  ASSUME IInv, ExpiryWithinTtl, NEW n \in Nodes, NEW r \in Nat, NEW id, NEW end,
         ApplyRules(n, r, id, end), now' = now, crashes' = 0 => crashes = 0 /\ end # "saved"
  PROVE  ExpiryWithinTtl'
<1> SUFFICES ASSUME NEW k \in Nodes, crashes' = 0, ttl'[k] # TtlNever, NEW e \in expiries'[k]
             PROVE  e # NoExpiry /\ e <= now' + ttl'[k]
  BY DEF ExpiryWithinTtl
<1>1. now \in Nat /\ ttl \in [Nodes -> Nat] /\ expiries \in [Nodes -> SUBSET Int]
  BY DEF IInv, RuleTypeOK
<1>2. CASE k # n
  BY <1>1, <1>2 DEF ApplyRules, ExpiryWithinTtl
<1>3. CASE k = n
  <2>1. ttl'[n] = r /\ end # "saved" /\ crashes = 0  BY <1>1 DEF ApplyRules
  <2>2. expiries'[n] = IF Shrinks(ttl[n], r) THEN Clamp(expiries[n], now + r) ELSE expiries[n]
    BY <1>1, <2>1 DEF ApplyRules
  <2>3. CASE Shrinks(ttl[n], r)
    <3>1. now + r \in Nat /\ expiries[n] \in SUBSET Int  BY SMT, <1>1
    <3>2. e \in Clamp(expiries[n], now + r)  BY <1>3, <2>2, <2>3
    <3> QED  BY <1>3, <2>1, <3>1, <3>2, ClampBounds
  <2>4. CASE ~Shrinks(ttl[n], r)
    <3>1. ttl[n] \in Nat /\ e \in Int /\ e \in expiries[n]  BY <1>1, <1>3, <2>2, <2>4
    <3>2. ttl[n] # TtlNever /\ ttl[n] <= r  BY SMT, <1>3, <2>1, <2>4, <3>1 DEF Shrinks
    <3>3. e # NoExpiry /\ e <= now + ttl[n]  BY <2>1, <3>1, <3>2 DEF ExpiryWithinTtl
    <3> QED  BY SMT, <1>1, <1>3, <2>1, <3>1, <3>2, <3>3
  <2> QED  BY <2>3, <2>4
<1> QED  BY <1>2, <1>3

\* While no engine died between save_policy and clamp_message_expiry, every
\* live message expires within the TTL in force, whatever TTLs were agreed in
\* which order.
THEOREM MessagesExpire == RulesSpec => []ExpiryWithinTtl
<1>1. RulesInit => ExpiryWithinTtl  BY DEF RulesInit, ExpiryWithinTtl
<1>2. ASSUME IInv, ExpiryWithinTtl, [RulesNext]_ruleVars
      PROVE  ExpiryWithinTtl'
  <2>1. /\ now \in Nat /\ crashes \in Nat /\ ttl \in [Nodes -> Nat]
        /\ expiries \in [Nodes -> SUBSET Int]
    BY <1>2 DEF IInv, RuleTypeOK
  <2>2. \A end : Ends(end) => (crashes' = 0 => crashes = 0 /\ end = "done")
    BY SMT, <2>1 DEF Ends
  <2>3. ASSUME UNCHANGED <<ttl, expiries, now>>, crashes' = 0 => crashes = 0
        PROVE  ExpiryWithinTtl'
    BY <1>2, <2>3 DEF ExpiryWithinTtl
  <2>4. CASE UNCHANGED ruleVars  BY <2>3, <2>4 DEF ruleVars
  <2>5. CASE Tick
    <3>1. now' = now + 1 /\ UNCHANGED <<ttl, expiries, crashes>>  BY <2>5 DEF Tick
    <3> SUFFICES ASSUME NEW k \in Nodes, crashes = 0, ttl[k] # TtlNever, NEW e \in expiries[k]
                 PROVE  e # NoExpiry /\ e <= now' + ttl[k]
      BY <3>1 DEF ExpiryWithinTtl
    <3>2. e # NoExpiry /\ e <= now + ttl[k]  BY <1>2 DEF ExpiryWithinTtl
    <3>3. e \in Int /\ ttl[k] \in Nat  BY <2>1
    <3> QED  BY SMT, <2>1, <3>1, <3>2, <3>3
  <2>6. ASSUME NEW n \in Nodes, NEW r \in Requests, ProposeRules(n, r)
        PROVE  ExpiryWithinTtl'
    BY <2>2, <2>3, <2>6 DEF ProposeRules
  <2>7. ASSUME NEW n \in Nodes, AcceptRules(n)
        PROVE  ExpiryWithinTtl'
    <3>1. pending[n].ttl \in Nat  BY <1>2 DEF IInv, RuleTypeOK, Proposals
    <3>2. PICK end : ApplyRules(n, pending[n].ttl, pending[n].id, end) /\ Ends(end) /\ now' = now
      BY <2>7 DEF AcceptRules
    <3> QED  BY <1>2, <2>2, <3>1, <3>2, ApplyExpires
  <2>8. ASSUME NEW n \in Nodes, DeclineRules(n)
        PROVE  ExpiryWithinTtl'
    BY <2>3, <2>8 DEF DeclineRules
  <2>9. ASSUME NEW n \in Nodes, NewMessage(n)
        PROVE  ExpiryWithinTtl'
    <3>1. /\ UNCHANGED <<ttl, now, crashes>>
          /\ expiries' = [expiries EXCEPT ![n] = @ \cup {ExpiryAt(ttl[n], now)}]
      BY <2>9 DEF NewMessage
    <3> SUFFICES ASSUME NEW k \in Nodes, crashes = 0, ttl[k] # TtlNever, NEW e \in expiries'[k]
                 PROVE  e # NoExpiry /\ e <= now + ttl[k]
      BY <3>1 DEF ExpiryWithinTtl
    <3>2. CASE e \in expiries[k]  BY <1>2, <3>2 DEF ExpiryWithinTtl
    <3>3. CASE e \notin expiries[k]
      <4>1. k = n /\ e = now + ttl[k]  BY <2>1, <3>1, <3>3 DEF ExpiryAt
      <4> QED  BY SMT, <2>1, <4>1 DEF NoExpiry
    <3> QED  BY <3>2, <3>3
  <2>10. ASSUME NEW n \in Nodes, Sweep(n)
         PROVE  ExpiryWithinTtl'
    <3>1. /\ UNCHANGED <<ttl, now, crashes>>
          /\ \A k \in Nodes : expiries'[k] \subseteq expiries[k]
      BY <2>1, <2>10 DEF Sweep
    <3> QED  BY <1>2, <3>1 DEF ExpiryWithinTtl
  <2>11. ASSUME NEW m \in net, ReceivePropose(m)
         PROVE  ExpiryWithinTtl'
    BY <2>3, <2>11 DEF ReceivePropose
  <2>12. ASSUME NEW m \in net, ReceiveAccept(m)
         PROVE  ExpiryWithinTtl'
    <3> DEFINE p == pending[m.to]
    <3>1. m.to \in Nodes  BY <1>2 DEF IInv, RuleTypeOK, Envelopes
    <3>2. p.ttl \in Nat  BY <1>2, <3>1 DEF IInv, RuleTypeOK, Proposals
    <3>3. CASE Answers(p, m)
      <4>1. PICK end : ApplyRules(m.to, p.ttl, p.id, end) /\ Ends(end) /\ now' = now
        BY <2>12, <3>3 DEF ReceiveAccept
      <4> QED  BY <1>2, <2>2, <3>1, <3>2, <4>1, ApplyExpires
    <3>4. CASE ~Answers(p, m)  BY <2>3, <2>12, <3>4 DEF ReceiveAccept
    <3> QED  BY <3>3, <3>4
  <2> QED
    BY <1>2, <2>4, <2>5, <2>6, <2>7, <2>8, <2>9, <2>10, <2>11, <2>12 DEF RulesNext
<1> QED  BY <1>1, <1>2, Invariance, PTL DEF RulesSpec

-----------------------------------------------------------------------------
\* Without a crash a proposal that its maker waits on and the peer accepted has
\* its ACCEPT on the way, among any number of others (accept_rules,
\* apply_accept).
THEOREM AcceptComes == RulesSpec => []AcceptIsOnItsWay
<1>1. RulesInit => AcceptIsOnItsWay  BY DEF RulesInit, AcceptIsOnItsWay
<1>2. ASSUME IInv, AcceptIsOnItsWay, [RulesNext]_ruleVars
      PROVE  AcceptIsOnItsWay'
  <2>1. /\ pending \in [Nodes -> Proposals] /\ net \in SUBSET Envelopes
        /\ offers \in Seq([by : Nodes, ttl : Nat]) /\ crashes \in Nat
        /\ \A i \in DOMAIN offers : offers[i].by \in Nodes /\ i # 0
    <3>1. offers \in Seq([by : Nodes, ttl : Nat])  BY <1>2 DEF IInv, RuleTypeOK
    <3>2. \A i \in DOMAIN offers : i # 0 /\ offers[i] \in [by : Nodes, ttl : Nat]
      BY <3>1, Element
    <3> QED  BY <1>2, <3>2 DEF IInv, RuleTypeOK
  <2>2. \A end : Ends(end) => (crashes' = 0 => crashes = 0 /\ end = "done")
    BY SMT, <2>1 DEF Ends
  <2>3. NoProposal.id = 0 /\ ~NoProposal.inbound  BY DEF NoProposal
  <2>4. ASSUME UNCHANGED <<offers, pending, accepted>>, net \subseteq net',
               crashes' = 0 => crashes = 0
        PROVE  AcceptIsOnItsWay'
    BY <1>2, <2>4 DEF AcceptIsOnItsWay
  \* One engine's slot changes to a proposal that cannot be answered, and what is
  \* on the way to the other stays.
  <2>5. ASSUME NEW n \in Nodes, NEW p, p.inbound \/ p.id \notin DOMAIN offers,
               pending' = [pending EXCEPT ![n] = p],
               \A m \in net : m.op = "accept" /\ m.to = Peer(n) => m \in net',
               UNCHANGED <<offers, accepted>>, crashes' = 0 => crashes = 0
        PROVE  AcceptIsOnItsWay'
    <3> SUFFICES ASSUME NEW id \in DOMAIN offers, crashes' = 0,
                        ~pending'[offers[id].by].inbound, pending'[offers[id].by].id = id,
                        <<id, Peer(offers[id].by)>> \in accepted
                 PROVE  Accept(Peer(offers[id].by), pending'[offers[id].by].ttl, id) \in net'
      BY <2>5 DEF AcceptIsOnItsWay
    <3> DEFINE k == offers[id].by
    <3>1. k \in Nodes /\ k # n  BY <2>1, <2>5
    <3>2. pending'[k] = pending[k] /\ k = Peer(n)  BY <2>1, <2>5, <3>1, PeerFacts
    <3>3. Accept(Peer(k), pending[k].ttl, id) \in net  BY <1>2, <2>5, <3>2 DEF AcceptIsOnItsWay
    <3>4. Peer(Peer(k)) = Peer(n)  BY <3>1, <3>2, PeerFacts
    <3> QED  BY <2>5, <3>2, <3>3, <3>4 DEF Accept
  <2>6. CASE UNCHANGED ruleVars  BY <2>4, <2>6 DEF ruleVars
  <2>7. CASE Tick  BY <2>4, <2>7 DEF Tick
  <2>8. ASSUME NEW n \in Nodes, NEW r \in Requests, ProposeRules(n, r)
        PROVE  AcceptIsOnItsWay'
    <3> DEFINE new == Len(offers) + 1
               x == [by |-> n, ttl |-> r]
    <3>1. x \in [by : Nodes, ttl : Nat]  BY RuleBoundsAssumption
    <3>2. offers' = Append(offers, x)  BY <2>8 DEF ProposeRules
    <3>3. /\ DOMAIN offers' = DOMAIN offers \cup {new} /\ new \notin DOMAIN offers
          /\ \A i \in DOMAIN offers : offers'[i] = offers[i]
      BY SMT, <2>1, <3>1, <3>2, OfferAppended
    <3>4. /\ pending' = [pending EXCEPT ![n] = [ttl |-> r, inbound |-> FALSE, id |-> new]]
          /\ net \subseteq net' /\ accepted' = accepted
      BY <2>8 DEF ProposeRules
    <3>5. crashes' = 0 => crashes = 0  BY <2>2, <2>8 DEF ProposeRules
    <3> HIDE DEF new
    <3> SUFFICES ASSUME NEW id \in DOMAIN offers', crashes' = 0,
                        ~pending'[offers'[id].by].inbound, pending'[offers'[id].by].id = id,
                        <<id, Peer(offers'[id].by)>> \in accepted
                 PROVE  Accept(Peer(offers'[id].by), pending'[offers'[id].by].ttl, id) \in net'
      BY <3>4 DEF AcceptIsOnItsWay
    <3>6. id \in DOMAIN offers
      <4>1. <<id, Peer(offers'[id].by)>>[1] \in DOMAIN offers  BY <1>2 DEF IInv, Traced
      <4> QED  BY <4>1
    <3> DEFINE k == offers[id].by
    <3>7. k \in Nodes /\ offers'[id].by = k  BY <2>1, <3>3, <3>6
    <3>8. k # n  BY <2>1, <3>3, <3>4, <3>6, <3>7
    <3>9. pending'[k] = pending[k]  BY <2>1, <3>4, <3>7, <3>8
    <3> QED  BY <1>2, <3>4, <3>5, <3>6, <3>7, <3>9 DEF AcceptIsOnItsWay
  <2>9. ASSUME NEW n \in Nodes, AcceptRules(n)
        PROVE  AcceptIsOnItsWay'
    <3> DEFINE p == pending[n]
    <3>1. PICK end : /\ Ends(end) /\ pending' = [pending EXCEPT ![n] = NoProposal]
                     /\ net \subseteq net'
                     /\ end = "done" => Accept(n, p.ttl, p.id) \in net'
      BY <2>9 DEF AcceptRules, ApplyRules
    <3>2. offers' = offers /\ accepted' = accepted \cup {<<p.id, n>>}  BY <2>9 DEF AcceptRules
    <3>3. p.id \in DOMAIN offers /\ p.ttl = offers[p.id].ttl
      BY <1>2, <2>9 DEF AcceptRules, IInv, Traced, TracedPending
    <3> HIDE DEF p
    <3> SUFFICES ASSUME NEW id \in DOMAIN offers, crashes' = 0,
                        ~pending'[offers[id].by].inbound, pending'[offers[id].by].id = id,
                        <<id, Peer(offers[id].by)>> \in accepted'
                 PROVE  Accept(Peer(offers[id].by), pending'[offers[id].by].ttl, id) \in net'
      BY <3>2 DEF AcceptIsOnItsWay
    <3> DEFINE k == offers[id].by
    <3>4. k \in Nodes /\ k # n  BY <2>1, <2>3, <3>1
    <3>5. pending'[k] = pending[k] /\ Peer(k) = n  BY <2>1, <3>1, <3>4, PeerFacts
    <3>6. crashes = 0 /\ end = "done"  BY <2>2, <3>1
    <3>7. CASE <<id, Peer(k)>> \in accepted
      <4>1. Accept(Peer(k), pending[k].ttl, id) \in net
        BY <1>2, <3>5, <3>6, <3>7 DEF AcceptIsOnItsWay
      <4> QED  BY <3>1, <3>5, <4>1
    <3>8. CASE <<id, Peer(k)>> = <<p.id, n>>
      <4>1. id = p.id  BY <3>8
      <4>2. pending[k].ttl = offers[id].ttl
        BY SMT, <1>2, <2>1, <3>4, <3>5 DEF IInv, Traced, TracedPending
      <4> QED  BY <3>1, <3>3, <3>5, <3>6, <4>1, <4>2
    <3> QED  BY <3>2, <3>7, <3>8
  <2>10. ASSUME NEW n \in Nodes, DeclineRules(n)
         PROVE  AcceptIsOnItsWay'
    BY <2>1, <2>3, <2>5, <2>10 DEF DeclineRules
  <2>11. ASSUME NEW n \in Nodes, NewMessage(n)
         PROVE  AcceptIsOnItsWay'
    BY <2>4, <2>11 DEF NewMessage
  <2>12. ASSUME NEW n \in Nodes, Sweep(n)
         PROVE  AcceptIsOnItsWay'
    BY <2>4, <2>12 DEF Sweep
  <2>13. ASSUME NEW m \in net, ReceivePropose(m)
         PROVE  AcceptIsOnItsWay'
    <3>1. m.to \in Nodes  BY <2>1 DEF Envelopes
    <3> QED  BY <2>5, <2>13, <3>1 DEF ReceivePropose
  <2>14. ASSUME NEW m \in net, ReceiveAccept(m)
         PROVE  AcceptIsOnItsWay'
    <3> DEFINE p == pending[m.to]
    <3>1. m.to \in Nodes /\ m.to # Peer(m.to)  BY <2>1, PeerFacts DEF Envelopes
    <3>2. net' = net \ {m} /\ UNCHANGED <<offers, accepted>>  BY <2>14 DEF ReceiveAccept
    <3>3. CASE Answers(p, m)
      <4>1. PICK end : Ends(end) /\ pending' = [pending EXCEPT ![m.to] = NoProposal]
        BY <2>14, <3>3 DEF ReceiveAccept, ApplyRules
      <4> QED  BY <2>1, <2>2, <2>3, <2>5, <3>1, <3>2, <4>1
    <3>4. CASE ~Answers(p, m)
      <4>1. UNCHANGED <<pending, crashes>>  BY <2>14, <3>4 DEF ReceiveAccept
      <4> SUFFICES ASSUME NEW id \in DOMAIN offers, crashes = 0,
                          ~pending[offers[id].by].inbound, pending[offers[id].by].id = id,
                          <<id, Peer(offers[id].by)>> \in accepted
                   PROVE  Accept(Peer(offers[id].by), pending[offers[id].by].ttl, id) \in net'
        BY <3>2, <4>1 DEF AcceptIsOnItsWay
      <4> DEFINE k == offers[id].by
                 a == Accept(Peer(k), pending[k].ttl, id)
      <4>2. a \in net  BY <1>2 DEF AcceptIsOnItsWay
      <4>3. k \in Nodes /\ Peer(Peer(k)) = k  BY <2>1, PeerFacts
      <4>4. a.to = k /\ a.id = id  BY <4>3 DEF Accept
      <4>5. pending[k] # NoProposal  BY <2>1, <2>3
      <4>6. a # m  BY <3>4, <4>4, <4>5 DEF Answers
      <4> QED  BY <3>2, <4>2, <4>6
    <3> QED  BY <3>3, <3>4
  <2> QED
    BY <1>2, <2>6, <2>7, <2>8, <2>9, <2>10, <2>11, <2>12, <2>13, <2>14 DEF RulesNext
<1> QED  BY <1>1, <1>2, Invariance, PTL DEF RulesSpec

-----------------------------------------------------------------------------
(* The wants *)

Letters ==
  {CapSet(c, on) : c \in Caps, on \in BOOLEAN} \cup {Sync(w) : w \in SUBSET Caps} \cup {AttachHead}

WantsTypeOK ==
  /\ local \in [Nodes -> SUBSET Caps]
  /\ peer \in [Nodes -> SUBSET Caps]
  /\ held \in [Nodes -> BOOLEAN]
  /\ mail \in [Nodes -> Seq(Letters)]
  /\ decided \in [Nodes -> [Caps -> BOOLEAN]]
  /\ overtaken \in BOOLEAN
  /\ used \in [{"sets", "syncs", "heads", "crashes"} -> Nat]

\* A letter that makes its reader believe its writer wants c.
Revives(m, c) ==
  \/ m.op = "cap_set" /\ m.cap = c /\ m.on
  \/ m.op = "sync" /\ c \in m.wants

\* A reader of the letters q who believes in the wants p will end up not
\* believing in c: whatever makes it believe is followed by a CAP_SET off.
Silenced(q, c, p) ==
  /\ c \in p => \E i \in DOMAIN q : q[i] = CapSet(c, FALSE)
  /\ \A i \in DOMAIN q : Revives(q[i], c) => \E j \in DOMAIN q : j > i /\ q[j] = CapSet(c, FALSE)

\* What n's user switched off, n does not want and its peer will not believe.
Blocked(n) ==
  \A c \in Caps :
    ~decided[n][c] => c \notin local[n] /\ Silenced(mail[Peer(n)], c, peer[Peer(n)])

Orderly == ~overtaken /\ used.crashes = 0

WantsInv ==
  /\ WantsTypeOK
  /\ Orderly => \A n \in Nodes : Blocked(n)
  /\ HeldOnlyIfEnforced

\* Of what kind a letter is.
LEMMA LetterKinds ==
  ASSUME NEW m \in Letters
  PROVE  /\ m.op = "cap_set" => m.cap \in Caps /\ m.on \in BOOLEAN /\ m = CapSet(m.cap, m.on)
         /\ m.op = "sync" => m.wants \in SUBSET Caps /\ m = Sync(m.wants)
         /\ m.op = "head" => m = AttachHead
  BY SMT DEF Letters, CapSet, Sync, AttachHead

\* A letter more, or one that switches c off.
LEMMA SilencedAppend ==
  ASSUME NEW q \in Seq(Letters), NEW m \in Letters, NEW c \in Caps, NEW p
  PROVE  /\ Append(q, m) \in Seq(Letters)
         /\ Silenced(q, c, p) /\ ~Revives(m, c) => Silenced(Append(q, m), c, p)
         /\ m = CapSet(c, FALSE) => Silenced(Append(q, m), c, p)
<1>1. /\ Append(q, m) \in Seq(Letters) /\ Len(q) \in Nat
      /\ DOMAIN q = 1 .. Len(q) /\ DOMAIN Append(q, m) = 1 .. Len(q) + 1
      /\ \A i \in DOMAIN q : Append(q, m)[i] = q[i]
      /\ Append(q, m)[Len(q) + 1] = m
  BY SMT
<1>2. m = CapSet(c, FALSE) => ~Revives(m, c)  BY SMT DEF CapSet, Revives
<1>3. DOMAIN q \subseteq DOMAIN Append(q, m) /\ Len(q) + 1 \in DOMAIN Append(q, m)
      /\ \A i \in DOMAIN Append(q, m) : i = Len(q) + 1 \/ (i \in DOMAIN q /\ Len(q) + 1 > i)
  BY SMT, <1>1
<1> HIDE DEF CapSet
<1>4. ASSUME Silenced(q, c, p), ~Revives(m, c)  PROVE Silenced(Append(q, m), c, p)
  BY <1>1, <1>3, <1>4 DEF Silenced
<1>5. ASSUME m = CapSet(c, FALSE)  PROVE Silenced(Append(q, m), c, p)
  BY <1>1, <1>2, <1>3, <1>5 DEF Silenced
<1> QED  BY <1>1, <1>4, <1>5

\* The first letter is read.
LEMMA SilencedTail ==
  ASSUME NEW q \in Seq(Letters), 1 \in DOMAIN q, NEW c \in Caps, NEW p, NEW p2,
         Silenced(q, c, p), c \in p2 => Revives(q[1], c) \/ (c \in p /\ q[1] # CapSet(c, FALSE))
  PROVE  Silenced(Tail(q), c, p2)
<1>1. /\ Len(q) \in Nat /\ DOMAIN q = 1 .. Len(q) /\ q # <<>>
      /\ DOMAIN Tail(q) = 1 .. Len(q) - 1
      /\ \A i \in 1 .. Len(q) - 1 : Tail(q)[i] = q[i + 1]
  BY SMT
<1>2. ASSUME NEW j \in DOMAIN q, j > 1
      PROVE  j - 1 \in DOMAIN Tail(q) /\ Tail(q)[j - 1] = q[j]
  BY SMT, <1>1, <1>2
<1>3. ASSUME NEW i \in DOMAIN Tail(q)
      PROVE  i + 1 \in DOMAIN q /\ Tail(q)[i] = q[i + 1] /\ i \in Nat
  BY SMT, <1>1
<1>4. ASSUME c \in p2  PROVE \E i \in DOMAIN Tail(q) : Tail(q)[i] = CapSet(c, FALSE)
  <2>1. PICK j \in DOMAIN q : j > 1 /\ q[j] = CapSet(c, FALSE)
    <3>1. CASE Revives(q[1], c)  BY <3>1 DEF Silenced
    <3>2. CASE c \in p /\ q[1] # CapSet(c, FALSE)
      <4>1. PICK j \in DOMAIN q : q[j] = CapSet(c, FALSE)  BY <3>2 DEF Silenced
      <4>2. j # 1  BY <3>2, <4>1
      <4>3. j > 1  BY SMT, <1>1, <4>1, <4>2
      <4> QED  BY <4>1, <4>3
    <3> QED  BY <1>4, <3>1, <3>2
  <2> QED  BY <1>2, <2>1
<1>5. ASSUME NEW i \in DOMAIN Tail(q), Revives(Tail(q)[i], c)
      PROVE  \E j \in DOMAIN Tail(q) : j > i /\ Tail(q)[j] = CapSet(c, FALSE)
  <2>1. PICK j \in DOMAIN q : j > i + 1 /\ q[j] = CapSet(c, FALSE)
    BY <1>3, <1>5 DEF Silenced
  <2>2. j - 1 > i /\ j > 1 /\ j \in Int  BY SMT, <1>1, <1>3, <2>1
  <2> QED  BY <1>2, <2>1, <2>2
<1> QED  BY <1>4, <1>5 DEF Silenced

\* Taking a letter from anywhere.
LEMMA Removed ==
  ASSUME NEW S, NEW q \in Seq(S), NEW i \in DOMAIN q
  PROVE  Without(q, i) \in Seq(S) /\ (i = 1 => Without(q, i) = Tail(q)) /\ q[i] \in S
         /\ i \in Nat /\ i >= 1
<1>1. Len(q) \in Nat /\ DOMAIN q = 1 .. Len(q) /\ i \in 1 .. Len(q)  BY SMT
<1>2. SubSeq(q, 1, i - 1) \in Seq(S) /\ SubSeq(q, i + 1, Len(q)) \in Seq(S)  BY SMT, <1>1
<1>3. Without(q, i) \in Seq(S)  BY SMT, <1>2 DEF Without
<1>4. ASSUME i = 1  PROVE Without(q, i) = Tail(q)
  <2>1. SubSeq(q, 1, 0) = <<>> /\ SubSeq(q, 2, Len(q)) = Tail(q)  BY SMT, <1>1, <1>4
  <2>2. Tail(q) \in Seq(S)  BY SMT, <1>1, <1>4
  <2> QED  BY SMT, <1>4, <2>1, <2>2 DEF Without
<1> QED  BY SMT, <1>1, <1>3, <1>4

\* The count of bounded steps.
LEMMA Counted ==
  ASSUME WantsTypeOK, NEW ks, Use(ks)
  PROVE  /\ used' \in [{"sets", "syncs", "heads", "crashes"} -> Nat]
         /\ used'.crashes = 0 => used.crashes = 0 /\ "crashes" \notin ks
  BY SMT DEF WantsTypeOK, Use

\* Saving the wants l and p at n, and erasing what they no longer allow.
LEMMA SavingKeeps ==
  ASSUME WantsInv, NEW n \in Nodes, NEW l \in SUBSET Caps, NEW p \in SUBSET Caps,
         NEW crash \in BOOLEAN, Save(n, l, p, crash),
         used'.crashes = 0 => used.crashes = 0 /\ crash = FALSE
  PROVE  /\ HeldOnlyIfEnforced'
         /\ local' \in [Nodes -> SUBSET Caps] /\ peer' \in [Nodes -> SUBSET Caps]
         /\ held' \in [Nodes -> BOOLEAN]
         /\ local' = [local EXCEPT ![n] = l] /\ peer' = [peer EXCEPT ![n] = p]
<1>1. /\ local \in [Nodes -> SUBSET Caps] /\ peer \in [Nodes -> SUBSET Caps]
      /\ held \in [Nodes -> BOOLEAN]
  BY DEF WantsInv, WantsTypeOK
<1>2. local' = [local EXCEPT ![n] = l] /\ peer' = [peer EXCEPT ![n] = p]  BY DEF Save
<1>3. /\ local' \in [Nodes -> SUBSET Caps] /\ peer' \in [Nodes -> SUBSET Caps]
      /\ held' \in [Nodes -> BOOLEAN]
  BY <1>1 DEF Save
<1>4. ASSUME used'.crashes = 0, NEW k \in Nodes, held'[k]
      PROVE  Attach \in Enforced(local'[k], peer'[k])
  <2>1. held[k] /\ Attach \in Enforced(local[k], peer[k]) /\ ~crash
    BY <1>1, <1>4 DEF Save, WantsInv, HeldOnlyIfEnforced
  <2>2. CASE k # n  BY <1>1, <1>2, <2>1, <2>2
  <2>3. CASE k = n
    <3>1. local'[k] = l /\ peer'[k] = p  BY <1>1, <1>2, <2>3
    <3>2. Attach \in Enforced(l, p)  BY <1>1, <1>4, <2>1, <2>3 DEF Save
    <3> QED  BY <3>1, <3>2
  <2> QED  BY <2>2, <2>3
<1> QED  BY <1>2, <1>3, <1>4 DEF HeldOnlyIfEnforced

\* n's wants become l and its belief p, and the letters to n and to its peer qn
\* and qp.
LEMMA BlockedMove ==
  ASSUME WantsTypeOK, NEW n \in Nodes, NEW l, NEW p, NEW qn, NEW qp, NEW d \in [Caps -> BOOLEAN],
         local' = [local EXCEPT ![n] = l], peer' = [peer EXCEPT ![n] = p],
         mail'[n] = qn, mail'[Peer(n)] = qp, decided' = [decided EXCEPT ![n] = d],
         \A c \in Caps : ~d[c] => c \notin l /\ Silenced(qp, c, peer[Peer(n)]),
         \A c \in Caps : ~decided[Peer(n)][c] => c \notin local[Peer(n)] /\ Silenced(qn, c, p)
  PROVE  \A k \in Nodes : Blocked(k)'
<1>1. /\ local'[n] = l /\ local'[Peer(n)] = local[Peer(n)]
      /\ peer'[n] = p /\ peer'[Peer(n)] = peer[Peer(n)]
      /\ decided'[n] = d /\ decided'[Peer(n)] = decided[Peer(n)]
  BY PeerFacts DEF WantsTypeOK
<1>2. Blocked(n)'  BY <1>1 DEF Blocked
<1>3. Blocked(Peer(n))'  BY <1>1, PeerFacts DEF Blocked
<1> QED  BY <1>2, <1>3, PeerFacts

\* Believing less.
LEMMA SilencedLess ==
  ASSUME NEW q, NEW c, NEW p, NEW p2, Silenced(q, c, p), c \in p2 => c \in p
  PROVE  Silenced(q, c, p2)
  BY DEF Silenced

\* What the invariant says of the two ends.
LEMMA EndFacts ==
  ASSUME WantsInv, NEW n \in Nodes
  PROVE  /\ local[n] \in SUBSET Caps /\ peer[n] \in SUBSET Caps /\ held[n] \in BOOLEAN
         /\ mail[n] \in Seq(Letters) /\ decided[n] \in [Caps -> BOOLEAN]
         /\ mail[Peer(n)] \in Seq(Letters)
         /\ Peer(n) \in Nodes /\ Peer(n) # n
         /\ Orderly => \A c \in Caps :
              /\ ~decided[n][c] => c \notin local[n] /\ Silenced(mail[Peer(n)], c, peer[Peer(n)])
              /\ ~decided[Peer(n)][c] => c \notin local[Peer(n)] /\ Silenced(mail[n], c, peer[n])
<1>1. Peer(n) \in Nodes /\ Peer(n) # n /\ Peer(Peer(n)) = n  BY PeerFacts
<1>2. Orderly => Blocked(n) /\ Blocked(Peer(n))  BY <1>1 DEF WantsInv
<1> QED  BY <1>1, <1>2 DEF WantsInv, WantsTypeOK, Blocked

\* set_capability.
LEMMA SetKeeps ==
  ASSUME WantsInv, NEW n \in Nodes, NEW c \in CapIds, NEW on \in BOOLEAN, SetCapability(n, c, on)
  PROVE  WantsInv'
<1> DEFINE l == IF on THEN local[n] \cup {c} ELSE local[n] \ {c}
           p == IF on THEN peer[n] ELSE peer[n] \ {c}
           d == [decided[n] EXCEPT ![c] = on]
           m == CapSet(c, on)
<1>1. WantsAfterSet(local[n], peer[n], c, on)[1] = l
      /\ WantsAfterSet(local[n], peer[n], c, on)[2] = p
  BY DEF WantsAfterSet
<1>2. /\ c \in Caps /\ overtaken' = overtaken
      /\ decided' = [decided EXCEPT ![n] = d]
  <2>1. decided' = [decided EXCEPT ![n][c] = on] /\ c \in Caps  BY DEF SetCapability, Known
  <2> QED  BY <2>1 DEF SetCapability
<1>3. \/ Save(n, l, p, FALSE) /\ mail' = Sent(n, mail, m) /\ Use({"sets"})
      \/ /\ Use({"sets", "crashes"}) /\ UNCHANGED mail
         /\ \E crash \in BOOLEAN : Save(n, l, p, crash)
  BY <1>1 DEF SetCapability
<1>4. l \in SUBSET Caps /\ p \in SUBSET Caps /\ d \in [Caps -> BOOLEAN] /\ m \in Letters
  <2>1. local[n] \in SUBSET Caps /\ peer[n] \in SUBSET Caps /\ decided[n] \in [Caps -> BOOLEAN]
    BY EndFacts
  <2>2. m \in Letters  BY SMT, <1>2 DEF Letters
  <2> QED  BY <1>2, <2>1, <2>2
<1>5. decided' \in [Nodes -> [Caps -> BOOLEAN]] /\ overtaken' \in BOOLEAN
  BY <1>2, <1>4 DEF WantsInv, WantsTypeOK
<1>6. CASE Save(n, l, p, FALSE) /\ mail' = Sent(n, mail, m) /\ Use({"sets"})
  <2>1. used' \in [{"sets", "syncs", "heads", "crashes"} -> Nat]
        /\ (used'.crashes = 0 => used.crashes = 0)
    BY <1>6, Counted DEF WantsInv
  <2>2. /\ HeldOnlyIfEnforced'
        /\ local' \in [Nodes -> SUBSET Caps] /\ peer' \in [Nodes -> SUBSET Caps]
        /\ held' \in [Nodes -> BOOLEAN]
        /\ local' = [local EXCEPT ![n] = l] /\ peer' = [peer EXCEPT ![n] = p]
    BY ZenonT(60), <1>4, <1>6, <2>1, SavingKeeps
  <2>3. Append(mail[Peer(n)], m) \in Seq(Letters)
    <3>1. mail[Peer(n)] \in Seq(Letters)  BY EndFacts
    <3> QED  BY <1>4, <3>1, OfferAppended
  <2>4. /\ mail' \in [Nodes -> Seq(Letters)]
        /\ mail'[n] = mail[n] /\ mail'[Peer(n)] = Append(mail[Peer(n)], m)
    BY <1>6, <2>3, EndFacts DEF Sent, WantsInv, WantsTypeOK
  <2>5. ASSUME Orderly'  PROVE \A k \in Nodes : Blocked(k)'
    <3>1. Orderly  BY <1>2, <2>1, <2>5 DEF Orderly
    <3>2. ASSUME NEW a \in Caps, ~d[a]
          PROVE  a \notin l /\ Silenced(Append(mail[Peer(n)], m), a, peer[Peer(n)])
      <4>1. CASE a = c
        <5>1. ~on  BY <1>2, <3>2, <4>1, EndFacts
        <5> QED  BY <1>4, <4>1, <5>1, EndFacts, SilencedAppend
      <4>2. CASE a # c
        <5>1. ~decided[n][a]  BY <3>2, <4>2, EndFacts
        <5>2. a \notin local[n] /\ Silenced(mail[Peer(n)], a, peer[Peer(n)])
          BY <3>1, <5>1, EndFacts
        <5>3. ~Revives(m, a)  BY <4>2 DEF Revives, CapSet
        <5> QED  BY <1>4, <4>2, <5>2, <5>3, EndFacts, SilencedAppend
      <4> QED  BY <4>1, <4>2
    <3>3. ASSUME NEW a \in Caps, ~decided[Peer(n)][a]
          PROVE  a \notin local[Peer(n)] /\ Silenced(mail[n], a, p)
      BY <3>1, <3>3, EndFacts, SilencedLess
    <3> HIDE DEF l, p, d, m
    <3> QED  BY <1>2, <1>4, <2>2, <2>4, <3>2, <3>3, BlockedMove DEF WantsInv
  <2> QED  BY <1>5, <2>1, <2>2, <2>4, <2>5 DEF WantsInv, WantsTypeOK
<1>7. CASE /\ Use({"sets", "crashes"}) /\ UNCHANGED mail
           /\ \E crash \in BOOLEAN : Save(n, l, p, crash)
  <2> HIDE DEF l, p, d, m
  <2>1. used' \in [{"sets", "syncs", "heads", "crashes"} -> Nat] /\ used'.crashes # 0
    BY <1>7, Counted DEF WantsInv
  <2>2. PICK crash \in BOOLEAN : Save(n, l, p, crash)  BY <1>7
  <2>3. /\ HeldOnlyIfEnforced'
        /\ local' \in [Nodes -> SUBSET Caps] /\ peer' \in [Nodes -> SUBSET Caps]
        /\ held' \in [Nodes -> BOOLEAN]
    <3>1. used'.crashes = 0 => used.crashes = 0 /\ crash = FALSE  BY <2>1
    <3> QED  BY ZenonT(60), <1>4, <2>2, <3>1, SavingKeeps
  <2> QED  BY <1>5, <1>7, <2>1, <2>3 DEF WantsInv, WantsTypeOK, Orderly
<1> QED  BY <1>3, <1>6, <1>7

\* build_sync.
LEMMA SyncKeeps ==
  ASSUME WantsInv, NEW n \in Nodes, SendSync(n)
  PROVE  WantsInv'
<1> DEFINE m == Sync(local[n])
<1>1. mail' = Sent(n, mail, m) /\ Use({"syncs"})
      /\ UNCHANGED <<local, peer, held, decided, overtaken>>
  BY DEF SendSync
<1>2. used' \in [{"sets", "syncs", "heads", "crashes"} -> Nat]
      /\ (used'.crashes = 0 => used.crashes = 0)
  BY <1>1, Counted DEF WantsInv
<1>3. m \in Letters /\ \A c \in Caps : Revives(m, c) => c \in local[n]
  <2>1. local[n] \in SUBSET Caps  BY EndFacts
  <2>2. m \in Letters  BY SMT, <2>1 DEF Letters
  <2>3. m.op = "sync" /\ m.wants = local[n]  BY DEF Sync
  <2> QED  BY <2>2, <2>3 DEF Revives
<1> HIDE DEF m
<1>4. Append(mail[Peer(n)], m) \in Seq(Letters)
  <2>1. mail[Peer(n)] \in Seq(Letters)  BY EndFacts
  <2> QED  BY <1>3, <2>1, OfferAppended
<1>5. /\ mail' \in [Nodes -> Seq(Letters)]
      /\ mail'[n] = mail[n] /\ mail'[Peer(n)] = Append(mail[Peer(n)], m)
  BY <1>1, <1>4, EndFacts DEF Sent, WantsInv, WantsTypeOK
<1>6. HeldOnlyIfEnforced'  BY <1>1, <1>2 DEF HeldOnlyIfEnforced, WantsInv
<1>7. ASSUME Orderly'  PROVE \A k \in Nodes : Blocked(k)'
  <2>1. Orderly  BY <1>1, <1>2, <1>7 DEF Orderly
  <2>2. ASSUME NEW a \in Caps, ~decided[n][a]
        PROVE  a \notin local[n] /\ Silenced(Append(mail[Peer(n)], m), a, peer[Peer(n)])
    BY <1>3, <2>1, <2>2, EndFacts, SilencedAppend
  <2>3. /\ local' = [local EXCEPT ![n] = local[n]] /\ peer' = [peer EXCEPT ![n] = peer[n]]
        /\ decided' = [decided EXCEPT ![n] = decided[n]] /\ decided[n] \in [Caps -> BOOLEAN]
    BY <1>1 DEF WantsInv, WantsTypeOK
  <2>4. \A a \in Caps : ~decided[Peer(n)][a] =>
          a \notin local[Peer(n)] /\ Silenced(mail[n], a, peer[n])
    BY <2>1, EndFacts
  <2> QED  BY <1>5, <2>2, <2>3, <2>4, BlockedMove DEF WantsInv
<1> QED  BY <1>1, <1>2, <1>5, <1>6, <1>7 DEF WantsInv, WantsTypeOK

\* send_attachment.
LEMMA SendHeadKeeps ==
  ASSUME WantsInv, NEW n \in Nodes, SendAttachment(n)
  PROVE  WantsInv'
<1> DEFINE m == AttachHead
<1>1. /\ mail' = Sent(n, mail, m) /\ Use({"heads"}) /\ UNCHANGED <<local, peer, decided, overtaken>>
      /\ held' = [held EXCEPT ![n] = TRUE] /\ Attach \in Enforced(local[n], peer[n])
  BY DEF SendAttachment
<1>2. used' \in [{"sets", "syncs", "heads", "crashes"} -> Nat]
      /\ (used'.crashes = 0 => used.crashes = 0)
  BY <1>1, Counted DEF WantsInv
<1>3. m \in Letters /\ \A c \in Caps : ~Revives(m, c)
  BY SMTT(60) DEF Letters, AttachHead, Revives
<1> HIDE DEF m
<1>4. Append(mail[Peer(n)], m) \in Seq(Letters)
  <2>1. mail[Peer(n)] \in Seq(Letters)  BY EndFacts
  <2> QED  BY <1>3, <2>1, OfferAppended
<1>5. /\ mail' \in [Nodes -> Seq(Letters)]
      /\ mail'[n] = mail[n] /\ mail'[Peer(n)] = Append(mail[Peer(n)], m)
  BY <1>1, <1>4, EndFacts DEF Sent, WantsInv, WantsTypeOK
<1>6. HeldOnlyIfEnforced' /\ held' \in [Nodes -> BOOLEAN]
  BY <1>1, <1>2 DEF HeldOnlyIfEnforced, WantsInv, WantsTypeOK
<1>7. ASSUME Orderly'  PROVE \A k \in Nodes : Blocked(k)'
  <2>1. Orderly  BY <1>1, <1>2, <1>7 DEF Orderly
  <2>2. ASSUME NEW a \in Caps, ~decided[n][a]
        PROVE  a \notin local[n] /\ Silenced(Append(mail[Peer(n)], m), a, peer[Peer(n)])
    BY <1>3, <2>1, <2>2, EndFacts, SilencedAppend
  <2>3. /\ local' = [local EXCEPT ![n] = local[n]] /\ peer' = [peer EXCEPT ![n] = peer[n]]
        /\ decided' = [decided EXCEPT ![n] = decided[n]] /\ decided[n] \in [Caps -> BOOLEAN]
    BY <1>1 DEF WantsInv, WantsTypeOK
  <2>4. \A a \in Caps : ~decided[Peer(n)][a] =>
          a \notin local[Peer(n)] /\ Silenced(mail[n], a, peer[n])
    BY <2>1, EndFacts
  <2> QED  BY <1>5, <2>2, <2>3, <2>4, BlockedMove DEF WantsInv
<1> QED  BY <1>1, <1>2, <1>5, <1>6, <1>7 DEF WantsInv, WantsTypeOK

\* A letter m is read at i: n's wants become l and its belief p, and perhaps a
\* SYNC answers.
LEMMA ReadKeeps ==
  ASSUME WantsInv, NEW n \in Nodes, NEW i \in DOMAIN mail[n],
         NEW l \in SUBSET Caps, NEW p \in SUBSET Caps, NEW reply \in BOOLEAN,
         used' \in [{"sets", "syncs", "heads", "crashes"} -> Nat],
         used'.crashes = 0 => used.crashes = 0,
         HeldOnlyIfEnforced', held' \in [Nodes -> BOOLEAN], UNCHANGED decided,
         local' = [local EXCEPT ![n] = l], peer' = [peer EXCEPT ![n] = p],
         overtaken' = (overtaken \/ i > 1), l \subseteq local[n], reply => l = local[n],
         mail' = IF reply THEN Sent(n, [mail EXCEPT ![n] = Without(@, i)], Sync(local[n]))
                 ELSE [mail EXCEPT ![n] = Without(@, i)],
         \A c \in Caps : c \in p => \/ Revives(mail[n][i], c)
                                    \/ c \in peer[n] /\ mail[n][i] # CapSet(c, FALSE)
  PROVE  WantsInv'
<1> DEFINE qn == Without(mail[n], i)
           m == Sync(local[n])
           qp == IF reply THEN Append(mail[Peer(n)], m) ELSE mail[Peer(n)]
<1>1. qn \in Seq(Letters) /\ (i = 1 => qn = Tail(mail[n])) /\ i \in Nat /\ i >= 1
  BY ZenonT(60), EndFacts, Removed
<1>2. m \in Letters /\ \A c \in Caps : Revives(m, c) => c \in local[n]
  <2>1. local[n] \in SUBSET Caps  BY EndFacts
  <2>2. m \in Letters  BY SMT, <2>1 DEF Letters
  <2>3. m.op = "sync" /\ m.wants = local[n]  BY DEF Sync
  <2> QED  BY <2>2, <2>3 DEF Revives
<1> HIDE DEF m
<1>3. qp \in Seq(Letters)
  <2>1. Append(mail[Peer(n)], m) \in Seq(Letters)
    <3>1. mail[Peer(n)] \in Seq(Letters)  BY EndFacts
    <3> QED  BY <1>2, <3>1, OfferAppended
  <2> QED  BY ZenonT(60), <2>1, EndFacts
<1>4. /\ mail' \in [Nodes -> Seq(Letters)] /\ mail'[n] = qn /\ mail'[Peer(n)] = qp
  BY <1>1, <1>3, EndFacts DEF Sent, WantsInv, WantsTypeOK, m
<1>5. local' \in [Nodes -> SUBSET Caps] /\ peer' \in [Nodes -> SUBSET Caps]
      /\ overtaken' \in BOOLEAN
  BY DEF WantsInv, WantsTypeOK
<1> HIDE DEF qn
<1>6. ASSUME Orderly'  PROVE \A k \in Nodes : Blocked(k)'
  <2>1. Orderly /\ i = 1
    <3>1. ~(overtaken \/ i > 1) /\ used.crashes = 0  BY <1>6 DEF Orderly
    <3> QED  BY SMT, <1>1, <3>1 DEF Orderly
  <2>2. ASSUME NEW a \in Caps, ~decided[n][a]
        PROVE  a \notin l /\ Silenced(qp, a, peer[Peer(n)])
    <3>1. a \notin local[n] /\ Silenced(mail[Peer(n)], a, peer[Peer(n)])  BY <2>1, <2>2, EndFacts
    <3>2. Silenced(Append(mail[Peer(n)], m), a, peer[Peer(n)])
      BY <1>2, <3>1, EndFacts, SilencedAppend
    <3> QED  BY <3>1, <3>2
  <2>3. ASSUME NEW a \in Caps, ~decided[Peer(n)][a]
        PROVE  a \notin local[Peer(n)] /\ Silenced(qn, a, p)
    <3>1. a \notin local[Peer(n)] /\ Silenced(mail[n], a, peer[n])  BY <2>1, <2>3, EndFacts
    <3>2. Silenced(Tail(mail[n]), a, p)  BY <2>1, <3>1, EndFacts, SilencedTail
    <3> QED  BY <1>1, <2>1, <3>1, <3>2
  <2>4. decided' = [decided EXCEPT ![n] = decided[n]] /\ decided[n] \in [Caps -> BOOLEAN]
    BY DEF WantsInv, WantsTypeOK
  <2> HIDE DEF qp
  <2> QED  BY <1>4, <2>2, <2>3, <2>4, BlockedMove DEF WantsInv
<1> QED  BY <1>4, <1>5, <1>6 DEF WantsInv, WantsTypeOK

\* apply_chat_policy and on_attach_head.
LEMMA ReceiveKeeps ==
  ASSUME WantsInv, NEW n \in Nodes, Receive(n)
  PROVE  WantsInv'
<1>1. PICK i \in DOMAIN mail[n] :
        /\ \/ ReceiveCapSet(n, mail[n][i], [mail EXCEPT ![n] = Without(@, i)])
           \/ ReceiveSync(n, mail[n][i], [mail EXCEPT ![n] = Without(@, i)])
           \/ ReceiveHead(n, mail[n][i], [mail EXCEPT ![n] = Without(@, i)])
        /\ overtaken' = (overtaken \/ i > 1)
  BY DEF Receive
<1> DEFINE m == mail[n][i]
           rest == [mail EXCEPT ![n] = Without(@, i)]
<1>2. m \in Letters  BY EndFacts, Removed
<1>3. local[n] \in SUBSET Caps /\ peer[n] \in SUBSET Caps  BY EndFacts
<1>4. ASSUME NEW ks, Use(ks)
      PROVE  /\ used' \in [{"sets", "syncs", "heads", "crashes"} -> Nat]
             /\ used'.crashes = 0 => used.crashes = 0 /\ "crashes" \notin ks
  BY <1>4, Counted DEF WantsInv
<1>5. ASSUME NEW crash \in BOOLEAN, Use(Steps({}, crash))
      PROVE  /\ used' \in [{"sets", "syncs", "heads", "crashes"} -> Nat]
             /\ used'.crashes = 0 => used.crashes = 0 /\ crash = FALSE
  <2>1. crash => "crashes" \in Steps({}, crash)  BY DEF Steps
  <2> QED  BY <1>4, <1>5, <2>1
<1> HIDE DEF m
<1>6. CASE ReceiveCapSet(n, m, rest)
  <2> DEFINE l == IF m.on THEN local[n] ELSE local[n] \ {m.cap}
             p == IF m.on THEN peer[n] \cup {m.cap} ELSE peer[n] \ {m.cap}
  <2>1. WantsAfterPeerSet(local[n], peer[n], m.cap, m.on)[1] = l
        /\ WantsAfterPeerSet(local[n], peer[n], m.cap, m.on)[2] = p
    BY DEF WantsAfterPeerSet
  <2>2. PICK crash \in BOOLEAN : Save(n, l, p, crash) /\ Use(Steps({}, crash))
    BY <1>6, <2>1 DEF ReceiveCapSet
  <2>3. m.op = "cap_set" /\ mail' = rest /\ UNCHANGED decided  BY <1>6 DEF ReceiveCapSet
  <2>4. m.cap \in Caps /\ m.on \in BOOLEAN /\ m = CapSet(m.cap, m.on)  BY <1>2, <2>3, LetterKinds
  <2>5. l \in SUBSET Caps /\ p \in SUBSET Caps /\ l \subseteq local[n]  BY <1>3, <2>4
  <2>6. ASSUME NEW c \in Caps, c \in p
        PROVE  Revives(m, c) \/ (c \in peer[n] /\ m # CapSet(c, FALSE))
    <3>1. CASE m.on /\ c = m.cap  BY <2>3, <3>1 DEF Revives
    <3>2. CASE ~(m.on /\ c = m.cap)
      <4>1. c \in peer[n] /\ ~(m.cap = c /\ ~m.on)  BY <2>4, <2>6, <3>2
      <4>2. m # CapSet(c, FALSE)  BY SMT, <2>4, <4>1 DEF CapSet
      <4> QED  BY <4>1, <4>2
    <3> QED  BY <3>1, <3>2
  <2> HIDE DEF l, p
  <2>7. /\ used' \in [{"sets", "syncs", "heads", "crashes"} -> Nat]
        /\ used'.crashes = 0 => used.crashes = 0 /\ crash = FALSE
    BY <1>5, <2>2
  <2>8. /\ HeldOnlyIfEnforced' /\ held' \in [Nodes -> BOOLEAN]
        /\ local' = [local EXCEPT ![n] = l] /\ peer' = [peer EXCEPT ![n] = p]
    <3>1. Save(n, l, p, crash)  BY <2>2
    <3>2. l \in SUBSET Caps  BY <2>5
    <3>3. p \in SUBSET Caps  BY <2>5
    <3>4. used'.crashes = 0 => used.crashes = 0 /\ crash = FALSE  BY <2>7
    <3>5. CASE crash = TRUE
      <4>1. Save(n, l, p, TRUE) /\ ~(used'.crashes = 0)  BY <3>1, <3>4, <3>5
      <4> QED  BY <3>2, <3>3, <4>1, SavingKeeps
    <3>6. CASE crash = FALSE
      <4>1. Save(n, l, p, FALSE) /\ (used'.crashes = 0 => used.crashes = 0)  BY <3>1, <3>4, <3>6
      <4> QED  BY <3>2, <3>3, <4>1, SavingKeeps
    <3> QED  BY <3>5, <3>6
  <2> QED  BY ZenonT(60), <1>1, <2>3, <2>5, <2>6, <2>7, <2>8, ReadKeeps DEF m
<1>7. CASE ReceiveSync(n, m, rest)
  <2>1. m.op = "sync" /\ UNCHANGED decided  BY <1>7 DEF ReceiveSync
  <2>2. m.wants \in SUBSET Caps  BY <1>2, <2>1, LetterKinds
  <2>3. \A c \in Caps : c \in m.wants => Revives(m, c)  BY <2>1 DEF Revives
  <2>4. PICK crash \in BOOLEAN, reply \in BOOLEAN :
          /\ Save(n, local[n], m.wants, crash)
          /\ mail' = IF reply THEN Sent(n, rest, Sync(local[n])) ELSE rest
          /\ used' \in [{"sets", "syncs", "heads", "crashes"} -> Nat]
          /\ used'.crashes = 0 => used.crashes = 0 /\ crash = FALSE
    <3>1. CASE \E crash \in BOOLEAN :
                 Save(n, local[n], m.wants, crash) /\ mail' = rest /\ Use(Steps({}, crash))
      BY <1>5, <3>1
    <3>2. CASE Save(n, local[n], m.wants, FALSE) /\ mail' = Sent(n, rest, Sync(local[n]))
               /\ Use({"syncs"})
      BY <1>4, <3>2
    <3> QED  BY <1>7, <3>1, <3>2 DEF ReceiveSync
  <2>5. /\ HeldOnlyIfEnforced' /\ held' \in [Nodes -> BOOLEAN]
        /\ local' = [local EXCEPT ![n] = local[n]] /\ peer' = [peer EXCEPT ![n] = m.wants]
    <3> DEFINE l == local[n]
               p == m.wants
    <3>1. Save(n, l, p, crash)  BY <2>4
    <3>2. l \in SUBSET Caps /\ p \in SUBSET Caps  BY <1>3, <2>2
    <3>3. used'.crashes = 0 => used.crashes = 0 /\ crash = FALSE  BY <2>4
    <3> HIDE DEF l, p
    <3>4. /\ HeldOnlyIfEnforced' /\ held' \in [Nodes -> BOOLEAN]
          /\ local' = [local EXCEPT ![n] = l] /\ peer' = [peer EXCEPT ![n] = p]
      <4>1. CASE crash = TRUE
        <5>1. Save(n, l, p, TRUE) /\ ~(used'.crashes = 0)  BY <3>1, <3>3, <4>1
        <5> QED  BY <3>2, <5>1, SavingKeeps
      <4>2. CASE crash = FALSE
        <5>1. Save(n, l, p, FALSE) /\ (used'.crashes = 0 => used.crashes = 0)
          BY <3>1, <3>3, <4>2
        <5> QED  BY <3>2, <5>1, SavingKeeps
      <4> QED  BY <4>1, <4>2
    <3> QED  BY <3>4 DEF l, p
  <2> QED  BY <1>1, <1>3, <2>1, <2>2, <2>3, <2>4, <2>5, ReadKeeps DEF m
<1>8. CASE ReceiveHead(n, m, rest)
  <2>1. /\ m.op = "head" /\ mail' = rest /\ UNCHANGED <<local, peer, decided, used>>
        /\ held' = [held EXCEPT ![n] = @ \/ Attach \in Enforced(local[n], peer[n])]
    BY <1>8 DEF ReceiveHead
  <2>2. HeldOnlyIfEnforced' /\ held' \in [Nodes -> BOOLEAN]
    BY <2>1 DEF HeldOnlyIfEnforced, WantsInv, WantsTypeOK
  <2>3. \A c \in Caps : m # CapSet(c, FALSE)  BY SMT, <2>1 DEF CapSet
  <2>4. /\ local' = [local EXCEPT ![n] = local[n]] /\ peer' = [peer EXCEPT ![n] = peer[n]]
        /\ used' \in [{"sets", "syncs", "heads", "crashes"} -> Nat]
    BY <2>1 DEF WantsInv, WantsTypeOK
  <2>5. /\ mail' = IF FALSE THEN Sent(n, rest, Sync(local[n])) ELSE rest
        /\ UNCHANGED decided /\ (used'.crashes = 0 => used.crashes = 0)
        /\ \A c \in Caps : c \in peer[n] => \/ Revives(m, c)
                                            \/ c \in peer[n] /\ m # CapSet(c, FALSE)
    BY <2>1, <2>3
  <2> QED  BY <1>1, <1>3, <2>2, <2>4, <2>5, ReadKeeps DEF m
<1> QED  BY <1>1, <1>6, <1>7, <1>8 DEF m

\* The invariant holds throughout.
LEMMA WantsInvariance == WantsSpec => []WantsInv
<1>1. WantsInit => WantsInv
  <2> SUFFICES ASSUME WantsInit  PROVE WantsInv
    OBVIOUS
  <2>0. DOMAIN Limit = {"sets", "syncs", "heads", "crashes"}  BY DEF Limit
  <2>1. WantsTypeOK
    <3>1. used \in [{"sets", "syncs", "heads", "crashes"} -> Nat]  BY <2>0 DEF WantsInit
    <3>2. mail \in [Nodes -> Seq(Letters)]  BY SMT DEF WantsInit
    <3>3. /\ local \in [Nodes -> SUBSET Caps] /\ peer \in [Nodes -> SUBSET Caps]
          /\ held \in [Nodes -> BOOLEAN] /\ overtaken \in BOOLEAN
          /\ decided \in [Nodes -> [Caps -> BOOLEAN]]
      BY DEF WantsInit
    <3> QED  BY <3>1, <3>2, <3>3 DEF WantsTypeOK
  <2>2. \A n \in Nodes : Blocked(n)  BY DEF WantsInit, Blocked
  <2>3. HeldOnlyIfEnforced  BY DEF WantsInit, HeldOnlyIfEnforced
  <2> QED  BY <2>1, <2>2, <2>3 DEF WantsInv
<1>2. WantsInv /\ [WantsNext]_wantVars => WantsInv'
  <2> SUFFICES ASSUME WantsInv, [WantsNext]_wantVars  PROVE WantsInv'
    OBVIOUS
  <2>1. CASE UNCHANGED wantVars
    BY <2>1 DEF wantVars, WantsInv, WantsTypeOK, Orderly, Blocked, HeldOnlyIfEnforced
  <2>2. CASE WantsNext
    BY <2>2, SetKeeps, SyncKeeps, SendHeadKeeps, ReceiveKeeps DEF WantsNext
  <2> QED  BY <2>1, <2>2
<1> QED  BY <1>1, <1>2, PTL DEF WantsSpec

\* Either user switches a capability off for both: however many CAP_SETs and
\* SYNCs cross, once all that n sent has arrived in order, what n's user last
\* switched off is enforced at neither end (apply_cap_set, build_sync).
THEOREM OffForBoth == WantsSpec => []OneToDisable
<1>1. WantsInv => OneToDisable
  <2> SUFFICES ASSUME WantsInv, Orderly, NEW n \in Nodes, NEW c \in Caps,
                      ~decided[n][c], mail[Peer(n)] = <<>>, NEW m \in Nodes
               PROVE  c \notin Enforced(local[m], peer[m])
    BY DEF OneToDisable, Orderly
  <2>0. DOMAIN mail[Peer(n)] = {}  BY SMT
  <2>1. c \notin local[n] /\ c \notin peer[Peer(n)]  BY <2>0, EndFacts DEF Silenced
  <2> QED  BY <2>1, PeerFacts DEF Enforced
<1> QED  BY <1>1, WantsInvariance, PTL

\* An engine keeps attachments only while both want them, whatever CAP_SETs,
\* SYNCs and heads overtake each other (erase_attach_messages, on_attach_head).
THEOREM HeldIsEnforced == WantsSpec => []HeldOnlyIfEnforced
<1>1. WantsInv => HeldOnlyIfEnforced  BY DEF WantsInv
<1> QED  BY <1>1, WantsInvariance, PTL
=============================================================================
