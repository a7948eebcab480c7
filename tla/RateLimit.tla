----------------------------- MODULE RateLimit -----------------------------
(***************************************************************************)
(* The token buckets of ratelimit.rs: RateTables, one lazily refilled      *)
(* bucket per key (a surface and a relationship), under a clock that may   *)
(* jump and run backwards.                                                 *)
(*                                                                         *)
(* The saturating operations of check only differ from the ones here above *)
(* 2^32, where the minimum with the capacity is the same.                  *)
(***************************************************************************)
EXTENDS Integers

CONSTANTS
  Keys,      \* (surface, relationship) pairs
  Capacity,  \* burst capacity
  Refill,    \* tokens per second
  MaxClock   \* bound: the latest clock reading

ASSUME RateAssumption ==
  Capacity \in Nat /\ Refill \in Nat /\ MaxClock \in Nat

VARIABLES
  buckets,  \* buckets[k]: the bucket of k, NoBucket before its first check
  limited,  \* the keys for which note_limited has counted a drop
  from,     \* history: the start of a window, any clock reading
  window,   \* history: window[k] checks of k were granted at or after from
  total     \* history: total[k] checks of k were granted in all

vars == <<buckets, limited, from, window, total>>

Times == 0 .. MaxClock

Smaller(a, b) == IF a <= b THEN a ELSE b

\* TokenBucket::new: a fresh bucket starts full.
NewBucket(now) == [made |-> TRUE, tokens |-> Capacity, last |-> now]

\* No entry in the table yet.
NoBucket == [made |-> FALSE, tokens |-> 0, last |-> 0]

\* Mutant: a clock that ran backwards counts as time passed.
RefilledAlways(b, now) ==
  [b EXCEPT !.tokens = Smaller(Capacity, @ + Refill * (IF now > b.last THEN now - b.last
                                                       ELSE b.last - now)),
            !.last = now]

\* The first half of TokenBucket::check: the tokens of the time since the last
\* refill, up to the capacity.  A clock behind the last refill adds nothing.
Refilled(b, now) ==
  IF now > b.last
    THEN [b EXCEPT !.tokens = Smaller(Capacity, @ + Refill * (now - b.last)),
                   !.last = now]
    ELSE b

-----------------------------------------------------------------------------
Init ==
  /\ buckets = [k \in Keys |-> NoBucket]
  /\ limited = {}
  /\ from \in Times
  /\ window = [k \in Keys |-> 0]
  /\ total = [k \in Keys |-> 0]

\* The bucket RateTables::check finds or makes, refilled.
Found(k, now) ==
  Refilled(IF buckets[k].made THEN buckets[k] ELSE NewBucket(now), now)

\* check takes a token.
Grant(k, now) ==
  /\ Found(k, now).tokens > 0
  /\ buckets' = [buckets EXCEPT ![k] = [Found(k, now) EXCEPT !.tokens = @ - 1]]
  /\ window' = [window EXCEPT ![k] = IF now >= from THEN @ + 1 ELSE @]
  /\ total' = [total EXCEPT ![k] = @ + 1]
  /\ UNCHANGED <<limited, from>>

\* check finds the bucket empty; the drop is counted.
Refuse(k, now) ==
  /\ Found(k, now).tokens = 0
  /\ buckets' = [buckets EXCEPT ![k] = Found(k, now)]
  /\ limited' = limited \cup {k}
  /\ UNCHANGED <<from, window, total>>

Next == \E k \in Keys, now \in Times : Grant(k, now) \/ Refuse(k, now)

Spec == Init /\ [][Next]_vars

-----------------------------------------------------------------------------
(* Properties.                                                             *)

\* Type invariant.
TypeOK ==
  /\ buckets \in [Keys -> [made : BOOLEAN, tokens : 0 .. Capacity, last : Times]]
  /\ limited \subseteq Keys
  /\ from \in Times
  /\ window \in [Keys -> Nat]
  /\ total \in [Keys -> Nat]

\* From any moment on, a key is granted no more than one burst and the refill
\* of the seconds that passed, whatever the clock does: jumps and rollbacks
\* never mint tokens (TokenBucket::check).
GrantsBounded ==
  \A k \in Keys :
    window[k] > 0 =>
      /\ from <= buckets[k].last
      /\ window[k] <= Capacity + Refill * (buckets[k].last - from)

\* Only a key that has used up a whole burst itself is ever limited: the first
\* honest burst always passes, whatever the other keys do (TokenBucket::new,
\* the key of RateTables).
LimitedHadABurst == \A k \in limited : total[k] >= Capacity

\* The inductive invariant.  Before the window nothing is counted; in it every
\* token in the bucket is one that may still be granted.
Inv ==
  /\ TypeOK
  /\ \A k \in Keys :
       IF buckets[k].made
         THEN /\ total[k] + buckets[k].tokens >= Capacity
              /\ IF buckets[k].last < from
                   THEN window[k] = 0
                   ELSE window[k] + buckets[k].tokens
                          <= Capacity + Refill * (buckets[k].last - from)
         ELSE window[k] = 0 /\ total[k] = 0
  /\ LimitedHadABurst
=============================================================================
