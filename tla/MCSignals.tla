----------------------------- MODULE MCSignals -----------------------------
(* Signals between two devices; and, on behaviours of their own, the token *)
(* buckets.                                                                *)
EXTENDS Signals, RateLimit

VARIABLES
  part  \* which of the two runs

MCInit == /\ SignalsInit /\ Init /\ part \in {"signals", "rate"}
          /\ IF part = "signals" THEN from = 0 ELSE here.caps

MCNext == \/ part = "signals" /\ SignalsNext /\ UNCHANGED <<vars, part>>
          \/ part = "rate" /\ Next /\ UNCHANGED <<signals, part>>

MCSpec == MCInit /\ [][MCNext]_<<signals, vars, part>> /\ (part = "signals" => SignalsFairness)
=============================================================================
