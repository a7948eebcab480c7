----------------------------- MODULE MCDelivery -----------------------------
(* Delivery for two engines, Alice and Bob.  MaxEvents bounds what happens  *)
(* to one engine's numbers: the envelopes it sends, the deaths and the      *)
(* sweeps together.                                                         *)
EXTENDS Delivery, TLC

CONSTANTS Alice, Bob, AliceQuota, BobQuota, MaxEvents

MCQuota == Alice :> AliceQuota @@ Bob :> BobQuota

Calm == \A n \in Nodes : (out'[n].floor - 1) + crashes' + sweeps' <= MaxEvents

MCSpec == Init /\ [][Next /\ Calm]_vars /\ Fairness
=============================================================================
