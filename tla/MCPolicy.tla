------------------------------ MODULE MCPolicy ------------------------------
(* Chat rules and, on behaviours of their own, capability wants, for two   *)
(* engines.  Neither is special: either proposes, accepts and switches.    *)
EXTENDS PolicyRules, PolicyWants, TLC

CONSTANTS Alice, Bob

VARIABLES
  part  \* which of the two runs

Swap == Permutations({Alice, Bob})

MCInit == RulesInit /\ WantsInit /\ part \in {"rules", "wants"}

MCNext == \/ part = "rules" /\ RulesNext /\ UNCHANGED <<wantVars, part>>
          \/ part = "wants" /\ WantsNext /\ UNCHANGED <<ruleVars, part>>

MCSpec == MCInit /\ [][MCNext]_<<ruleVars, wantVars, part>>
=============================================================================
