------------------------------- MODULE MCHost ------------------------------
(* What lies beneath the engine, for TLC: the sender, the inbound path, a   *)
(* control connection and the vault.  They share no state, so a behaviour   *)
(* is one of them at work: `part`.                                          *)
EXTENDS Sender, Inbound, Control, MCVault

VARIABLE part

vars == <<part, sender, inbound, controlVars, vaultVars>>

MCInit ==
  /\ part \in {"send", "receive", "control", "vault"}
  /\ SenderInit /\ InboundInit /\ ControlInit
  /\ VaultInit /\ (part # "vault" => disk = Fresh("absent"))

MCNext ==
  /\ UNCHANGED part
  /\ \/ part = "send" /\ SenderNext /\ UNCHANGED <<inbound, controlVars, vaultVars>>
     \/ part = "receive" /\ InboundNext /\ UNCHANGED <<sender, controlVars, vaultVars>>
     \/ part = "control" /\ ControlNext /\ UNCHANGED <<sender, inbound, vaultVars>>
     \/ part = "vault" /\ VaultNext /\ UNCHANGED <<sender, inbound, controlVars>>

MCSpec == MCInit /\ [][MCNext]_vars

\* Line sequences of a reply: one line, several, a data block.
MCShapes == {<<"end">>, <<"more", "end">>, <<"data", "text", "dot", "end">>}

=============================================================================
