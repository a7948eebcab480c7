---------------------------- MODULE PolicyRules ----------------------------
(***************************************************************************)
(* Chat rules: PROPOSE and ACCEPT between the two engines of one           *)
(* relationship (policy/machine.rs, policy/engine.rs, apply_chat_policy of *)
(* engine/inbound.rs) and what a rule does to the expiry of the ledger     *)
(* (policy/store.rs).                                                      *)
(*                                                                         *)
(* A rule is its TTL; the screenshot and download flags travel with it and *)
(* are treated alike.  The envelopes travel as in Delivery: each is        *)
(* dispatched at most once, in any order, perhaps never.  A proposal's id  *)
(* is random and fresh, so proposals are numbered.  expiries[n] holds the  *)
(* expires_at values of n's live messages, NoExpiry standing for NULL.     *)
(***************************************************************************)
EXTENDS Pair, Sequences

CONSTANTS
  Ttls,          \* the allowed TTLs, TTL_NEVER = 0 among them
  Requests,      \* the TTLs a client may ask for
  DefaultTtl,    \* the TTL of a new relationship
  MaxProposals,  \* bound: proposals made
  MaxNow         \* bound: the clock

ASSUME RuleBoundsAssumption ==
  /\ Requests \subseteq Nat /\ Ttls \subseteq Requests /\ DefaultTtl \in Ttls
  /\ MaxProposals \in Nat /\ MaxNow \in Nat

VARIABLES
  ttl,       \* ttl[n]: relationships.policy_ttl_sec at n
  pending,   \* pending[n]: relationships.policy_pending at n
  expiries,  \* expiries[n]: expires_at of n's live messages
  net,       \* PROPOSE and ACCEPT envelopes on their way
  offers,    \* history: offers[id] is proposal id: who made it, and its TTL
  accepted,  \* history: <<id, n>> when n's user accepted proposal id
  basis,     \* history: basis[n] is the id n's rule in force came from
  now,
  crashes

ruleVars == <<ttl, pending, expiries, net, offers, accepted, basis, now, crashes>>

TtlNever == 0

NoExpiry == -1

Ids == 1 .. MaxProposals

NoProposal == [ttl |-> 0, inbound |-> FALSE, id |-> 0]

-----------------------------------------------------------------------------
RulesInit ==
  /\ ttl = [n \in Nodes |-> DefaultTtl]
  /\ pending = [n \in Nodes |-> NoProposal]
  /\ expiries = [n \in Nodes |-> {}]
  /\ net = {}
  /\ offers = <<>>
  /\ accepted = {}
  /\ basis = [n \in Nodes |-> 0]
  /\ now = 0
  /\ crashes = 0

\* expiry_at: the expiry of a message made at t under rule r.
ExpiryAt(r, t) == IF r = TtlNever THEN NoExpiry ELSE t + r

\* The horizon applies only when the rule shrinks the TTL.
Shrinks(old, new) == new # TtlNever /\ (old = TtlNever \/ new < old)

\* Mutant: messages of the TTL_NEVER era are left alone.
ClampKeepsNull(E, horizon) == {IF e > horizon THEN horizon ELSE e : e \in E}

\* clamp_message_expiry.
Clamp(E, horizon) ==
  {IF e = NoExpiry \/ e > horizon THEN horizon ELSE e : e \in E}

\* Mutant: the answered proposal stays pending.
ApplyRulesKeepsPending(n, r, id, end) ==
  /\ ttl' = [ttl EXCEPT ![n] = r]
  /\ UNCHANGED pending
  /\ basis' = [basis EXCEPT ![n] = id]
  /\ expiries' = [expiries EXCEPT ![n] =
                    IF end # "saved" /\ Shrinks(ttl[n], r) THEN Clamp(@, now + r) ELSE @]

\* apply_rules, saved, and apply_outcome.  The engine may die between the two:
\* end is then "saved".
ApplyRules(n, r, id, end) ==
  /\ ttl' = [ttl EXCEPT ![n] = r]
  /\ pending' = [pending EXCEPT ![n] = NoProposal]
  /\ basis' = [basis EXCEPT ![n] = id]
  /\ expiries' = [expiries EXCEPT ![n] =
                    IF end # "saved" /\ Shrinks(ttl[n], r) THEN Clamp(@, now + r) ELSE @]

\* An operation of several statements runs to its end ("done") or the engine
\* dies after the save ("saved") or after the effects ("applied").
Ends(end) ==
  IF end = "done" THEN UNCHANGED crashes
  ELSE crashes < MaxCrashes /\ crashes' = crashes + 1

Propose(n, r, id) == [op |-> "propose", to |-> Peer(n), ttl |-> r, id |-> id]

Accept(n, r, id) == [op |-> "accept", to |-> Peer(n), ttl |-> r, id |-> id]

-----------------------------------------------------------------------------
IsAllowedTtl(r) == r \in Ttls

\* propose_rules: the proposal replaces whatever was pending, then goes out.
ProposeRules(n, r) ==
  LET id == Len(offers) + 1
  IN  /\ IsAllowedTtl(r)
      /\ id \in Ids
      /\ pending' = [pending EXCEPT ![n] = [ttl |-> r, inbound |-> FALSE, id |-> id]]
      /\ offers' = Append(offers, [by |-> n, ttl |-> r])
      /\ \E end \in {"saved", "done"} :
           /\ net' = IF end = "done" THEN net \cup {Propose(n, r, id)} ELSE net
           /\ Ends(end)
      /\ UNCHANGED <<ttl, expiries, accepted, basis, now>>

\* accept_rules: an inbound proposal applies here first, then the ACCEPT goes
\* out.
AcceptRules(n) ==
  LET p == pending[n]
  IN  /\ p.inbound
      /\ \E end \in {"saved", "applied", "done"} :
           /\ ApplyRules(n, p.ttl, p.id, end)
           /\ net' = IF end = "done" THEN net \cup {Accept(n, p.ttl, p.id)} ELSE net
           /\ Ends(end)
      /\ accepted' = accepted \cup {<<p.id, n>>}
      /\ UNCHANGED <<offers, now>>

\* decline_rules: whatever is pending, of either side, is forgotten.
DeclineRules(n) ==
  /\ pending[n] # NoProposal
  /\ pending' = [pending EXCEPT ![n] = NoProposal]
  /\ UNCHANGED <<ttl, expiries, net, offers, accepted, basis, now, crashes>>

\* apply_chat_policy with apply_propose: the newest arrival is pending.
ReceivePropose(m) ==
  /\ m.op = "propose"
  /\ pending' = [pending EXCEPT ![m.to] = [ttl |-> m.ttl, inbound |-> TRUE, id |-> m.id]]
  /\ net' = net \ {m}
  /\ UNCHANGED <<ttl, expiries, offers, accepted, basis, now, crashes>>

\* Mutant: the id of the ACCEPT is not compared.
AnswersAny(p, m) == p # NoProposal /\ ~p.inbound

\* apply_accept takes an ACCEPT of our own unanswered proposal only.
Answers(p, m) == p # NoProposal /\ ~p.inbound /\ p.id = m.id

\* apply_chat_policy with apply_accept.
ReceiveAccept(m) ==
  LET p == pending[m.to]
  IN  /\ m.op = "accept"
      /\ net' = net \ {m}
      /\ IF Answers(p, m)
           THEN \E end \in {"saved", "done"} : ApplyRules(m.to, p.ttl, p.id, end) /\ Ends(end)
           ELSE UNCHANGED <<ttl, pending, expiries, basis, crashes>>
      /\ UNCHANGED <<offers, accepted, now>>

\* A message enters n's ledger, sent or received.
NewMessage(n) ==
  /\ expiries' = [expiries EXCEPT ![n] = @ \cup {ExpiryAt(ttl[n], now)}]
  /\ UNCHANGED <<ttl, pending, net, offers, accepted, basis, now, crashes>>

\* sweep_expired.
Sweep(n) ==
  /\ expiries' = [expiries EXCEPT ![n] = {e \in @ : e = NoExpiry \/ e > now}]
  /\ UNCHANGED <<ttl, pending, net, offers, accepted, basis, now, crashes>>

Tick ==
  /\ now < MaxNow
  /\ now' = now + 1
  /\ UNCHANGED <<ttl, pending, expiries, net, offers, accepted, basis, crashes>>

RulesNext ==
  \/ Tick
  \/ \E n \in Nodes :
       \/ \E r \in Requests : ProposeRules(n, r)
       \/ AcceptRules(n)
       \/ DeclineRules(n)
       \/ NewMessage(n)
       \/ Sweep(n)
  \/ \E m \in net : ReceivePropose(m) \/ ReceiveAccept(m)

RulesSpec == RulesInit /\ [][RulesNext]_ruleVars

-----------------------------------------------------------------------------
(* Properties.                                                             *)

\* A rule in force was proposed by one user and accepted by the other
\* (policy/mod.rs, "change only via PROPOSE + ACCEPT"): the TTL is that of a
\* proposal the proposer's peer accepted, however proposals, declines and
\* late ACCEPTs cross.
RuleWasAgreed ==
  \A n \in Nodes :
    basis[n] # 0 =>
      /\ ttl[n] = offers[basis[n]].ttl
      /\ <<basis[n], Peer(offers[basis[n]].by)>> \in accepted

\* While no engine died between save_policy and clamp_message_expiry, every
\* live message expires within the TTL in force, counted from now, the ones
\* made under an earlier rule included.
ExpiryWithinTtl ==
  \A n \in Nodes :
    (crashes = 0 /\ ttl[n] # TtlNever) =>
      \A e \in expiries[n] : e # NoExpiry /\ e <= now + ttl[n]

\* A proposal its maker still waits on, and the peer has accepted, has its
\* ACCEPT on the way: without a crash, waiting is never in vain (accept_rules,
\* apply_accept).
AcceptIsOnItsWay ==
  \A id \in DOMAIN offers :
    LET n == offers[id].by
        p == pending[n]
    IN  (crashes = 0 /\ ~p.inbound /\ p.id = id /\ <<id, Peer(n)>> \in accepted)
          => Accept(Peer(n), p.ttl, id) \in net
=============================================================================
