----------------------------- MODULE Tor_proofs -----------------------------
(***************************************************************************)
(* The supervision of tor, for every number of versions, restarts, failed  *)
(* connects and faults, and one control connection, for every number of    *)
(* commands and every set of reply shapes.                                 *)
(*                                                                         *)
(* KillSwitchHolds is inductive with the types.  ServedIsHosted is not: it *)
(* speaks of the moments at which nobody is publishing, so the invariant   *)
(* says what is true at every await in between (Orderly), and that the     *)
(* health loop publishes only while it is online and tor is bootstrapped   *)
(* (LoopInv).                                                              *)
(*                                                                         *)
(* On the connection, the answers tor gives and the waiters stay in step.  *)
(*   src/crates/core/src/transport/control/{mod,reply}.rs                  *)
(***************************************************************************)
EXTENDS Supervisor, Control, TLAPS

\* A leaf is for Zenon unless it names another prover.
USE Zenon

-----------------------------------------------------------------------------
(* The supervision *)

\* What publish_pending does for a caller: the version it read, and whether it is
\* from before a reconnect.
Jobs == [at : {"idle", "del", "add", "mark", "drop"}, ver : Nat, old : BOOLEAN]

SupTypeOK ==
  /\ kill \in BOOLEAN /\ disabled \in BOOLEAN /\ booted \in BOOLEAN /\ sound \in BOOLEAN
  /\ pub \in BOOLEAN /\ online \in BOOLEAN /\ slipped \in BOOLEAN /\ raced \in BOOLEAN
  /\ live \in Nat /\ entry \in Nat /\ hosts \in Nat
  /\ job \in [Callers -> Jobs]

\* Publishers that nothing was replaced under.
Marking == \E p \in Callers : job[p].at = "mark"
Adding == \E p \in Callers : job[p].at = "add"
Dropping == job["engine"].at = "drop"
Replacing == job["engine"].at = "del"

\* While nothing was replaced under a publisher, every job is of the entry in the
\* map, and what tor serves is that entry, or what the job under way will drop.
Orderly ==
  /\ \A p \in Callers :
       /\ ~job[p].old
       /\ job[p].at \in {"del", "add", "mark"} => job[p].ver = entry /\ entry # 0
  /\ Dropping => pub /\ live = 0 /\ Free("loop")
  /\ sound =>
       /\ \/ live \in {0, entry}
          \/ Replacing /\ job["loop"].at \in {"idle", "del"} /\ ~pub
       /\ live # 0 => pub \/ Marking \/ Replacing
       /\ pub \/ Marking => live = entry \/ Adding \/ Dropping

\* The health loop publishes only while it runs and is online, and nothing is
\* served, or about to be, before a bootstrap.
LoopInv ==
  /\ job["loop"].at # "drop"
  /\ online => sup = "running"
  /\ ~Free("loop") => sup = "running" /\ pc = "publishing"
  /\ pc \in {"exitRestart", "pollRestart", "heal", "rejoin"} => ~online
  /\ online => booted \/ (pc = "poll" /\ ~sound)
  /\ \A p \in Callers : job[p].at \in {"del", "add"} /\ ~job[p].old /\ sound => booted
  /\ live # 0 => booted

\* The inductive invariant: ServedIsHosted needs the order of the jobs, and the
\* order needs to know where the loop is.
SupInv == SupTypeOK /\ KillSwitchHolds /\ LoopInv /\ (~raced => Orderly)

-----------------------------------------------------------------------------
(* Jobs *)

\* The fields of a job.
LEMMA JobFields ==
  ASSUME NEW j \in Jobs
  PROVE  /\ j.at \in {"idle", "del", "add", "mark", "drop"} /\ j.ver \in Nat /\ j.old \in BOOLEAN
BY DEF Jobs

\* A caller that is not publishing.
LEMMA IdleFacts == Idle \in Jobs /\ Idle.at = "idle" /\ ~Idle.old
<1>1. 0 \in Nat  BY SMT
<1> QED  BY <1>1 DEF Idle, Jobs

\* A publisher goes on to k.
LEMMA GoesOn ==
  ASSUME job \in [Callers -> Jobs], NEW p \in Callers, NEW k \in {"add", "mark", "drop"},
         job' = [job EXCEPT ![p].at = k]
  PROVE  /\ job' \in [Callers -> Jobs] /\ job'[p].at = k /\ job'[p].ver = job[p].ver
         /\ job'[p].old = job[p].old
         /\ \A q \in Callers : q # p => job'[q] = job[q]
<1>1. PICK j : j = [job[p] EXCEPT !.at = k]  OBVIOUS
<1>2. j \in Jobs /\ j.at = k /\ j.ver = job[p].ver /\ j.old = job[p].old  BY <1>1 DEF Jobs
<1>3. job' = [job EXCEPT ![p] = j]  BY <1>1
<1> QED  BY <1>2, <1>3

\* publish_pending reads the entry.
LEMMA Snaps ==
  ASSUME job \in [Callers -> Jobs], NEW p \in Callers, NEW v \in Nat, job' = Snapshot(p, v)
  PROVE  /\ job' \in [Callers -> Jobs] /\ job'[p].at = "del" /\ job'[p].ver = v
         /\ ~job'[p].old
         /\ \A q \in Callers : q # p => job'[q] = job[q]
<1>1. PICK j : j = [at |-> "del", ver |-> v, old |-> FALSE]  OBVIOUS
<1>2. j \in Jobs /\ j.at = "del" /\ j.ver = v /\ ~j.old  BY <1>1 DEF Jobs
<1>3. job' = [job EXCEPT ![p] = j]  BY <1>1 DEF Snapshot
<1> QED  BY <1>2, <1>3

\* publish_pending returns.
LEMMA Idles ==
  ASSUME job \in [Callers -> Jobs], NEW p \in Callers, job' = [job EXCEPT ![p] = Idle]
  PROVE  /\ job' \in [Callers -> Jobs] /\ job'[p] = Idle
         /\ \A q \in Callers : q # p => job'[q] = job[q]
BY IdleFacts

\* connect_control starts without services, and outdates every job.
LEMMA Reconnects ==
  ASSUME SupTypeOK, Connected
  PROVE  /\ sound' = TRUE /\ live' = 0 /\ pub' = FALSE /\ raced' \in BOOLEAN
         /\ job' \in [Callers -> Jobs]
         /\ \A p \in Callers : /\ job'[p].at = job[p].at
                               /\ job'[p].at # "idle" => job'[p].old
         /\ ~raced' => ~raced /\ \A p \in Callers : job'[p] = Idle
<1>1. job \in [Callers -> Jobs]  BY DEF SupTypeOK
<1>2. ASSUME NEW p \in Callers
      PROVE  /\ job'[p] \in Jobs /\ job'[p].at = job[p].at /\ (job'[p].at # "idle" => job'[p].old)
  <2>1. CASE job[p].at = "idle"
    <3>1. job'[p] = Idle  BY <2>1 DEF Connected
    <3> QED  BY <2>1, <3>1, IdleFacts
  <2>2. CASE job[p].at # "idle"
    <3>1. job'[p] = [job[p] EXCEPT !.old = TRUE]  BY <2>2 DEF Connected
    <3> QED  BY <1>1, <3>1 DEF Jobs
  <2> QED  BY <2>1, <2>2
<1>3. job' = [p \in Callers |-> job'[p]]  BY DEF Connected
<1>4. job' \in [Callers -> Jobs]  BY <1>2, <1>3
<1>5. raced' = (raced \/ \E p \in Callers : ~Free(p))  BY DEF Connected
<1>6. raced' \in BOOLEAN  BY <1>5
<1>7. ~raced' => ~raced /\ \A p \in Callers : job'[p] = Idle
  BY <1>5 DEF Connected, Free
<1> QED  BY <1>2, <1>4, <1>6, <1>7 DEF Connected

-----------------------------------------------------------------------------
(* The steps *)

\* The step touches neither a connection, nor a service, nor a publisher.
Quiet == UNCHANGED <<sound, live, entry, pub, hosts, job, raced>>

\* The connection is gone.
Offline == sound' = FALSE /\ live' = 0 /\ UNCHANGED <<entry, pub, hosts, raced>>

\* The steps of the switch, the network, tor and the loop that touch no service.
LEMMA QuietSteps ==
  /\ \A on \in BOOLEAN : KillSwitch(on) => Quiet
  /\ NetworkLost \/ RoamingReset \/ RoamingEnds \/ CooldownEnds \/ WindowSlides => Quiet
  /\ Tick_Killed \/ Tick_Exited \/ Poll_Booting \/ Poll_Failed \/ Heal \/ Boots => Quiet
  /\ \A f, u \in 0..HsFailMin : Tick_HsWindow(f, u) => Quiet
  /\ Start_NoDaemon /\ UNCHANGED <<entry, hosts>> => Quiet
  /\ UNCHANGED vars => Quiet
<1>1. \A on \in BOOLEAN : KillSwitch(on) => Quiet
  BY DEF KillSwitch, control, service, Quiet
<1>2. NetworkLost \/ RoamingReset \/ RoamingEnds \/ CooldownEnds \/ WindowSlides => Quiet
  BY DEF NetworkLost, RoamingReset, RoamingEnds, CooldownEnds, WindowSlides, control, service,
     counted, Quiet
<1>3. Tick_Killed \/ Tick_Exited \/ Poll_Booting => Quiet
  BY DEF Tick_Killed, Tick_Exited, Poll_Booting, Polling, Loop, control, service, counted, Quiet
<1>4. Poll_Failed \/ Heal \/ Boots => Quiet
  BY DEF Poll_Failed, Polling, Heal, Boots, Loop, control, service, counted, Quiet
<1>5. \A f, u \in 0..HsFailMin : Tick_HsWindow(f, u) => Quiet
  BY DEF Tick_HsWindow, Loop, control, Quiet
<1>6. Start_NoDaemon /\ UNCHANGED <<entry, hosts>> => Quiet
  BY DEF Start_NoDaemon, control, Quiet
<1>7. UNCHANGED vars => Quiet
  BY DEF vars, control, service, counted, Quiet
<1> QED  BY <1>1, <1>2, <1>3, <1>4, <1>5, <1>6, <1>7

\* What loses the connection leaves the map and the engine's job alone.
LEMMA CutSteps ==
  ASSUME SupTypeOK, TorExits \/ ConnectionDrops \/ Restart \/ Stop
  PROVE  Offline /\ job' \in [Callers -> Jobs]
         /\ (job' = job \/ (job'["loop"] = Idle /\ job'["engine"] = job["engine"]))
<1>1. job \in [Callers -> Jobs]  BY DEF SupTypeOK
<1>2. CASE TorExits \/ ConnectionDrops
  BY <1>1, <1>2 DEF TorExits, ConnectionDrops, service, Offline
<1>3. CASE Restart
  BY <1>1, <1>3 DEF Restart, Loop, Spawned, NotSpawned, Offline
<1>4. CASE Stop
  <2>1. Offline /\ job' = [job EXCEPT !["loop"] = Idle]
    BY <1>4 DEF Stop, NotSpawned, service, counted, Offline
  <2>2. "loop" \in Callers /\ "engine" \in Callers  BY DEF Callers
  <2> QED  BY <1>1, <2>1, <2>2, Idles
<1> QED  BY <1>2, <1>3, <1>4

\* start() with the daemon up leaves the connection it had; it is not counted
\* as a new one before connect_control.
LEMMA NoControlSteps ==
  ASSUME SupTypeOK, Start_NoControl, UNCHANGED <<entry, hosts>>
  PROVE  UNCHANGED job /\ (Quiet \/ Offline)
BY DEF Start_NoControl, Spawned, control, Quiet, Offline

-----------------------------------------------------------------------------
(* Types *)

\* The switches stay switches.
LEMMA BitsKeep ==
  ASSUME SupTypeOK, [Next]_vars
  PROVE  /\ kill' \in BOOLEAN /\ disabled' \in BOOLEAN /\ booted' \in BOOLEAN
         /\ online' \in BOOLEAN /\ slipped' \in BOOLEAN
<1> DEFINE Bits == /\ kill' \in BOOLEAN /\ disabled' \in BOOLEAN /\ booted' \in BOOLEAN
                   /\ online' \in BOOLEAN /\ slipped' \in BOOLEAN
<1> SUFFICES Bits  OBVIOUS
<1>1. ASSUME NEW on \in BOOLEAN, KillSwitch(on)  PROVE Bits
  BY <1>1 DEF KillSwitch, SupTypeOK
<1>2. CASE NetworkLost \/ RoamingReset \/ RoamingEnds \/ CooldownEnds \/ WindowSlides
  BY <1>2 DEF NetworkLost, RoamingReset, RoamingEnds, CooldownEnds, WindowSlides, counted, SupTypeOK
<1>3. CASE Tick_Killed \/ Tick_Exited \/ Poll_Booting
  BY <1>3 DEF Tick_Killed, Tick_Exited, Poll_Booting, Polling, Loop, counted, SupTypeOK
<1>4. CASE Poll_Failed \/ Heal \/ Boots
  BY <1>4 DEF Poll_Failed, Polling, Heal, Boots, Loop, counted, SupTypeOK
<1>5. ASSUME NEW f \in 0..HsFailMin, NEW u \in 0..HsFailMin, Tick_HsWindow(f, u)  PROVE Bits
  BY <1>5 DEF Tick_HsWindow, Loop, SupTypeOK
<1>6. CASE TorExits \/ ConnectionDrops  BY <1>6 DEF TorExits, ConnectionDrops, SupTypeOK
<1>7. CASE Restart  BY <1>7 DEF Restart, Loop, Spawned, NotSpawned, SupTypeOK
<1>8. CASE Stop  BY <1>8 DEF Stop, NotSpawned, counted, SupTypeOK
<1>9. CASE Start
  <2>1. CASE Start_Done  BY <1>9, <2>1 DEF Start, Start_Done, SupTypeOK
  <2>2. CASE Start_NoDaemon  BY <1>9, <2>2 DEF Start, Start_NoDaemon, SupTypeOK
  <2>3. CASE Start_NoControl  BY <1>9, <2>3 DEF Start, Start_NoControl, Spawned, SupTypeOK
  <2>4. CASE Start_NotDisabled  BY <1>9, <2>4 DEF Start, Start_NotDisabled, SupTypeOK
  <2> QED  BY <1>9, <2>1, <2>2, <2>3, <2>4 DEF Start
<1>10. CASE Rejoin \/ Poll_Up  BY <1>10 DEF Rejoin, Poll_Up, Polling, Loop, SupTypeOK
<1>11. ASSUME NEW p \in Callers, Publish(p)  PROVE Bits
  BY <1>11 DEF Publish, Publish_Del, Publish_Add, Publish_Mark, Publishing, SupTypeOK
<1>12. CASE Host \/ Remove \/ Remove_Entry
  BY <1>12 DEF Host, Remove, Remove_Entry, Engine, SupTypeOK
<1>13. CASE UNCHANGED vars  BY <1>13 DEF vars, counted, SupTypeOK
<1> HIDE DEF Bits
<1> QED
  BY <1>1, <1>2, <1>3, <1>4, <1>5, <1>6, <1>7, <1>8, <1>9, <1>10, <1>11, <1>12, <1>13
     DEF Next, HealthLoop, Environment, User

\* The kill switch.
LEMMA SwitchKeeps ==
  ASSUME SupTypeOK, KillSwitchHolds, [Next]_vars  PROVE KillSwitchHolds'
<1>1. ASSUME NEW on \in BOOLEAN, KillSwitch(on)  PROVE KillSwitchHolds'
  <2>1. kill' = on /\ proc' = proc  BY <1>1 DEF KillSwitch
  <2>2. CASE sound /\ disabled' = on  BY <2>1, <2>2 DEF KillSwitchHolds
  <2>3. CASE disabled' = disabled /\ slipped' = (on /\ proc = "up" /\ ~disabled)
    BY <2>1, <2>3 DEF KillSwitchHolds
  <2>4. CASE slipped' = on  BY <2>1, <2>4 DEF KillSwitchHolds
  <2> QED  BY <1>1, <2>2, <2>3, <2>4 DEF KillSwitch
<1>2. CASE NetworkLost \/ RoamingReset \/ RoamingEnds \/ CooldownEnds \/ WindowSlides
  BY <1>2 DEF NetworkLost, RoamingReset, RoamingEnds, CooldownEnds, WindowSlides, counted,
     KillSwitchHolds
<1>3. CASE Tick_Killed \/ Tick_Exited \/ Poll_Booting
  BY <1>3 DEF Tick_Killed, Tick_Exited, Poll_Booting, Polling, Loop, counted, KillSwitchHolds
<1>4. CASE Poll_Failed \/ Heal \/ Boots
  BY <1>4 DEF Poll_Failed, Polling, Heal, Boots, Loop, counted, KillSwitchHolds
<1>5. ASSUME NEW f \in 0..HsFailMin, NEW u \in 0..HsFailMin, Tick_HsWindow(f, u)
      PROVE  KillSwitchHolds'
  BY <1>5 DEF Tick_HsWindow, Loop, KillSwitchHolds
<1>6. CASE TorExits \/ ConnectionDrops  BY <1>6 DEF TorExits, ConnectionDrops, KillSwitchHolds
<1>7. CASE Restart  BY <1>7 DEF Restart, Loop, Spawned, NotSpawned, KillSwitchHolds
<1>8. CASE Stop  BY <1>8 DEF Stop, NotSpawned, counted, KillSwitchHolds
<1>9. CASE Start
  <2>1. CASE Start_Done  BY <1>9, <2>1 DEF Start, Start_Done, KillSwitchHolds
  <2>2. CASE Start_NoDaemon  BY <1>9, <2>2 DEF Start, Start_NoDaemon, KillSwitchHolds
  <2>3. CASE Start_NoControl  BY <1>9, <2>3 DEF Start, Start_NoControl, Spawned, KillSwitchHolds
  <2>4. CASE Start_NotDisabled  BY <1>9, <2>4 DEF Start, Start_NotDisabled, KillSwitchHolds
  <2> QED  BY <1>9, <2>1, <2>2, <2>3, <2>4 DEF Start
<1>10. CASE Rejoin \/ Poll_Up  BY <1>10 DEF Rejoin, Poll_Up, Polling, Loop, KillSwitchHolds
<1>11. ASSUME NEW p \in Callers, Publish(p)  PROVE KillSwitchHolds'
  BY <1>11 DEF Publish, Publish_Del, Publish_Add, Publish_Mark, Publishing, KillSwitchHolds
<1>12. CASE Host \/ Remove \/ Remove_Entry
  BY <1>12 DEF Host, Remove, Remove_Entry, Engine, KillSwitchHolds
<1>13. CASE UNCHANGED vars  BY <1>13 DEF vars, counted, KillSwitchHolds
<1> QED
  BY <1>1, <1>2, <1>3, <1>4, <1>5, <1>6, <1>7, <1>8, <1>9, <1>10, <1>11, <1>12, <1>13
     DEF Next, HealthLoop, Environment, User

-----------------------------------------------------------------------------
(* The loop *)

\* LoopInv after a step that touches no service: it may only leave the loop where
\* it is, send a tick on, or take it offline.
LEMMA LoopQuiet ==
  ASSUME SupTypeOK, LoopInv, Quiet, booted => booted',
         online' => online /\ (pc' = pc \/ (pc = "tick" /\ pc' \in {"poll", "hsRestart"}))
                           /\ sup' = sup,
         ~online' \/ pc' \notin {"exitRestart", "pollRestart", "heal", "rejoin"},
         Free("loop") \/ (pc' = pc /\ sup' = sup)
  PROVE  LoopInv'
<1>1. /\ job' = job /\ sound' = sound /\ live' = live  BY DEF Quiet
<1>2. online' => booted' \/ (pc' = "poll" /\ ~sound')  BY <1>1 DEF LoopInv
<1>3. /\ ~Free("loop")' => sup' = "running" /\ pc' = "publishing"
      /\ job'["loop"].at # "drop"
  BY <1>1 DEF LoopInv, Free
<1>4. online' => sup' = "running"  BY DEF LoopInv
<1>5. /\ \A p \in Callers : job'[p].at \in {"del", "add"} /\ ~job'[p].old /\ sound' => booted'
      /\ live' # 0 => booted'
  BY <1>1 DEF LoopInv
<1> QED  BY <1>2, <1>3, <1>4, <1>5 DEF LoopInv

\* Every such step is of that kind.
LEMMA LoopKeepsQuiet ==
  ASSUME SupTypeOK, LoopInv,
         \/ \E on \in BOOLEAN : KillSwitch(on)
         \/ NetworkLost \/ RoamingReset \/ RoamingEnds \/ CooldownEnds \/ WindowSlides
         \/ Tick_Killed \/ Tick_Exited \/ Poll_Booting \/ Poll_Failed \/ Heal \/ Boots
         \/ \E f, u \in 0..HsFailMin : Tick_HsWindow(f, u)
         \/ Start /\ Start_NoDaemon
         \/ UNCHANGED vars
  PROVE  LoopInv'
<1> DEFINE Goal ==
      /\ booted => booted'
      /\ online' => /\ online /\ sup' = sup
                    /\ pc' = pc \/ (pc = "tick" /\ pc' \in {"poll", "hsRestart"})
      /\ ~online' \/ pc' \notin {"exitRestart", "pollRestart", "heal", "rejoin"}
      /\ Free("loop") \/ (pc' = pc /\ sup' = sup)
<1>1. Quiet  BY QuietSteps DEF Start
<1>2. pc \in {"exitRestart", "pollRestart", "heal", "rejoin"} => ~online  BY DEF LoopInv
<1>3. pc \in {"tick", "poll", "heal"} => Free("loop")  BY DEF LoopInv
<1>4. ASSUME NEW on \in BOOLEAN, KillSwitch(on)  PROVE Goal
  BY <1>2, <1>4 DEF KillSwitch
<1>5. ASSUME NetworkLost \/ RoamingReset \/ RoamingEnds \/ CooldownEnds \/ WindowSlides
      PROVE  Goal
  BY SMT, <1>2, <1>5 DEF NetworkLost, RoamingReset, RoamingEnds, CooldownEnds, WindowSlides
<1>6. ASSUME Tick_Killed \/ Tick_Exited \/ Poll_Booting  PROVE Goal
  BY SMT, <1>3, <1>6 DEF Tick_Killed, Tick_Exited, Poll_Booting, Polling, Loop
<1>7. ASSUME Poll_Failed  PROVE Goal  BY <1>3, <1>7 DEF Poll_Failed, Polling, Loop
<1>8. ASSUME Heal  PROVE Goal  BY <1>2, <1>3, <1>8 DEF Heal, Loop
<1>9. ASSUME Boots  PROVE Goal  BY <1>2, <1>9 DEF Boots
<1>10. ASSUME NEW f \in 0..HsFailMin, NEW u \in 0..HsFailMin, Tick_HsWindow(f, u)  PROVE Goal
  <2>1. /\ pc = "tick" /\ pc' \in {"poll", "hsRestart"} /\ online' = online /\ booted' = booted
        /\ sup' = sup
    BY <1>10 DEF Tick_HsWindow, Loop, RunHeal
  <2> QED  BY <1>3, <2>1
<1>11. ASSUME Start, Start_NoDaemon  PROVE Goal
  BY <1>2, <1>11 DEF Start, Start_NoDaemon
<1>12. ASSUME UNCHANGED vars  PROVE Goal  BY <1>2, <1>12 DEF vars
<1> HIDE DEF Goal
<1>13. Goal  BY <1>4, <1>5, <1>6, <1>7, <1>8, <1>9, <1>10, <1>11, <1>12
<1> QED  BY <1>1, <1>13, LoopQuiet DEF Goal

\* LoopInv when tor exits, the connection drops, or the daemon is restarted or
\* stopped.
LEMMA LoopCut ==
  ASSUME SupTypeOK, LoopInv, TorExits \/ ConnectionDrops \/ Restart \/ Stop  PROVE LoopInv'
<1>1. /\ ~sound' /\ live' = 0
      /\ \/ job' = job
         \/ job'["loop"] = Idle /\ job'["engine"] = job["engine"]
  BY CutSteps DEF Offline
<1>2. pc \in {"exitRestart", "pollRestart", "hsRestart"} => Free("loop")  BY DEF LoopInv
<1>3. CASE TorExits \/ ConnectionDrops
  <2>1. UNCHANGED <<job, booted, online, sup, pc>>  BY <1>3 DEF TorExits, ConnectionDrops
  <2> QED  BY <1>1, <2>1 DEF LoopInv, Free
<1>4. CASE Restart
  <2>1. UNCHANGED <<job, online, sup>> /\ Loop /\ pc \in {"exitRestart", "hsRestart", "pollRestart"}
        /\ pc' = IF pc = "hsRestart" THEN "poll" ELSE "rejoin"
    BY <1>4 DEF Restart, Loop
  <2> QED  BY <1>1, <1>2, <2>1 DEF LoopInv, Free
<1>5. CASE Stop
  <2>1. ~online' /\ job'["loop"] = Idle
    <3>1. "loop" \in Callers /\ job \in [Callers -> Jobs]  BY DEF Callers, SupTypeOK
    <3> QED  BY <1>5, <3>1 DEF Stop
  <2> QED  BY <1>1, <2>1, IdleFacts DEF LoopInv, Free
<1> QED  BY <1>3, <1>4, <1>5

\* start() keeps LoopInv: the loop is at its first tick, offline.
LEMMA LoopStarts ==
  ASSUME SupTypeOK, LoopInv, Start  PROVE LoopInv'
<1>1. ~online /\ ~online' /\ Free("loop")  BY DEF Start, LoopInv
<1>2. CASE Start_Done \/ Start_NotDisabled
  <2>1. Connected  BY <1>2 DEF Start_Done, Start_NotDisabled
  <2>2. /\ live' = 0
        /\ \A p \in Callers : job'[p].at = job[p].at /\ (job'[p].at # "idle" => job'[p].old)
    BY <2>1, Reconnects
  <2>3. "loop" \in Callers  BY DEF Callers
  <2> QED  BY <1>1, <2>2, <2>3 DEF LoopInv, Free
<1>3. CASE Start_NoDaemon  BY <1>3, LoopKeepsQuiet
<1>4. CASE Start_NoControl
  <2>1. UNCHANGED <<entry, hosts>>  BY DEF Start
  <2>2. UNCHANGED job /\ (Quiet \/ Offline)  BY <1>4, <2>1, NoControlSteps
  <2>3. CASE Quiet /\ booted' = booted
    BY <1>1, <2>2, <2>3 DEF LoopInv, Free, Quiet
  <2>4. CASE Offline  BY <1>1, <2>2, <2>4 DEF LoopInv, Free, Offline
  <2>5. Offline \/ (Quiet /\ booted' = booted)
    BY <1>4, <2>1, <2>2 DEF Start_NoControl, Spawned, Offline
  <2> QED  BY <2>3, <2>4, <2>5
<1> QED  BY <1>2, <1>3, <1>4 DEF Start

\* The loop's reconnect keeps LoopInv.
LEMMA LoopRejoins ==
  ASSUME SupTypeOK, LoopInv, Rejoin  PROVE LoopInv'
<1>1. ~online /\ ~online' /\ Free("loop")  BY DEF Rejoin, Loop, LoopInv
<1>2. CASE Connected
  <2>1. /\ live' = 0
        /\ \A p \in Callers : job'[p].at = job[p].at /\ (job'[p].at # "idle" => job'[p].old)
    BY <1>2, Reconnects
  <2>2. "loop" \in Callers  BY DEF Callers
  <2> QED  BY <1>1, <2>1, <2>2 DEF LoopInv, Free
<1>3. CASE UNCHANGED <<sound, live, job>> /\ booted' = booted
  BY <1>1, <1>3 DEF LoopInv, Free
<1> QED  BY <1>2, <1>3 DEF Rejoin, control

\* The loop goes online and publishes only after a bootstrap.
LEMMA LoopPolls ==
  ASSUME SupTypeOK, LoopInv, Poll_Up  PROVE LoopInv'
<1>1. /\ online' /\ sup' = "running" /\ booted' /\ UNCHANGED <<sound, live>>
  BY DEF Poll_Up, Polling, Loop, control
<1>2. "loop" \in Callers /\ entry \in Nat /\ job \in [Callers -> Jobs]  BY DEF Callers, SupTypeOK
<1>3. Free("loop")  BY DEF Poll_Up, Polling, LoopInv
<1>4. \/ job' = Snapshot("loop", entry) /\ pc' = "publishing"
      \/ job' = job /\ pc' = "tick"
  BY DEF Poll_Up
<1>5. CASE job' = Snapshot("loop", entry) /\ pc' = "publishing"
  <2>1. job'["loop"].at = "del"  BY <1>2, <1>5, Snaps
  <2> QED  BY <1>1, <1>5, <2>1 DEF LoopInv, Free
<1>6. CASE job' = job /\ pc' = "tick"  BY <1>1, <1>3, <1>6 DEF LoopInv, Free
<1> QED  BY <1>4, <1>5, <1>6

\* LoopInv when a publisher that is under way goes on or returns.
LEMMA LoopGoesOn ==
  ASSUME SupTypeOK, LoopInv, NEW p \in Callers, Publishing(p), ~Free(p),
         job'[p].at \in {"idle", "add", "mark"},
         job'[p].at = "add" => job[p].at = "del" /\ job'[p].old = job[p].old,
         \A q \in Callers : q # p => job'[q] = job[q],
         live' # 0 => booted,
         pc' = pc \/ (p = "loop" /\ pc' = "tick" /\ job'[p].at = "idle")
  PROVE  LoopInv'
<1>1. UNCHANGED <<booted, sound, online, sup>>  BY DEF Publishing
<1>2. "loop" \in Callers  BY DEF Callers
<1>3. p = "loop" => pc = "publishing"  BY DEF LoopInv
<1>4. /\ job'["loop"].at # "drop"
      /\ job'["loop"].at # "idle" => sup' = "running" /\ pc' = "publishing"
  <2>1. CASE p = "loop"  BY <1>1, <2>1 DEF LoopInv
  <2>2. CASE p # "loop"  BY <1>1, <1>2, <2>2 DEF LoopInv, Free
  <2> QED  BY <2>1, <2>2
<1>5. /\ pc' \in {"exitRestart", "pollRestart", "heal", "rejoin"} => ~online'
      /\ online' => booted' \/ (pc' = "poll" /\ ~sound')
  BY <1>1, <1>3 DEF LoopInv
<1>6. \A q \in Callers : job'[q].at \in {"del", "add"} /\ ~job'[q].old /\ sound' => booted'
  BY <1>1 DEF LoopInv
<1>7. /\ live' # 0 => booted'
      /\ online' => sup' = "running"
  BY <1>1 DEF LoopInv
<1> QED  BY <1>4, <1>5, <1>6, <1>7 DEF LoopInv, Free

\* Each step of publish_pending is of that kind, for both callers.
LEMMA LoopPublishes ==
  ASSUME SupTypeOK, LoopInv, NEW p \in Callers, Publish(p)  PROVE LoopInv'
<1>1. job \in [Callers -> Jobs] /\ (live # 0 => booted)  BY DEF SupTypeOK, LoopInv
<1>2. CASE Publish_Del(p)
  <2>1. /\ Publishing(p) /\ job[p].at = "del" /\ pc' = pc /\ job' = [job EXCEPT ![p].at = "add"]
        /\ live' = live \/ live' = 0
    BY <1>2 DEF Publish_Del
  <2>2. /\ job'[p].at = "add" /\ job'[p].old = job[p].old
        /\ \A q \in Callers : q # p => job'[q] = job[q]
    BY <1>1, <2>1, GoesOn
  <2> QED  BY <1>1, <2>1, <2>2, LoopGoesOn DEF Free
<1>3. CASE Publish_Add(p)
  <2>1. Publishing(p) /\ job[p].at = "add"  BY <1>3 DEF Publish_Add
  <2>2. /\ \/ pc' = pc /\ job' = [job EXCEPT ![p].at = "mark"]
           \/ Finished(p)
        /\ live' = live \/ (sound /\ ~job[p].old)
    BY <1>3 DEF Publish_Add
  <2>3. live' # 0 => booted  BY <1>1, <2>1, <2>2 DEF LoopInv
  <2>4. CASE pc' = pc /\ job' = [job EXCEPT ![p].at = "mark"]
    <3>1. job'[p].at = "mark" /\ \A q \in Callers : q # p => job'[q] = job[q]
      BY <1>1, <2>4, GoesOn
    <3> QED  BY <2>1, <2>3, <2>4, <3>1, LoopGoesOn DEF Free
  <2>5. CASE Finished(p)
    <3>1. job' = [job EXCEPT ![p] = Idle] /\ pc' = IF p = "loop" THEN "tick" ELSE pc
      BY <2>5 DEF Finished
    <3>2. job'[p].at = "idle" /\ \A q \in Callers : q # p => job'[q] = job[q]
      BY <1>1, <3>1, Idles, IdleFacts
    <3> QED  BY <2>1, <2>3, <3>1, <3>2, LoopGoesOn DEF Free
  <2> QED  BY <2>2, <2>4, <2>5
<1>4. CASE Publish_Mark(p)
  <2>1. Publishing(p) /\ job[p].at = "mark" /\ Finished(p) /\ live' = live
    BY <1>4 DEF Publish_Mark
  <2>2. job' = [job EXCEPT ![p] = Idle] /\ pc' = IF p = "loop" THEN "tick" ELSE pc
    BY <2>1 DEF Finished
  <2>3. job'[p].at = "idle" /\ \A q \in Callers : q # p => job'[q] = job[q]
    BY <1>1, <2>2, Idles, IdleFacts
  <2> QED  BY <1>1, <2>1, <2>2, <2>3, LoopGoesOn DEF Free
<1> QED  BY <1>2, <1>3, <1>4 DEF Publish

\* The engine's calls leave the loop alone.
LEMMA LoopEngine ==
  ASSUME SupTypeOK, LoopInv, Host \/ Remove \/ Remove_Entry  PROVE LoopInv'
<1>1. UNCHANGED <<booted, sound, online, sup, pc>>  BY DEF Host, Remove, Remove_Entry, Engine
<1>2. /\ "engine" \in Callers /\ "loop" \in Callers /\ "engine" # "loop"
      /\ \A p \in Callers : p = "engine" \/ p = "loop"
  BY DEF Callers
<1>3. job \in [Callers -> Jobs] /\ hosts \in Nat  BY DEF SupTypeOK
<1>4. CASE Host
  <2>1. live' = live /\ (job' = job \/ (online /\ job' = Snapshot("engine", hosts')))
    BY <1>4 DEF Host
  <2>2. CASE job' = job  BY <1>1, <2>1, <2>2 DEF LoopInv, Free
  <2>3. CASE online /\ job' = Snapshot("engine", hosts')
    <3>1. hosts' \in Nat  BY SMT, <1>3, <1>4 DEF Host
    <3>2. PICK v \in Nat : v = hosts'  BY <3>1
    <3>3. job'["loop"] = job["loop"]  BY SMT, <1>2, <1>3, <2>3, <3>2, Snaps
    <3>4. sound => booted  BY <2>3 DEF LoopInv
    <3>5. \A p \in Callers : job'[p].at \in {"del", "add"} /\ ~job'[p].old /\ sound' => booted'
      BY <1>1, <3>4
    <3> QED  BY <1>1, <2>1, <3>3, <3>5 DEF LoopInv, Free
  <2> QED  BY <2>1, <2>2, <2>3
<1>5. CASE Remove
  <2>1. /\ live' = live \/ live' = 0
        /\ job' = job \/ job' = [job EXCEPT !["engine"].at = "drop"]
    BY <1>5 DEF Remove
  <2>2. CASE job' = job  BY <1>1, <2>1, <2>2 DEF LoopInv, Free
  <2>3. CASE job' = [job EXCEPT !["engine"].at = "drop"]
    <3>1. job'["engine"].at = "drop" /\ job'["loop"] = job["loop"]
      BY ZenonT(60), <1>2, <1>3, <2>3, GoesOn
    <3>2. \A p \in Callers : job'[p].at \in {"del", "add"} /\ ~job'[p].old /\ sound' => booted'
      BY <1>1, <1>2, <3>1 DEF LoopInv
    <3> QED  BY <1>1, <2>1, <3>1, <3>2 DEF LoopInv, Free
  <2> QED  BY <2>1, <2>2, <2>3
<1>6. CASE Remove_Entry
  <2>1. live' = live /\ job' = [job EXCEPT !["engine"] = Idle]  BY <1>6 DEF Remove_Entry
  <2>2. job'["engine"].at = "idle" /\ job'["loop"] = job["loop"]
    BY <1>2, <1>3, <2>1, Idles, IdleFacts
  <2>3. \A p \in Callers : job'[p].at \in {"del", "add"} /\ ~job'[p].old /\ sound' => booted'
    BY <1>1, <1>2, <2>2 DEF LoopInv
  <2> QED  BY <1>1, <2>1, <2>2, <2>3 DEF LoopInv, Free
<1> QED  BY <1>4, <1>5, <1>6

\* Every step keeps LoopInv.
LEMMA LoopKeeps ==
  ASSUME SupTypeOK, LoopInv, [Next]_vars  PROVE LoopInv'
<1>1. ASSUME NEW p \in Callers, Publish(p)  PROVE LoopInv'  BY <1>1, LoopPublishes
<1> QED
  BY <1>1, LoopKeepsQuiet, LoopCut, LoopStarts, LoopRejoins, LoopPolls, LoopEngine
     DEF Next, HealthLoop, Environment, User

-----------------------------------------------------------------------------
(* The service *)

\* The map, the connection and the jobs keep their types.
LEMMA ServiceTypes ==
  ASSUME SupTypeOK, [Next]_vars
  PROVE  /\ sound' \in BOOLEAN /\ pub' \in BOOLEAN /\ raced' \in BOOLEAN
         /\ live' \in Nat /\ entry' \in Nat /\ hosts' \in Nat
         /\ job' \in [Callers -> Jobs]
<1> DEFINE Typed == /\ sound' \in BOOLEAN /\ pub' \in BOOLEAN /\ raced' \in BOOLEAN
                    /\ live' \in Nat /\ entry' \in Nat /\ hosts' \in Nat
                    /\ job' \in [Callers -> Jobs]
<1> SUFFICES Typed  OBVIOUS
<1>1. ASSUME Quiet  PROVE Typed  BY <1>1 DEF Quiet, SupTypeOK
<1>2. 0 \in Nat /\ \A n \in Nat : n + 1 \in Nat  BY SMT
<1>3. /\ job \in [Callers -> Jobs] /\ "engine" \in Callers /\ "loop" \in Callers
      /\ live \in Nat /\ entry \in Nat /\ hosts \in Nat
  BY DEF SupTypeOK, Callers
<1>4. ASSUME Offline, job' \in [Callers -> Jobs]  PROVE Typed
  BY <1>2, <1>4 DEF Offline, SupTypeOK
<1>5. ASSUME TorExits \/ ConnectionDrops \/ Restart \/ Stop  PROVE Typed  BY <1>4, <1>5, CutSteps
<1>6. ASSUME Connected, UNCHANGED <<entry, hosts>>  PROVE Typed
  BY <1>2, <1>3, <1>6, Reconnects
<1>7. ASSUME Start  PROVE Typed
  <2>1. UNCHANGED <<entry, hosts>>  BY <1>7 DEF Start
  <2>2. CASE Start_Done \/ Start_NotDisabled
    BY <1>6, <2>1, <2>2 DEF Start_Done, Start_NotDisabled
  <2>3. CASE Start_NoDaemon  BY <1>1, <2>1, <2>3, QuietSteps
  <2>4. CASE Start_NoControl  BY <1>1, <1>3, <1>4, <2>1, <2>4, NoControlSteps
  <2> QED  BY <1>7, <2>2, <2>3, <2>4 DEF Start
<1>8. ASSUME Rejoin  PROVE Typed
  <2>1. UNCHANGED <<entry, hosts>> /\ (Connected \/ UNCHANGED <<control, pub, job, raced>>)
    BY <1>8 DEF Rejoin, Loop
  <2> QED  BY <1>1, <1>6, <2>1 DEF Quiet, control
<1>9. ASSUME Poll_Up  PROVE Typed
  <2>1. /\ UNCHANGED <<sound, live, entry, pub, hosts, raced>>
        /\ job' = job \/ job' = Snapshot("loop", entry)
    BY <1>9 DEF Poll_Up, Polling, Loop, control
  <2>2. job' \in [Callers -> Jobs]  BY <1>3, <2>1, Snaps
  <2> QED  BY <2>1, <2>2 DEF SupTypeOK
<1>10. ASSUME NEW p \in Callers, Publish(p)  PROVE Typed
  <2>1. UNCHANGED <<sound, entry, hosts>>
    BY <1>10 DEF Publish, Publish_Del, Publish_Add, Publish_Mark, Publishing
  <2>2. /\ live' \in {live, 0, job[p].ver} /\ pub' \in BOOLEAN /\ raced' \in BOOLEAN
    BY <1>10 DEF Publish, Publish_Del, Publish_Add, Publish_Mark, counted, SupTypeOK
  <2>3. \/ job' = [job EXCEPT ![p].at = "add"] \/ job' = [job EXCEPT ![p].at = "mark"]
        \/ job' = [job EXCEPT ![p] = Idle]
    BY <1>10 DEF Publish, Publish_Del, Publish_Add, Publish_Mark, Finished
  <2>4. job' \in [Callers -> Jobs]  BY <1>3, <2>3, GoesOn, Idles
  <2>5. job[p].ver \in Nat  BY <1>3, JobFields
  <2> QED  BY <1>2, <1>3, <2>1, <2>2, <2>4, <2>5 DEF SupTypeOK
<1>11. ASSUME Host \/ Remove \/ Remove_Entry  PROVE Typed
  <2>1. sound' = sound /\ (hosts' = hosts \/ hosts' = hosts + 1) /\ live' \in {live, 0}
        /\ entry' \in {entry, 0, hosts'} /\ pub' \in {pub, FALSE} /\ raced' \in BOOLEAN
    BY <1>11 DEF Host, Remove, Remove_Entry, Engine, SupTypeOK
  <2>2. hosts' \in Nat  BY <1>2, <1>3, <2>1
  <2>3. PICK v \in Nat : v = hosts'  BY <2>2
  <2>4. \/ job' = job \/ job' = Snapshot("engine", v)
        \/ job' = [job EXCEPT !["engine"].at = "drop"] \/ job' = [job EXCEPT !["engine"] = Idle]
    BY <1>11, <2>3 DEF Host, Remove, Remove_Entry
  <2>5. job' \in [Callers -> Jobs]  BY <1>3, <2>3, <2>4, Snaps, GoesOn, Idles
  <2> QED  BY <1>2, <1>3, <2>1, <2>2, <2>5 DEF SupTypeOK
<1> HIDE DEF Typed
<1> QED
  BY <1>1, <1>5, <1>7, <1>8, <1>9, <1>10, <1>11, QuietSteps
     DEF Next, HealthLoop, Environment, User

\* The health loop and the engine are the two callers of publish_pending.
LEMMA CallersTwo ==
  /\ "engine" \in Callers /\ "loop" \in Callers /\ "engine" # "loop"
  /\ \A p \in Callers : p = "engine" \/ p = "loop"
BY DEF Callers

\* Nothing is published and nobody is publishing.
LEMMA AllIdle ==
  ASSUME \A p \in Callers : ~job[p].old /\ job[p].at = "idle", sound => live = 0, sound => ~pub
  PROVE  Orderly
BY CallersTwo DEF Orderly, Marking, Dropping, Replacing

\* Orderly after a step that touches no service.
LEMMA OrderQuiet ==
  ASSUME Quiet, ~raced => Orderly  PROVE ~raced' => Orderly'
BY DEF Quiet, Orderly, Marking, Adding, Dropping, Replacing, Free

\* Orderly once the connection is lost.
LEMMA OrderCut ==
  ASSUME Offline, ~raced => Orderly,
         job' = job \/ (job'["loop"] = Idle /\ job'["engine"] = job["engine"])
  PROVE  ~raced' => Orderly'
<1> SUFFICES ASSUME ~raced' PROVE Orderly'  OBVIOUS
<1>1. Orderly /\ ~sound' /\ live' = 0 /\ UNCHANGED <<entry, pub>>  BY DEF Offline
<1>2. job'["engine"] = job["engine"] /\ (job'["loop"] = job["loop"] \/ job'["loop"] = Idle)
  OBVIOUS
<1>3. \A p \in Callers :
        /\ ~job'[p].old
        /\ job'[p].at \in {"del", "add", "mark"} => job'[p].ver = entry' /\ entry' # 0
  BY <1>1, <1>2, CallersTwo, IdleFacts DEF Orderly
<1>4. Dropping' => pub' /\ live' = 0 /\ Free("loop")'
  BY <1>1, <1>2, IdleFacts DEF Orderly, Dropping, Free
<1> QED  BY <1>1, <1>3, <1>4 DEF Orderly

\* A reconnect is orderly unless somebody was publishing.
LEMMA OrderConnected ==
  ASSUME SupTypeOK, Connected  PROVE ~raced' => Orderly'
<1> SUFFICES ASSUME ~raced' PROVE Orderly'  OBVIOUS
<1>1. live' = 0 /\ ~pub' /\ \A p \in Callers : job'[p] = Idle  BY Reconnects
<1>2. Orderly'
  <2>1. \A p \in Callers : ~job'[p].old /\ job'[p].at = "idle"  BY <1>1, IdleFacts
  <2> QED  BY <1>1, <2>1, CallersTwo DEF Orderly, Marking, Dropping, Replacing
<1> QED  BY <1>2

\* start() keeps the order.
LEMMA OrderStarts ==
  ASSUME SupTypeOK, ~raced => Orderly, Start  PROVE ~raced' => Orderly'
<1>1. UNCHANGED <<entry, hosts>>  BY DEF Start
<1>2. CASE Start_Done \/ Start_NotDisabled
  BY <1>2, OrderConnected DEF Start_Done, Start_NotDisabled
<1>3. CASE Start_NoDaemon  BY <1>1, <1>3, QuietSteps, OrderQuiet
<1>4. CASE Start_NoControl  BY <1>1, <1>4, NoControlSteps, OrderQuiet, OrderCut
<1> QED  BY <1>2, <1>3, <1>4 DEF Start

\* The loop's reconnect keeps the order.
LEMMA OrderRejoins ==
  ASSUME SupTypeOK, ~raced => Orderly, Rejoin  PROVE ~raced' => Orderly'
<1>1. UNCHANGED <<entry, hosts>> /\ (Connected \/ UNCHANGED <<control, pub, job, raced>>)
  BY DEF Rejoin, Loop
<1> QED  BY <1>1, OrderConnected, OrderQuiet DEF Quiet, control

\* The loop begins to publish in order.
LEMMA OrderPolls ==
  ASSUME SupTypeOK, LoopInv, ~raced => Orderly, Poll_Up  PROVE ~raced' => Orderly'
<1>1. /\ UNCHANGED <<sound, live, entry, pub, hosts, raced>>
      /\ job' = job \/ (job' = Snapshot("loop", entry) /\ entry # 0 /\ ~pub)
  BY DEF Poll_Up, Polling, Loop, control
<1>2. CASE job' = job  BY <1>1, <1>2, OrderQuiet DEF Quiet
<1>3. ASSUME ~raced', job' = Snapshot("loop", entry), entry # 0, ~pub  PROVE Orderly'
  <2>1. Orderly  BY <1>1, <1>3
  <2>2. job \in [Callers -> Jobs] /\ entry \in Nat  BY DEF SupTypeOK
  <2>3. /\ job'["loop"].at = "del" /\ job'["loop"].ver = entry /\ ~job'["loop"].old
        /\ job'["engine"] = job["engine"]
    BY SMT, <1>3, <2>2, Snaps, CallersTwo
  <2>4. Free("loop")  BY DEF Poll_Up, Polling, LoopInv
  <2>5. ~Dropping /\ ~Dropping'  BY <1>3, <2>1, <2>3 DEF Orderly, Dropping
  <2>6. (Marking => Marking') /\ (Marking' => Marking) /\ (Adding => Adding')
        /\ Replacing' = Replacing
    BY <2>3, <2>4, CallersTwo DEF Marking, Adding, Replacing, Free
  <2>7. \A p \in Callers :
          /\ ~job'[p].old
          /\ job'[p].at \in {"del", "add", "mark"} => job'[p].ver = entry' /\ entry' # 0
    BY <1>1, <1>3, <2>1, <2>3, CallersTwo DEF Orderly
  <2>8. sound' => /\ \/ live' \in {0, entry'}
                     \/ Replacing' /\ job'["loop"].at \in {"idle", "del"} /\ ~pub'
                  /\ live' # 0 => pub' \/ Marking' \/ Replacing'
                  /\ pub' \/ Marking' => live' = entry' \/ Adding' \/ Dropping'
    BY <1>1, <1>3, <2>1, <2>3, <2>5, <2>6 DEF Orderly
  <2> QED  BY <2>5, <2>7, <2>8 DEF Orderly
<1> QED  BY <1>1, <1>2, <1>3

\* A publisher goes on or is done: the two publishers p and q.
LEMMA OrderDel ==
  ASSUME SupTypeOK, ~raced => Orderly, NEW p \in Callers, Publish_Del(p), ~raced'
  PROVE  Orderly'
<1>1. /\ job[p].at = "del" /\ job' = [job EXCEPT ![p].at = "add"]
      /\ UNCHANGED <<sound, entry, pub, raced>>
      /\ sound /\ ~job[p].old => live' = 0
      /\ ~sound => live' = live
  BY DEF Publish_Del, Publishing, counted
<1>2. Orderly  BY <1>1
<1>3. job \in [Callers -> Jobs]  BY DEF SupTypeOK
<1>4. /\ job'[p].at = "add" /\ job'[p].ver = job[p].ver /\ job'[p].old = job[p].old
      /\ \A q \in Callers : q # p => job'[q] = job[q]
  BY <1>1, <1>3, GoesOn
<1>5. \A q \in Callers :
        /\ ~job'[q].old
        /\ job'[q].at \in {"del", "add", "mark"} => job'[q].ver = entry' /\ entry' # 0
  BY <1>1, <1>2, <1>4 DEF Orderly
<1>6. ~Dropping'  BY <1>1, <1>2, <1>4, CallersTwo DEF Orderly, Dropping, Free
<1>7. sound' => live' = 0  BY <1>1, <1>2 DEF Orderly
<1>8. Adding'  BY <1>4 DEF Adding
<1> QED  BY <1>5, <1>6, <1>7, <1>8 DEF Orderly

\* ADD_ONION: tor serves the entry the publisher read.
LEMMA OrderAdd ==
  ASSUME SupTypeOK, ~raced => Orderly, NEW p \in Callers, Publish_Add(p), ~raced'
  PROVE  Orderly'
<1>1. /\ job[p].at = "add" /\ UNCHANGED <<sound, entry, pub, raced>>
      /\ \/ sound /\ live' = job[p].ver /\ job' = [job EXCEPT ![p].at = "mark"]
         \/ job[p].old
         \/ (~sound \/ live # 0) /\ job' = [job EXCEPT ![p] = Idle] /\ live' = live
  BY DEF Publish_Add, Publishing, Finished
<1>2. Orderly  BY <1>1
<1>3. job \in [Callers -> Jobs]  BY DEF SupTypeOK
<1>4. ~job[p].old /\ job[p].ver = entry /\ entry # 0  BY <1>1, <1>2 DEF Orderly
<1>5. ~Dropping  BY <1>1, <1>2, CallersTwo DEF Orderly, Dropping, Free
<1>6. CASE sound /\ live' = job[p].ver /\ job' = [job EXCEPT ![p].at = "mark"]
  <2>1. /\ job'[p].at = "mark" /\ job'[p].ver = job[p].ver /\ job'[p].old = job[p].old
        /\ \A q \in Callers : q # p => job'[q] = job[q]
    BY <1>3, <1>6, GoesOn
  <2>2. \A q \in Callers :
          /\ ~job'[q].old
          /\ job'[q].at \in {"del", "add", "mark"} => job'[q].ver = entry' /\ entry' # 0
    BY <1>1, <1>2, <2>1 DEF Orderly
  <2>3. ~Dropping' /\ Marking'  BY <1>5, <2>1, CallersTwo DEF Dropping, Marking
  <2> QED  BY <1>1, <1>4, <1>6, <2>2, <2>3 DEF Orderly
<1>7. CASE (~sound \/ live # 0) /\ job' = [job EXCEPT ![p] = Idle] /\ live' = live
  <2>1. job'[p] = Idle /\ \A q \in Callers : q # p => job'[q] = job[q]  BY <1>3, <1>7, Idles
  <2>2. \A q \in Callers :
          /\ ~job'[q].old
          /\ job'[q].at \in {"del", "add", "mark"} => job'[q].ver = entry' /\ entry' # 0
    BY <1>1, <1>2, <2>1, IdleFacts DEF Orderly
  <2>3. ~Dropping'  BY <1>5, <2>1, IdleFacts, CallersTwo DEF Dropping
  <2>4. (Marking => Marking') /\ (Replacing => Replacing')
    BY <1>1, <2>1, CallersTwo DEF Marking, Replacing
  <2>5. sound => live = entry
    <3>1. ~(Replacing /\ job["loop"].at \in {"idle", "del"})
      BY <1>1, CallersTwo DEF Replacing
    <3> QED  BY <1>2, <1>7, <3>1 DEF Orderly
  <2>6. sound' => /\ live' = entry'
                  /\ live' # 0 => pub' \/ Marking' \/ Replacing'
    BY <1>1, <1>2, <1>7, <2>4, <2>5 DEF Orderly
  <2> QED  BY <2>2, <2>3, <2>6 DEF Orderly
<1> QED  BY <1>1, <1>4, <1>6, <1>7

\* The entry is marked as published.
LEMMA OrderMark ==
  ASSUME SupTypeOK, ~raced => Orderly, NEW p \in Callers, Publish_Mark(p), ~raced'
  PROVE  Orderly'
<1>1. /\ job[p].at = "mark" /\ UNCHANGED <<sound, entry, live, raced>>
      /\ pub' = (entry # 0) /\ job' = [job EXCEPT ![p] = Idle]
  BY DEF Publish_Mark, Publishing, Finished
<1>2. Orderly  BY <1>1
<1>3. job \in [Callers -> Jobs]  BY DEF SupTypeOK
<1>4. entry # 0 /\ pub'  BY <1>1, <1>2 DEF Orderly
<1>5. job'[p] = Idle /\ \A q \in Callers : q # p => job'[q] = job[q]  BY <1>1, <1>3, Idles
<1>6. ~Dropping /\ ~Dropping'
  BY <1>1, <1>2, <1>5, CallersTwo, IdleFacts DEF Orderly, Dropping, Free
<1>7. \A q \in Callers :
        /\ ~job'[q].old
        /\ job'[q].at \in {"del", "add", "mark"} => job'[q].ver = entry' /\ entry' # 0
  BY <1>1, <1>2, <1>5, IdleFacts DEF Orderly
<1>8. Adding => Adding'  BY <1>1, <1>5 DEF Adding
<1>9. Marking  BY <1>1 DEF Marking
<1>10. ~(Replacing /\ job["loop"].at \in {"idle", "del"})  BY <1>1, CallersTwo DEF Replacing
<1>11. sound => live \in {0, entry} /\ (live = entry \/ Adding')
  BY <1>2, <1>6, <1>8, <1>9, <1>10 DEF Orderly
<1> QED  BY <1>1, <1>4, <1>6, <1>7, <1>11 DEF Orderly

\* host_service_with_auth replaces the entry, and publishes it if the loop is online.
LEMMA OrderHost ==
  ASSUME SupTypeOK, ~raced => Orderly, Host, ~raced'
  PROVE  Orderly'
<1>1. /\ ~raced /\ Free("loop") /\ Free("engine") /\ (live = 0 \/ online)
      /\ UNCHANGED <<sound, live>> /\ pub' = FALSE /\ entry' = hosts' /\ hosts' = hosts + 1
      /\ job' = IF online THEN Snapshot("engine", hosts') ELSE job
  BY DEF Host, Engine
<1>2. hosts' \in Nat /\ hosts' # 0
  <2>1. hosts \in Nat  BY DEF SupTypeOK
  <2> QED  BY SMT, <1>1, <2>1
<1>3. Orderly /\ job \in [Callers -> Jobs]  BY <1>1 DEF SupTypeOK
<1>4. CASE ~online
  <2>1. \A p \in Callers : ~job'[p].old /\ job'[p].at = "idle"
    BY <1>1, <1>3, <1>4, CallersTwo DEF Orderly, Free
  <2> QED  BY <1>1, <1>4, <2>1, CallersTwo DEF Orderly, Marking, Dropping, Replacing
<1>5. CASE online
  <2>1. PICK v \in Nat : v = hosts'  BY <1>2
  <2>2. /\ job'["engine"].at = "del" /\ job'["engine"].ver = v /\ ~job'["engine"].old
        /\ job'["loop"] = job["loop"]
    BY SMT, <1>1, <1>3, <1>5, <2>1, Snaps, CallersTwo
  <2>3. \A q \in Callers :
          /\ ~job'[q].old
          /\ job'[q].at \in {"del", "add", "mark"} => job'[q].ver = entry' /\ entry' # 0
    BY <1>1, <1>2, <1>3, <2>1, <2>2, CallersTwo DEF Orderly, Free
  <2>4. ~Dropping' /\ Replacing' /\ ~Marking' /\ job'["loop"].at = "idle"
    BY <1>1, <2>2, CallersTwo DEF Dropping, Replacing, Marking, Free
  <2> QED  BY <1>1, <2>3, <2>4 DEF Orderly
<1> QED  BY <1>4, <1>5

\* remove_service: DEL_ONION, then the entry goes.
LEMMA OrderRemove ==
  ASSUME SupTypeOK, ~raced => Orderly, Remove \/ Remove_Entry, ~raced'
  PROVE  Orderly'
<1>1. ~raced /\ Free("loop") /\ sound' = sound  BY DEF Remove, Remove_Entry, Engine
<1>2. Orderly /\ job \in [Callers -> Jobs]  BY <1>1 DEF SupTypeOK
<1>3. CASE Remove /\ ~pub
  <2>1. Free("engine") /\ live' = live /\ job' = job /\ pub' = pub  BY <1>3 DEF Remove
  <2>2. \A p \in Callers : ~job'[p].old /\ job'[p].at = "idle"
    BY <1>1, <1>2, <2>1, CallersTwo DEF Orderly, Free
  <2>3. ~Marking /\ ~Replacing  BY <2>1, <2>2, CallersTwo DEF Marking, Replacing
  <2>4. sound => live = 0  BY <1>2, <1>3, <2>3 DEF Orderly
  <2> QED  BY <1>1, <1>3, <2>1, <2>2, <2>4, CallersTwo DEF Orderly, Marking, Dropping, Replacing
<1>4. CASE Remove /\ pub
  <2>1. /\ Free("engine") /\ live' = 0 /\ job' = [job EXCEPT !["engine"].at = "drop"]
        /\ pub' = pub
    BY <1>4 DEF Remove
  <2>2. /\ job'["engine"].at = "drop" /\ job'["engine"].old = job["engine"].old
        /\ job'["loop"] = job["loop"]
    BY ZenonT(60), <1>2, <2>1, GoesOn, CallersTwo
  <2>3. \A q \in Callers :
          /\ ~job'[q].old
          /\ job'[q].at \in {"del", "add", "mark"} => job'[q].ver = entry' /\ entry' # 0
    BY <1>1, <1>2, <2>2, CallersTwo DEF Orderly, Free
  <2>4. Dropping' /\ Free("loop")'  BY <1>1, <2>2 DEF Dropping, Free
  <2> QED  BY <1>4, <2>1, <2>3, <2>4 DEF Orderly
<1>5. CASE Remove_Entry
  <2>1. /\ Dropping /\ live' = live /\ job' = [job EXCEPT !["engine"] = Idle] /\ pub' = FALSE
    BY <1>5 DEF Remove_Entry, Dropping
  <2>2. job'["engine"] = Idle /\ job'["loop"] = job["loop"]  BY <1>2, <2>1, Idles, CallersTwo
  <2>3. \A p \in Callers : ~job'[p].old /\ job'[p].at = "idle"
    BY <1>1, <1>2, <2>2, IdleFacts, CallersTwo DEF Orderly, Free
  <2>4. live' = 0  BY <1>2, <2>1 DEF Orderly
  <2> QED  BY <2>1, <2>3, <2>4, CallersTwo DEF Orderly, Marking, Dropping, Replacing
<1> QED  BY <1>3, <1>4, <1>5

\* Every step keeps the order.
LEMMA OrderKeeps ==
  ASSUME SupTypeOK, LoopInv, ~raced => Orderly, [Next]_vars  PROVE ~raced' => Orderly'
<1>1. ASSUME Quiet  PROVE ~raced' => Orderly'  BY <1>1, OrderQuiet
<1>2. CASE TorExits \/ ConnectionDrops \/ Restart \/ Stop  BY <1>2, CutSteps, OrderCut
<1>3. ASSUME NEW p \in Callers, Publish(p)  PROVE ~raced' => Orderly'
  BY <1>3, OrderDel, OrderAdd, OrderMark DEF Publish
<1> QED
  BY <1>1, <1>2, <1>3, QuietSteps, OrderStarts, OrderRejoins, OrderPolls, OrderHost, OrderRemove
     DEF Next, HealthLoop, Environment, User

-----------------------------------------------------------------------------
(* The theorems *)

\* The invariant holds in every reachable state.
LEMMA SupervisorInvariance == Spec => []SupInv
<1>1. Init => SupInv
  <2> SUFFICES ASSUME Init PROVE SupInv  OBVIOUS
  <2>1. 0 \in Nat  BY SMT
  <2>2. SupTypeOK  BY <2>1, IdleFacts DEF Init, SupTypeOK
  <2>3. KillSwitchHolds  BY DEF Init, KillSwitchHolds
  <2>4. \A p \in Callers : job[p] = Idle  BY DEF Init
  <2>5. LoopInv  BY <2>4, CallersTwo, IdleFacts DEF Init, LoopInv, Free
  <2>6. Orderly  BY <2>4, IdleFacts, AllIdle DEF Init
  <2> QED  BY <2>2, <2>3, <2>5, <2>6 DEF SupInv
<1>2. SupInv /\ [Next]_vars => SupInv'
  <2> SUFFICES ASSUME SupInv, [Next]_vars PROVE SupInv'  OBVIOUS
  <2>1. SupTypeOK /\ KillSwitchHolds /\ LoopInv /\ (~raced => Orderly)  BY DEF SupInv
  <2>2. SupTypeOK'  BY <2>1, BitsKeep, ServiceTypes DEF SupTypeOK
  <2>3. KillSwitchHolds'  BY <2>1, SwitchKeeps
  <2>4. LoopInv'  BY <2>1, LoopKeeps
  <2>5. ~raced' => Orderly'  BY <2>1, OrderKeeps
  <2> QED  BY <2>2, <2>3, <2>4, <2>5 DEF SupInv
<1> QED  BY <1>1, <1>2, PTL DEF Spec

\* With the kill switch on, a running tor has its network disabled, in every order
\* of toggles, starts, stops, restarts and failures that does not itself put tor
\* on the network: set_kill_switch (killswitch.rs) and start() (lifecycle.rs).
THEOREM SwitchHolds == Spec => []KillSwitchHolds
<1>1. SupInv => KillSwitchHolds  BY DEF SupInv
<1> QED  BY <1>1, SupervisorInvariance, PTL

\* What tor serves is what the services map says once nobody is publishing, unless
\* an entry or a connection was replaced under a publisher, and it serves only after
\* a bootstrap, for every number of versions, faults and restarts: publish_pending,
\* host_service_with_auth, remove_service (services.rs) and connect_control.
THEOREM ServicesAreHosted == Spec => []ServedIsHosted
<1>1. SupInv => ServedIsHosted
  <2> SUFFICES ASSUME SupInv PROVE ServedIsHosted  OBVIOUS
  <2>1. live # 0 => booted  BY DEF SupInv, LoopInv
  <2>2. ASSUME sound, ~raced, \A p \in Callers : Free(p)
        PROVE  (pub => live = entry) /\ (entry = 0 => live = 0)
    <3>1. Orderly  BY <2>2 DEF SupInv
    <3>2. ~Marking /\ ~Adding /\ ~Dropping /\ ~Replacing
      BY <2>2, CallersTwo DEF Marking, Adding, Dropping, Replacing, Free
    <3> QED  BY <2>2, <3>1, <3>2 DEF Orderly
  <2> QED  BY <2>1, <2>2 DEF ServedIsHosted
<1> QED  BY <1>1, SupervisorInvariance, PTL

-----------------------------------------------------------------------------
(* The control connection *)

\* The first element and the others.
LEMMA Tailed ==
  ASSUME NEW S, NEW q \in Seq(S), q # <<>>
  PROVE  /\ Head(q) \in S /\ Tail(q) \in Seq(S) /\ Head(q) = q[1]
         /\ Range(q) = {Head(q)} \cup Range(Tail(q))
         /\ \A i \in DOMAIN Tail(q) : i + 1 \in DOMAIN q /\ Tail(q)[i] = q[i + 1] /\ 1 < i + 1
<1>1. Head(q) \in S /\ Tail(q) \in Seq(S) /\ Head(q) = q[1] /\ 1 \in DOMAIN q  BY SMT
<1>2. ASSUME NEW i \in DOMAIN Tail(q)
      PROVE  i + 1 \in DOMAIN q /\ Tail(q)[i] = q[i + 1] /\ 1 < i + 1
  BY SMT
<1>3. ASSUME NEW i \in DOMAIN q  PROVE q[i] \in {Head(q)} \cup Range(Tail(q))
  <2>1. CASE i = 1  BY <1>1, <2>1
  <2>2. CASE i # 1
    <3>1. i - 1 \in DOMAIN Tail(q) /\ Tail(q)[i - 1] = q[i]  BY SMT, <2>2
    <3> QED  BY <3>1 DEF Range
  <2> QED  BY <2>1, <2>2
<1> QED  BY SMT, <1>1, <1>2, <1>3 DEF Range

\* Append adds one element, at the end.
LEMMA Appended ==
  ASSUME NEW S, NEW q \in Seq(S), NEW x \in S
  PROVE  /\ Append(q, x) \in Seq(S) /\ Range(Append(q, x)) = Range(q) \cup {x}
         /\ DOMAIN Append(q, x) = 1 .. Len(q) + 1
         /\ Append(q, x)[Len(q) + 1] = x
         /\ \A i \in 1 .. Len(q) : Append(q, x)[i] = q[i]
<1>1. /\ Append(q, x) \in Seq(S) /\ DOMAIN Append(q, x) = 1 .. Len(q) + 1
      /\ Append(q, x)[Len(q) + 1] = x /\ Len(q) + 1 \in DOMAIN Append(q, x)
  BY SMT
<1>2. ASSUME NEW i \in 1 .. Len(q)  PROVE Append(q, x)[i] = q[i] /\ i \in DOMAIN Append(q, x)
  BY SMT
<1>3. DOMAIN q = 1 .. Len(q)  BY SMT
<1>4. ASSUME NEW i \in DOMAIN Append(q, x)  PROVE i \in 1 .. Len(q) \/ i = Len(q) + 1
  BY SMT, <1>1
<1>5. Range(Append(q, x)) \subseteq Range(q) \cup {x}  BY <1>1, <1>2, <1>3, <1>4 DEF Range
<1>6. Range(q) \cup {x} \subseteq Range(Append(q, x))  BY <1>1, <1>2, <1>3 DEF Range
<1> QED  BY <1>1, <1>2, <1>5, <1>6

\* The elements of two joined sequences, and where they come from.
LEMMA Joined ==
  ASSUME NEW S, NEW u \in Seq(S), NEW v \in Seq(S)
  PROVE  /\ u \o v \in Seq(S) /\ Range(u \o v) = Range(u) \cup Range(v)
         /\ \A i \in DOMAIN (u \o v) :
              \/ i \in DOMAIN u /\ (u \o v)[i] = u[i]
              \/ i - Len(u) \in DOMAIN v /\ (u \o v)[i] = v[i - Len(u)] /\ i > Len(u)
<1>1. u \o v \in Seq(S) /\ Len(u \o v) = Len(u) + Len(v)  BY SMT
<1>2. ASSUME NEW i \in DOMAIN (u \o v)
      PROVE  \/ i \in DOMAIN u /\ (u \o v)[i] = u[i]
             \/ i - Len(u) \in DOMAIN v /\ (u \o v)[i] = v[i - Len(u)] /\ i > Len(u)
  <2>1. CASE i <= Len(u)  BY SMT, <2>1
  <2>2. CASE i > Len(u)  BY SMT, <2>2
  <2> QED  BY SMT, <1>1, <2>1, <2>2
<1>3. ASSUME NEW i \in DOMAIN u  PROVE i \in DOMAIN (u \o v) /\ (u \o v)[i] = u[i]  BY SMT
<1>4. ASSUME NEW i \in DOMAIN v
      PROVE  Len(u) + i \in DOMAIN (u \o v) /\ (u \o v)[Len(u) + i] = v[i]
  BY SMT
<1>5. Range(u \o v) \subseteq Range(u) \cup Range(v)  BY <1>2 DEF Range
<1>6. Range(u) \cup Range(v) \subseteq Range(u \o v)  BY <1>3, <1>4 DEF Range
<1> QED  BY <1>1, <1>2, <1>5, <1>6

\* A sequence cut after its n-th element.
LEMMA Cut ==
  ASSUME NEW S, NEW q \in Seq(S), NEW n \in 0 .. Len(q)
  PROVE  /\ SubSeq(q, 1, n) \in Seq(S) /\ SubSeq(q, n + 1, Len(q)) \in Seq(S)
         /\ Range(q) = Range(SubSeq(q, 1, n)) \cup Range(SubSeq(q, n + 1, Len(q)))
         /\ \A i \in DOMAIN SubSeq(q, 1, n) :
              i \in DOMAIN q /\ i <= n /\ SubSeq(q, 1, n)[i] = q[i]
         /\ \A i \in DOMAIN SubSeq(q, n + 1, Len(q)) :
              i + n \in DOMAIN q /\ i + n > n /\ SubSeq(q, n + 1, Len(q))[i] = q[i + n]
<1> DEFINE u == SubSeq(q, 1, n)
           v == SubSeq(q, n + 1, Len(q))
<1>1. u \in Seq(S) /\ Len(u) = n /\ \A i \in 1 .. n : u[i] = q[i]  BY SMT
<1>2. v \in Seq(S) /\ Len(v) = Len(q) - n /\ \A i \in 1 .. Len(q) - n : v[i] = q[i + n]  BY SMT
<1> HIDE DEF u, v
<1>3. ASSUME NEW i \in DOMAIN u  PROVE i \in DOMAIN q /\ i <= n /\ u[i] = q[i]  BY SMT, <1>1
<1>4. ASSUME NEW i \in DOMAIN v  PROVE i + n \in DOMAIN q /\ i + n > n /\ v[i] = q[i + n]
  BY SMT, <1>2
<1>5. ASSUME NEW i \in DOMAIN q  PROVE q[i] \in Range(u) \cup Range(v)
  <2>1. CASE i <= n
    <3>1. i \in DOMAIN u /\ u[i] = q[i]  BY SMT, <1>1, <2>1
    <3> QED  BY <3>1 DEF Range
  <2>2. CASE i > n
    <3>1. i - n \in DOMAIN v /\ i - n \in 1 .. Len(q) - n /\ (i - n) + n = i  BY SMT, <1>2, <2>2
    <3>2. v[i - n] = q[i]  BY <1>2, <3>1
    <3> QED  BY <3>1, <3>2 DEF Range
  <2> QED  BY SMT, <2>1, <2>2
<1>6. Range(q) = Range(u) \cup Range(v)  BY SMT, <1>3, <1>4, <1>5 DEF Range
<1> QED  BY <1>1, <1>2, <1>3, <1>4, <1>6 DEF u, v

-----------------------------------------------------------------------------
(* The invariant *)

LineType == [of : Cmds \cup {0}, shape : Shapes \cup {<<"event">>}, at : Nat]

IsReplyLine(l) == l.of \in Cmds /\ l.shape \in Shapes /\ l.at \in DOMAIN l.shape

CmdType ==
  [st : {"new", "limited", "waits", "failed", "aborted", "timedout", "closed", "done"},
   reply : Seq(LineType)]

ControlTypeOK ==
  /\ cmd \in [Cmds -> CmdType]
  /\ pending \in Seq(Cmds) /\ torQueue \in Seq(Cmds)
  /\ lines \in Seq(LineType) /\ parser \in Seq(LineType)

\* a is before b on the wire: of an earlier command, or of the same reply.
Before(a, b) ==
  \/ a.of < b.of
  \/ a.of = b.of /\ a.shape = b.shape /\ a.at < b.at

\* The lines of replies on their way.
ReplyLines == {l \in Range(lines) : l # EventLine}

Ordered(q) ==
  \A i, j \in DOMAIN q : i < j /\ q[i] # EventLine /\ q[j] # EventLine => Before(q[i], q[j])

Increasing(q) == \A i, j \in DOMAIN q : i < j => q[i] < q[j]

\* The parser has the first lines of a reply and the others are on their way.
ParserInOrder ==
  parser # <<>> =>
    \E c \in Cmds, s \in Shapes :
      /\ Len(parser) < Len(s)
      /\ \A i \in DOMAIN parser : parser[i] = Line(c, s, i)
      /\ \A i \in (Len(parser) + 1) .. Len(s) : Line(c, s, i) \in ReplyLines
      /\ \A l \in ReplyLines : Before(Line(c, s, Len(parser)), l)

\* The commands whose reply is not read to its end.
Unanswered == Range(torQueue) \cup {l.of : l \in Range(parser) \cup ReplyLines}

\* Replies are whole, in the order of the commands, and before the ones tor has
\* still to give.
WireInOrder ==
  /\ Ordered(lines)
  /\ \A l \in ReplyLines :
       /\ IsReplyLine(l)
       /\ \A i \in DOMAIN l.shape : Line(l.of, l.shape, i) \in Range(parser) \cup ReplyLines
  /\ ParserInOrder
  /\ Increasing(torQueue)
  /\ \A l \in Range(parser) \cup ReplyLines, t \in Range(torQueue) : l.of < t

\* The queue of waiters and the unanswered commands begin alike.
QueueInOrder ==
  /\ Increasing(pending)
  /\ \A p \in Range(pending), t \in Unanswered :
       (t < p => t \in Range(pending)) /\ (p < t => p \in Unanswered)
  /\ socket = "up" => Range(pending) \subseteq Unanswered
  /\ socket # "broken" => Unanswered \subseteq Range(pending)

\* Commands are issued in their order, and only issued ones are under way.
IssuedInOrder == \A b, c \in Cmds : b < c /\ cmd[c].st # "new" => cmd[b].st # "new"

OnlyIssued == \A c \in Range(pending) \cup Unanswered : c \in Cmds /\ cmd[c].st # "new"

ControlInv ==
  /\ ControlTypeOK
  /\ IssuedInOrder
  /\ ~torn /\ reading => WireInOrder /\ QueueInOrder /\ OnlyIssued
  /\ ReplyIsOwn

-----------------------------------------------------------------------------
\* Two ordered sequences of lines, the first one before the second.
LEMMA JoinedOrdered ==
  ASSUME NEW S, NEW u \in Seq(S), NEW v \in Seq(S), Ordered(u), Ordered(v),
         \A a \in Range(u), b \in Range(v) : a # EventLine /\ b # EventLine => Before(a, b)
  PROVE  Ordered(u \o v)
<1> SUFFICES ASSUME NEW i \in DOMAIN (u \o v), NEW j \in DOMAIN (u \o v), i < j,
                    (u \o v)[i] # EventLine, (u \o v)[j] # EventLine
             PROVE  Before((u \o v)[i], (u \o v)[j])
  BY DEF Ordered
<1> DEFINE a == (u \o v)[i]
           b == (u \o v)[j]
<1>1. \/ i \in DOMAIN u /\ a = u[i]
      \/ i - Len(u) \in DOMAIN v /\ a = v[i - Len(u)] /\ i > Len(u)
  BY Joined
<1>2. \/ j \in DOMAIN u /\ b = u[j]
      \/ j - Len(u) \in DOMAIN v /\ b = v[j - Len(u)] /\ j > Len(u)
  BY Joined
<1>3. i \in Nat /\ j \in Nat /\ Len(u) \in Nat /\ DOMAIN u = 1 .. Len(u)  BY SMT
<1> HIDE DEF a, b
<1>4. CASE i \in DOMAIN u /\ a = u[i] /\ j \in DOMAIN u /\ b = u[j]
  BY <1>4 DEF Ordered, a, b
<1>5. CASE i \in DOMAIN u /\ a = u[i] /\ j - Len(u) \in DOMAIN v /\ b = v[j - Len(u)]
  <2>1. a \in Range(u) /\ b \in Range(v)  BY <1>5 DEF Range
  <2> QED  BY <2>1 DEF a, b
<1>6. CASE /\ i - Len(u) \in DOMAIN v /\ a = v[i - Len(u)]
           /\ j - Len(u) \in DOMAIN v /\ b = v[j - Len(u)]
  <2>1. i - Len(u) < j - Len(u)  BY SMT, <1>3
  <2> QED  BY <1>6, <2>1 DEF Ordered, a, b
<1>7. ~(i > Len(u) /\ j \in DOMAIN u)  BY SMT, <1>3
<1> QED  BY <1>1, <1>2, <1>4, <1>5, <1>6, <1>7

\* The first line of an ordered sequence is before the others.
LEMMA TailedOrdered ==
  ASSUME NEW S, NEW q \in Seq(S), q # <<>>, Ordered(q)
  PROVE  /\ Ordered(Tail(q))
         /\ Head(q) # EventLine =>
              \A b \in Range(Tail(q)) : b # EventLine => Before(Head(q), b)
<1>1. \A i \in DOMAIN Tail(q) : i + 1 \in DOMAIN q /\ Tail(q)[i] = q[i + 1] /\ 1 < i + 1
  BY Tailed
<1>2. 1 \in DOMAIN q /\ Head(q) = q[1] /\ \A i \in DOMAIN Tail(q) : i \in Nat  BY SMT
<1>3. Ordered(Tail(q))
  <2> SUFFICES ASSUME NEW i \in DOMAIN Tail(q), NEW j \in DOMAIN Tail(q), i < j,
                      Tail(q)[i] # EventLine, Tail(q)[j] # EventLine
               PROVE  Before(Tail(q)[i], Tail(q)[j])
    BY DEF Ordered
  <2>1. i + 1 < j + 1  BY SMT, <1>2
  <2> QED  BY <1>1, <2>1 DEF Ordered
<1>4. ASSUME NEW b \in Range(Tail(q)), b # EventLine, Head(q) # EventLine
      PROVE  Before(Head(q), b)
  <2>1. PICK i \in DOMAIN Tail(q) : b = Tail(q)[i]  BY DEF Range
  <2> QED  BY <1>1, <1>2, <1>4, <2>1 DEF Ordered
<1> QED  BY <1>3, <1>4

\* An event changes nothing of the order, wherever it comes.
LEMMA EventOrdered ==
  ASSUME NEW q \in Seq(LineType), NEW n \in 0 .. Len(q), Ordered(q),
         NEW r, r = SubSeq(q, 1, n) \o <<EventLine>> \o SubSeq(q, n + 1, Len(q))
  PROVE  r \in Seq(LineType) /\ Ordered(r) /\ Range(r) = Range(q) \cup {EventLine}
<1> DEFINE u == SubSeq(q, 1, n)
           v == SubSeq(q, n + 1, Len(q))
           e == <<EventLine>>
<1>1. /\ u \in Seq(LineType) /\ v \in Seq(LineType) /\ Range(q) = Range(u) \cup Range(v)
      /\ \A i \in DOMAIN u : i \in DOMAIN q /\ i <= n /\ u[i] = q[i]
      /\ \A i \in DOMAIN v : i + n \in DOMAIN q /\ i + n > n /\ v[i] = q[i + n]
  BY Cut
<1>2. EventLine \in LineType  BY DEF EventLine, Line, LineType
<1>3. e \in Seq(LineType) /\ Range(e) = {EventLine} /\ Ordered(e)  BY SMT, <1>2 DEF Range, Ordered
<1>4. r = (u \o e) \o v  OBVIOUS
<1> HIDE DEF u, v, e
<1>5. Ordered(u)  BY <1>1 DEF Ordered
<1>6. Ordered(v)
  <2> SUFFICES ASSUME NEW i \in DOMAIN v, NEW j \in DOMAIN v, i < j,
                      v[i] # EventLine, v[j] # EventLine
               PROVE  Before(v[i], v[j])
    BY DEF Ordered
  <2>1. i + n < j + n  BY SMT, <1>1
  <2> QED  BY <1>1, <2>1 DEF Ordered
<1>7. ASSUME NEW a \in Range(u), NEW b \in Range(v), a # EventLine, b # EventLine
      PROVE  Before(a, b)
  <2>1. PICK i \in DOMAIN u : a = u[i]  BY DEF Range
  <2>2. PICK j \in DOMAIN v : b = v[j]  BY DEF Range
  <2>3. i < j + n  BY SMT, <1>1, <2>1, <2>2
  <2> QED  BY <1>1, <1>7, <2>1, <2>2, <2>3 DEF Ordered
<1>8. /\ u \o e \in Seq(LineType) /\ Range(u \o e) = Range(u) \cup {EventLine}
      /\ Ordered(u \o e)
  <2>1. \A a \in Range(u), b \in Range(e) : a # EventLine /\ b # EventLine => Before(a, b)
    BY <1>3
  <2>2. Ordered(u \o e)  BY <1>1, <1>3, <1>5, <2>1, JoinedOrdered
  <2> QED  BY SMT, <1>1, <1>3, <2>2, Joined
<1>9. /\ (u \o e) \o v \in Seq(LineType) /\ Range((u \o e) \o v) = Range(u \o e) \cup Range(v)
  <2> DEFINE w == u \o e
  <2>1. w \in Seq(LineType) /\ v \in Seq(LineType)  BY <1>1, <1>8
  <2> HIDE DEF w
  <2>2. w \o v \in Seq(LineType) /\ Range(w \o v) = Range(w) \cup Range(v)  BY SMT, <2>1, Joined
  <2> QED  BY <2>2 DEF w
<1>10. Ordered((u \o e) \o v)  BY <1>1, <1>6, <1>7, <1>8, JoinedOrdered
<1> QED  BY <1>1, <1>4, <1>8, <1>9, <1>10

\* Increasing sequences of commands.
LEMMA IncreasingFacts ==
  ASSUME NEW q \in Seq(Cmds), Increasing(q)
  PROVE  /\ \A c \in Cmds : (\A b \in Range(q) : b < c) => Increasing(Append(q, c))
         /\ q # <<>> => Increasing(Tail(q)) /\ \A b \in Range(Tail(q)) : Head(q) < b
         /\ q # <<>> => LET front == SubSeq(q, 1, Len(q) - 1)
                            last  == q[Len(q)]
                        IN  /\ front \in Seq(Cmds) /\ Increasing(front) /\ last \in Cmds
                            /\ Range(q) = Range(front) \cup {last}
                            /\ \A b \in Range(front) : b < last
<1>0. DOMAIN q = 1 .. Len(q) /\ Len(q) \in Nat /\ \A i \in DOMAIN q : i \in Nat  BY SMT
<1>1. ASSUME NEW c \in Cmds, \A b \in Range(q) : b < c  PROVE Increasing(Append(q, c))
  <2> SUFFICES ASSUME NEW i \in DOMAIN Append(q, c), NEW j \in DOMAIN Append(q, c), i < j
               PROVE  Append(q, c)[i] < Append(q, c)[j]
    BY DEF Increasing
  <2>1. /\ DOMAIN Append(q, c) = 1 .. Len(q) + 1 /\ Append(q, c)[Len(q) + 1] = c
        /\ \A k \in 1 .. Len(q) : Append(q, c)[k] = q[k]
    BY SMT, Appended
  <2>2. i \in DOMAIN q /\ Append(q, c)[i] = q[i]  BY SMT, <1>0, <2>1
  <2>3. CASE j = Len(q) + 1  BY <1>1, <2>1, <2>2, <2>3 DEF Range
  <2>4. CASE j \in DOMAIN q  BY <1>0, <2>1, <2>2, <2>4 DEF Increasing
  <2> QED  BY SMT, <1>0, <2>1, <2>3, <2>4
<1>2. ASSUME q # <<>>  PROVE Increasing(Tail(q)) /\ \A b \in Range(Tail(q)) : Head(q) < b
  <2>1. /\ \A i \in DOMAIN Tail(q) : i + 1 \in DOMAIN q /\ Tail(q)[i] = q[i + 1] /\ 1 < i + 1
        /\ Head(q) = q[1]
    BY <1>2, Tailed
  <2>2. 1 \in DOMAIN q /\ \A i \in DOMAIN Tail(q) : i \in Nat  BY SMT, <1>2
  <2>3. ASSUME NEW i \in DOMAIN Tail(q), NEW j \in DOMAIN Tail(q), i < j
        PROVE  Tail(q)[i] < Tail(q)[j]
    <3>1. i + 1 < j + 1  BY SMT, <2>2, <2>3
    <3> QED  BY <2>1, <3>1 DEF Increasing
  <2>4. ASSUME NEW i \in DOMAIN Tail(q)  PROVE Head(q) < Tail(q)[i]
    BY <2>1, <2>2 DEF Increasing
  <2> QED  BY <2>3, <2>4 DEF Increasing, Range
<1>3. ASSUME q # <<>>
      PROVE  LET front == SubSeq(q, 1, Len(q) - 1)
                 last  == q[Len(q)]
             IN  /\ front \in Seq(Cmds) /\ Increasing(front) /\ last \in Cmds
                 /\ Range(q) = Range(front) \cup {last}
                 /\ \A b \in Range(front) : b < last
  <2> DEFINE front == SubSeq(q, 1, Len(q) - 1)
             last  == q[Len(q)]
  <2>1. Len(q) \in DOMAIN q /\ last \in Cmds  BY SMT, <1>0, <1>3
  <2>2. /\ front \in Seq(Cmds) /\ DOMAIN front = 1 .. Len(q) - 1
        /\ \A i \in 1 .. Len(q) - 1 : front[i] = q[i]
    BY SMT, <1>0, <1>3
  <2> HIDE DEF front
  <2>3. \A i \in DOMAIN front : i \in DOMAIN q /\ i < Len(q) /\ front[i] = q[i]
    BY SMT, <1>0, <2>2
  <2>4. Increasing(front)  BY <2>3 DEF Increasing
  <2>5. ASSUME NEW b \in Range(front)  PROVE b < last
    <3>1. PICK i \in DOMAIN front : b = front[i]  BY DEF Range
    <3> QED  BY <2>1, <2>3, <3>1 DEF Increasing
  <2>6. ASSUME NEW i \in DOMAIN q  PROVE q[i] \in Range(front) \cup {last}
    <3>1. CASE i = Len(q)  BY <3>1
    <3>2. CASE i # Len(q)
      <4>1. i \in DOMAIN front  BY SMT, <1>0, <2>2, <3>2
      <4> QED  BY <2>3, <4>1 DEF Range
    <3> QED  BY <3>1, <3>2
  <2>7. Range(q) = Range(front) \cup {last}  BY <2>1, <2>3, <2>6 DEF Range
  <2> QED  BY <2>1, <2>2, <2>4, <2>5, <2>7 DEF front
<1> QED  BY <1>1, <1>2, <1>3

-----------------------------------------------------------------------------
\* A line that is no event is of a shape.
LEMMA EventIsNoReply ==
  ASSUME NEW l, IsReplyLine(l)
  PROVE  /\ l # EventLine /\ Kind(l) # "event"
         /\ l.of \in Nat /\ l.at \in Nat \ {0} /\ l.at <= Len(l.shape)
<1>1. /\ l.shape \in Seq({"more", "data", "text", "dot", "end"})
      /\ l.at \in DOMAIN l.shape /\ l.of \in Nat \ {0}
  BY ControlAssumption DEF IsReplyLine
<1>2. /\ Kind(l) \in {"more", "data", "text", "dot", "end"}
      /\ l.at \in Nat \ {0} /\ l.at <= Len(l.shape)
  BY SMT, <1>1 DEF Kind
<1>3. EventLine.of = 0  BY DEF EventLine, Line
<1> QED  BY <1>1, <1>2, <1>3

\* The parser is at the end of a reply when it is at the last line of its shape.
LEMMA CompleteIsLast ==
  ASSUME NEW c, NEW s \in Shapes, NEW p, NEW n \in DOMAIN s,
         p \in Seq(LineType), Len(p) = n - 1, \A i \in DOMAIN p : p[i] = Line(c, s, i)
  PROVE  Complete(p, Line(c, s, n)) <=> n = Len(s)
<1>1. Kind(Line(c, s, n)) = s[n]  BY DEF Kind, Line
<1>2. n \in Nat /\ DOMAIN p = 1 .. (n - 1)  BY SMT, ControlAssumption
<1>3. \A i \in 1 .. (n - 1) : Kind(p[i]) = s[i]
  <2> SUFFICES ASSUME NEW i \in 1 .. (n - 1)  PROVE Kind(p[i]) = s[i]  OBVIOUS
  <2>1. p[i] = Line(c, s, i)  BY <1>2
  <2> QED  BY SMT, <2>1 DEF Kind, Line
<1>4. InBlock(p) <=>
        \E a \in 1 .. (n - 1) : s[a] = "data" /\ \A b \in (a + 1) .. (n - 1) : s[b] # "dot"
  <2>1. \A a \in 1 .. (n - 1) : \A b \in (a + 1) .. (n - 1) : b \in 1 .. (n - 1)  BY SMT, <1>2
  <2> QED  BY <1>2, <1>3, <2>1 DEF InBlock
<1>5. Complete(p, Line(c, s, n)) <=> Ends(s, n)  BY <1>1, <1>4 DEF Complete, Ends
<1> QED  BY <1>5, ControlAssumption

-----------------------------------------------------------------------------
\* Commands.
LEMMA SetFacts ==
  ASSUME cmd \in [Cmds -> CmdType]
  PROVE  \A cs : \A how \in {"limited", "waits", "failed", "aborted", "timedout", "closed"} :
           /\ Set(cs, how) \in [Cmds -> CmdType]
           /\ \A c \in Cmds : Set(cs, how)[c].st = "done" => Set(cs, how)[c] = cmd[c]
           /\ \A c \in Cmds : Set(cs, how)[c].st = IF c \in cs THEN how ELSE cmd[c].st
<1> SUFFICES ASSUME NEW cs,
                    NEW how \in {"limited", "waits", "failed", "aborted", "timedout", "closed"}
             PROVE  /\ Set(cs, how) \in [Cmds -> CmdType]
                    /\ \A c \in Cmds : Set(cs, how)[c].st = "done" => Set(cs, how)[c] = cmd[c]
                    /\ \A c \in Cmds : Set(cs, how)[c].st = IF c \in cs THEN how ELSE cmd[c].st
  OBVIOUS
<1> SUFFICES ASSUME NEW c \in Cmds
             PROVE  /\ Set(cs, how)[c] \in CmdType
                    /\ Set(cs, how)[c].st = "done" => Set(cs, how)[c] = cmd[c]
                    /\ Set(cs, how)[c].st = IF c \in cs THEN how ELSE cmd[c].st
  BY DEF Set
<1>1. Set(cs, how)[c] = IF c \in cs THEN [cmd[c] EXCEPT !.st = how] ELSE cmd[c]  BY DEF Set
<1>2. cmd[c] \in CmdType  OBVIOUS
<1>3. [cmd[c] EXCEPT !.st = how] \in CmdType /\ [cmd[c] EXCEPT !.st = how].st = how
  BY <1>2 DEF CmdType
<1> QED  BY <1>1, <1>2, <1>3

\* A command that is issued comes after the ones that were.
LEMMA IssuedLast ==
  ASSUME cmd \in [Cmds -> CmdType], IssuedInOrder, NEW c \in Cmds, Issues(c)
  PROVE  \A b \in Cmds : cmd[b].st # "new" => b < c
<1> SUFFICES ASSUME NEW b \in Cmds, cmd[b].st # "new"  PROVE b < c  OBVIOUS
<1>1. b \in Nat /\ c \in Nat  BY ControlAssumption
<1>2. b # c /\ cmd[c].st = "new"  BY DEF Issues
<1>3. ~(c < b)  BY <1>2 DEF IssuedInOrder
<1> QED  BY SMT, <1>1, <1>2, <1>3

\* The order of the commands stays when the next one is issued.
LEMMA IssuedKept ==
  ASSUME cmd \in [Cmds -> CmdType], IssuedInOrder, NEW c \in Cmds,
         Issues(c) \/ cmd[c].st # "new",
         \A b \in Cmds : b # c => (cmd'[b].st = "new" <=> cmd[b].st = "new"),
         cmd'[c].st # "new"
  PROVE  IssuedInOrder'
<1> SUFFICES ASSUME NEW a \in Cmds, NEW b \in Cmds, a < b, cmd'[b].st # "new"
             PROVE  cmd'[a].st # "new"
  BY DEF IssuedInOrder
<1>1. CASE a = c  BY <1>1
<1>2. CASE a # c /\ b # c  BY <1>2 DEF IssuedInOrder
<1>3. CASE a # c /\ b = c
  <2>1. a \in Nat \ {0} /\ c \in Nat  BY ControlAssumption
  <2>2. a \in 1 .. (c - 1)  BY SMT, <1>3, <2>1
  <2>3. cmd[a].st # "new"  BY <1>3, <2>2 DEF Issues, IssuedInOrder
  <2> QED  BY <1>3, <2>3
<1> QED  BY <1>1, <1>2, <1>3

\* A step that completes no command keeps the replies.
LEMMA OwnKept ==
  ASSUME ReplyIsOwn, torn => torn', \A c \in Cmds : cmd'[c].st = "done" => cmd'[c] = cmd[c]
  PROVE  ReplyIsOwn'
BY DEF ReplyIsOwn

\* A step that leaves the wire and the queue alone.
LEMMA SameWire ==
  ASSUME UNCHANGED <<pending, torQueue, lines, parser>>, socket' = socket
  PROVE  /\ WireInOrder => WireInOrder'
         /\ QueueInOrder => QueueInOrder'
         /\ Unanswered' = Unanswered
<1>1. ReplyLines' = ReplyLines  BY DEF ReplyLines
<1>2. Unanswered' = Unanswered  BY <1>1 DEF Unanswered
<1> QED  BY <1>1, <1>2 DEF WireInOrder, QueueInOrder, ParserInOrder

\* One command changes, and the others stay.
LEMMA OneSet ==
  ASSUME ControlInv, torn => torn', NEW c \in Cmds, Issues(c) \/ cmd[c].st # "new",
         NEW how \in {"limited", "waits", "failed", "aborted", "timedout", "closed"},
         cmd' = Set({c}, how)
  PROVE  /\ cmd' \in [Cmds -> CmdType] /\ IssuedInOrder' /\ ReplyIsOwn'
         /\ \A b \in Cmds : b = c \/ cmd[b].st # "new" => cmd'[b].st # "new"
<1>1. cmd \in [Cmds -> CmdType] /\ IssuedInOrder /\ ReplyIsOwn
  BY DEF ControlInv, ControlTypeOK
<1>2. /\ cmd' \in [Cmds -> CmdType]
      /\ \A b \in Cmds : cmd'[b].st = "done" => cmd'[b] = cmd[b]
      /\ \A b \in Cmds : cmd'[b].st = IF b \in {c} THEN how ELSE cmd[b].st
  BY SMT, <1>1, SetFacts
<1>3. ReplyIsOwn'  BY <1>1, <1>2, OwnKept
<1>4. cmd'[c].st # "new" /\ \A b \in Cmds : b # c => cmd'[b].st = cmd[b].st  BY <1>2
<1>5. IssuedInOrder'  BY <1>1, <1>4, IssuedKept
<1> QED  BY <1>2, <1>3, <1>4, <1>5

\* A command refused by the budget, or given up after thirty seconds.
LEMMA LimitedKeeps ==
  ASSUME ControlInv, NEW c \in Cmds, Cmd_Limited(c) \/ Cmd_TimesOut(c)
  PROVE  ControlInv'
<1>1. PICK how \in {"limited", "timedout"} :
        /\ cmd' = Set({c}, how)
        /\ Issues(c) \/ cmd[c].st # "new"
        /\ UNCHANGED <<pending, torQueue, lines, parser, socket, reading, events, torn>>
  BY DEF Cmd_Limited, Cmd_TimesOut, Waits
<1>2. /\ cmd' \in [Cmds -> CmdType] /\ IssuedInOrder' /\ ReplyIsOwn'
      /\ \A b \in Cmds : cmd[b].st # "new" => cmd'[b].st # "new"
  BY <1>1, OneSet
<1>3. ASSUME ~torn', reading'  PROVE WireInOrder' /\ QueueInOrder' /\ OnlyIssued'
  <2>1. WireInOrder /\ QueueInOrder /\ OnlyIssued  BY <1>1, <1>3 DEF ControlInv
  <2>2. WireInOrder' /\ QueueInOrder' /\ Unanswered' = Unanswered
    BY <1>1, <2>1, SameWire
  <2> QED  BY <1>1, <1>2, <2>1, <2>2 DEF OnlyIssued
<1>4. ControlTypeOK'  BY <1>1, <1>2 DEF ControlInv, ControlTypeOK
<1> QED  BY <1>2, <1>3, <1>4 DEF ControlInv

\* A command is written and its waiter queued, under one lock.
LEMMA WrittenKeeps ==
  ASSUME ControlInv, NEW c \in Cmds, Cmd_Written(c)
  PROVE  ControlInv'
<1>1. /\ Issues(c) /\ socket # "broken" /\ cmd' = Set({c}, "waits")
      /\ pending' = Append(pending, c)
      /\ torQueue' = IF socket = "up" THEN Append(torQueue, c) ELSE torQueue
      /\ UNCHANGED <<lines, parser, socket, reading, events, torn>>
  BY DEF Cmd_Written
<1>2. /\ cmd' \in [Cmds -> CmdType] /\ IssuedInOrder' /\ ReplyIsOwn'
      /\ \A b \in Cmds : b = c \/ cmd[b].st # "new" => cmd'[b].st # "new"
  BY <1>1, OneSet
<1>3. /\ pending \in Seq(Cmds) /\ torQueue \in Seq(Cmds) /\ cmd \in [Cmds -> CmdType]
      /\ IssuedInOrder
  BY DEF ControlInv, ControlTypeOK
<1>4. /\ pending' \in Seq(Cmds) /\ Range(pending') = Range(pending) \cup {c}
      /\ torQueue' \in Seq(Cmds)
      /\ Range(torQueue') = IF socket = "up" THEN Range(torQueue) \cup {c} ELSE Range(torQueue)
  <2>1. Append(pending, c) \in Seq(Cmds) /\ Range(Append(pending, c)) = Range(pending) \cup {c}
    BY SMT, <1>3, Appended
  <2>2. Append(torQueue, c) \in Seq(Cmds) /\ Range(Append(torQueue, c)) = Range(torQueue) \cup {c}
    BY SMT, <1>3, Appended
  <2> QED  BY <1>1, <1>3, <2>1, <2>2
<1>5. ControlTypeOK'  BY <1>1, <1>2, <1>4 DEF ControlInv, ControlTypeOK
<1>6. ASSUME ~torn', reading'  PROVE WireInOrder' /\ QueueInOrder' /\ OnlyIssued'
  <2>1. WireInOrder /\ QueueInOrder /\ OnlyIssued  BY <1>1, <1>6 DEF ControlInv
  <2>2. ReplyLines' = ReplyLines  BY <1>1 DEF ReplyLines
  <2>3. Unanswered' = IF socket = "up" THEN Unanswered \cup {c} ELSE Unanswered
    BY <1>1, <1>4, <2>2 DEF Unanswered
  <2>4. \A b \in Range(pending) \cup Unanswered : b < c /\ b \in Nat
    BY <1>1, <1>3, <2>1, IssuedLast, ControlAssumption DEF OnlyIssued
  <2>5. c \in Nat  BY ControlAssumption
  <2>6. /\ \A b \in Range(torQueue) : b < c
        /\ \A l \in Range(parser) \cup ReplyLines : l.of < c
    BY <2>4 DEF Unanswered
  <2>7. Increasing(pending')
    BY <1>1, <1>3, <2>1, <2>4, IncreasingFacts DEF QueueInOrder
  <2>8. Increasing(torQueue')
    BY <1>1, <1>3, <2>1, <2>6, IncreasingFacts DEF WireInOrder
  <2>9. WireInOrder'
    <3>1. ParserInOrder'  BY <1>1, <2>1, <2>2 DEF WireInOrder, ParserInOrder
    <3>2. \A l \in Range(parser') \cup ReplyLines', t \in Range(torQueue') : l.of < t
      BY <1>1, <1>4, <2>1, <2>2, <2>6 DEF WireInOrder
    <3> QED  BY <1>1, <2>1, <2>2, <2>8, <3>1, <3>2 DEF WireInOrder
  <2>10. QueueInOrder'
    <3>1. ASSUME NEW q \in Range(pending'), NEW t \in Unanswered'
          PROVE  (t < q => t \in Range(pending')) /\ (q < t => q \in Unanswered')
      BY SMT, <1>1, <1>4, <2>1, <2>3, <2>4, <2>5 DEF QueueInOrder
    <3>2. /\ socket' = "up" => Range(pending') \subseteq Unanswered'
          /\ socket' # "broken" => Unanswered' \subseteq Range(pending')
      BY <1>1, <1>4, <2>1, <2>3 DEF QueueInOrder
    <3> QED  BY <2>7, <3>1, <3>2 DEF QueueInOrder
  <2>11. OnlyIssued'  BY <1>2, <1>4, <2>1, <2>3 DEF OnlyIssued
  <2> QED  BY <2>9, <2>10, <2>11
<1> QED  BY <1>2, <1>5, <1>6 DEF ControlInv

\* A task aborted between the two: from here on nothing is claimed (`torn`).
LEMMA AbortedKeeps ==
  ASSUME ControlInv, NEW c \in Cmds, Cmd_Aborted(c)
  PROVE  ControlInv'
<1>1. /\ Issues(c) /\ cmd' = Set({c}, "aborted") /\ torQueue' = Append(torQueue, c) /\ torn'
      /\ UNCHANGED <<pending, lines, parser, socket, reading, events>>
  BY DEF Cmd_Aborted
<1>2. cmd' \in [Cmds -> CmdType] /\ IssuedInOrder' /\ ReplyIsOwn'  BY <1>1, OneSet
<1>3. torQueue' \in Seq(Cmds)  BY SMT, <1>1 DEF ControlInv, ControlTypeOK
<1>4. ControlTypeOK'  BY <1>1, <1>2, <1>3 DEF ControlInv, ControlTypeOK
<1> QED  BY <1>1, <1>2, <1>4 DEF ControlInv

\* A write that fails drops the last waiter, which tor will not answer either.
LEMMA NotWrittenKeeps ==
  ASSUME ControlInv, NEW c \in Cmds, Cmd_NotWritten(c)
  PROVE  ControlInv'
<1> DEFINE last == IF pending = <<>> THEN {} ELSE {pending[Len(pending)]}
           left == {b \in last : Waits(b)}
           m    == Set(left, "closed")
<1>1. /\ Issues(c) /\ socket' = "broken" /\ cmd' = [m EXCEPT ![c].st = "failed"]
      /\ pending' = IF pending = <<>> THEN <<>> ELSE SubSeq(pending, 1, Len(pending) - 1)
      /\ UNCHANGED <<torQueue, lines, parser, reading, events, torn>>
  BY DEF Cmd_NotWritten
<1>2. cmd \in [Cmds -> CmdType] /\ IssuedInOrder /\ ReplyIsOwn /\ pending \in Seq(Cmds)
  BY DEF ControlInv, ControlTypeOK
<1>3. /\ m \in [Cmds -> CmdType]
      /\ \A b \in Cmds : m[b].st = "done" => m[b] = cmd[b]
      /\ \A b \in Cmds : m[b].st = "new" <=> cmd[b].st = "new"
  <2>1. \A b \in left : cmd[b].st = "waits"  BY DEF Waits
  <2> HIDE DEF left
  <2>2. /\ m \in [Cmds -> CmdType]
        /\ \A b \in Cmds : m[b].st = "done" => m[b] = cmd[b]
        /\ \A b \in Cmds : m[b].st = IF b \in left THEN "closed" ELSE cmd[b].st
    BY ZenonT(60), <1>2, SetFacts
  <2> QED  BY <2>1, <2>2
<1> HIDE DEF m
<1>4. /\ cmd' \in [Cmds -> CmdType] /\ cmd'[c].st = "failed"
      /\ \A b \in Cmds : b # c => cmd'[b] = m[b]
  <2>1. m[c] \in CmdType  BY <1>3
  <2>2. [m[c] EXCEPT !.st = "failed"] \in CmdType  BY <2>1 DEF CmdType
  <2>3. cmd' = [m EXCEPT ![c] = [m[c] EXCEPT !.st = "failed"]]  BY <1>1
  <2>4. [m[c] EXCEPT !.st = "failed"].st = "failed"  BY <2>1 DEF CmdType
  <2> DEFINE w == [m[c] EXCEPT !.st = "failed"]
  <2> HIDE DEF w
  <2>5. cmd' = [m EXCEPT ![c] = w] /\ w \in CmdType /\ w.st = "failed"  BY <2>2, <2>3, <2>4 DEF w
  <2> QED  BY <1>3, <2>5
<1>5. ReplyIsOwn'
  <2>1. \A b \in Cmds : cmd'[b].st = "done" => cmd'[b] = cmd[b]  BY <1>3, <1>4
  <2> QED  BY <1>1, <1>2, <2>1, OwnKept
<1>6. /\ \A b \in Cmds : b # c => (cmd'[b].st = "new" <=> cmd[b].st = "new")
      /\ cmd'[c].st # "new"
  BY <1>3, <1>4
<1>7. IssuedInOrder'  BY <1>1, <1>2, <1>6, IssuedKept
<1>8. /\ pending' \in Seq(Cmds) /\ Range(pending') \subseteq Range(pending)
      /\ Increasing(pending) =>
           /\ Increasing(pending')
           /\ \A q \in Range(pending'), t \in Range(pending) : t < q => t \in Range(pending')
  <2>1. CASE pending = <<>>  BY SMT, <1>1, <2>1 DEF Increasing, Range
  <2>2. CASE pending # <<>>
    <3>1. pending' = SubSeq(pending, 1, Len(pending) - 1)  BY <1>1, <2>2
    <3>2. Len(pending) - 1 \in 0 .. Len(pending)  BY SMT, <1>2, <2>2
    <3>3. pending' \in Seq(Cmds) /\ Range(pending') \subseteq Range(pending)
      BY SMT, <1>2, <3>1, <3>2, Cut
    <3>4. ASSUME Increasing(pending)
          PROVE  /\ Increasing(pending')
                 /\ \A q \in Range(pending'), t \in Range(pending) : t < q => t \in Range(pending')
      <4> DEFINE z == pending[Len(pending)]
      <4>1. /\ Increasing(pending') /\ z \in Cmds /\ Range(pending) = Range(pending') \cup {z}
            /\ \A b \in Range(pending') : b < z
        BY <1>2, <2>2, <3>1, <3>4, IncreasingFacts
      <4>2. z \in Nat /\ \A b \in Range(pending') : b \in Nat
        BY SMT, <4>1, <3>3, ControlAssumption DEF Range
      <4> HIDE DEF z
      <4> QED  BY SMT, <4>1, <4>2
    <3> QED  BY <3>3, <3>4
  <2> QED  BY <2>1, <2>2
<1>9. ControlTypeOK'  BY <1>1, <1>4, <1>8 DEF ControlInv, ControlTypeOK
<1>10. ASSUME ~torn', reading'  PROVE WireInOrder' /\ QueueInOrder' /\ OnlyIssued'
  <2>1. WireInOrder /\ QueueInOrder /\ OnlyIssued  BY <1>1, <1>10 DEF ControlInv
  <2>2. ReplyLines' = ReplyLines  BY <1>1 DEF ReplyLines
  <2>3. Unanswered' = Unanswered  BY <1>1, <2>2 DEF Unanswered
  <2>4. WireInOrder'  BY <1>1, <2>1, <2>2 DEF WireInOrder, ParserInOrder
  <2>5. QueueInOrder'  BY <1>1, <1>8, <2>1, <2>3 DEF QueueInOrder
  <2>6. OnlyIssued'  BY <1>6, <1>8, <2>1, <2>3 DEF OnlyIssued
  <2> QED  BY <2>4, <2>5, <2>6
<1> QED  BY <1>5, <1>7, <1>9, <1>10 DEF ControlInv

\* The connection breaks on tor's side.
LEMMA BreaksKeeps ==
  ASSUME ControlInv, Breaks
  PROVE  ControlInv'
<1>1. /\ socket = "up" /\ socket' = "down"
      /\ UNCHANGED <<cmd, pending, torQueue, lines, parser, reading, events, torn>>
  BY DEF Breaks
<1>2. ReplyLines' = ReplyLines  BY <1>1 DEF ReplyLines
<1>3. Unanswered' = Unanswered  BY <1>1, <1>2 DEF Unanswered
<1>4. WireInOrder => WireInOrder'  BY <1>1, <1>2 DEF WireInOrder, ParserInOrder
<1>5. QueueInOrder => QueueInOrder'  BY <1>1, <1>3 DEF QueueInOrder
<1>6. OnlyIssued => OnlyIssued'  BY <1>1, <1>3 DEF OnlyIssued
<1>7. ControlTypeOK' /\ IssuedInOrder' /\ ReplyIsOwn'
  BY <1>1 DEF ControlInv, ControlTypeOK, IssuedInOrder, ReplyIsOwn
<1> QED  BY <1>1, <1>4, <1>5, <1>6, <1>7 DEF ControlInv

\* The reader ends and fails every waiter.
LEMMA ReaderEndsKeeps ==
  ASSUME ControlInv, ReaderEnds
  PROVE  ControlInv'
<1> DEFINE left == {c \in Range(pending) : Waits(c)}
<1>1. /\ reading' = FALSE /\ pending' = <<>> /\ lines' = <<>> /\ cmd' = Set(left, "closed")
      /\ UNCHANGED <<torQueue, parser, socket, events, torn>>
  BY DEF ReaderEnds
<1>2. cmd \in [Cmds -> CmdType] /\ IssuedInOrder /\ ReplyIsOwn
  BY DEF ControlInv, ControlTypeOK
<1>3. \A b \in left : cmd[b].st = "waits"  BY DEF Waits
<1> HIDE DEF left
<1>4. /\ cmd' \in [Cmds -> CmdType]
      /\ \A b \in Cmds : cmd'[b].st = "done" => cmd'[b] = cmd[b]
      /\ \A b \in Cmds : cmd'[b].st = IF b \in left THEN "closed" ELSE cmd[b].st
  BY SMT, <1>1, <1>2, SetFacts
<1>5. \A b \in Cmds : cmd'[b].st = "new" <=> cmd[b].st = "new"  BY <1>3, <1>4
<1>6. IssuedInOrder'  BY <1>2, <1>5 DEF IssuedInOrder
<1>7. ReplyIsOwn'  BY <1>1, <1>2, <1>4, OwnKept
<1>8. pending' \in Seq(Cmds) /\ lines' \in Seq(LineType)  BY SMT, <1>1
<1>9. ControlTypeOK'  BY <1>1, <1>4, <1>8 DEF ControlInv, ControlTypeOK
<1> QED  BY <1>1, <1>6, <1>7, <1>9 DEF ControlInv

\* An event, at any place among the lines.
LEMMA EventKeeps ==
  ASSUME ControlInv, Event
  PROVE  ControlInv'
<1>1. PICK n \in 0 .. Len(lines) :
        /\ lines' = SubSeq(lines, 1, n) \o <<EventLine>> \o SubSeq(lines, n + 1, Len(lines))
        /\ UNCHANGED <<cmd, pending, torQueue, parser, socket, reading, torn>>
  BY DEF Event
<1>2. lines \in Seq(LineType)  BY DEF ControlInv, ControlTypeOK
<1>3. ASSUME Ordered(lines)
      PROVE  /\ lines' \in Seq(LineType) /\ Ordered(lines')
             /\ Range(lines') = Range(lines) \cup {EventLine}
  BY <1>1, <1>2, <1>3, EventOrdered
<1>4. lines' \in Seq(LineType)
  <2>1. EventLine \in LineType  BY DEF EventLine, Line, LineType
  <2> QED  BY SMT, <1>1, <1>2, <2>1
<1>5. ControlTypeOK' /\ IssuedInOrder' /\ ReplyIsOwn'
  BY <1>1, <1>4 DEF ControlInv, ControlTypeOK, IssuedInOrder, ReplyIsOwn
<1>6. ASSUME ~torn', reading'  PROVE WireInOrder' /\ QueueInOrder' /\ OnlyIssued'
  <2>1. WireInOrder /\ QueueInOrder /\ OnlyIssued  BY <1>1, <1>6 DEF ControlInv
  <2>2. Ordered(lines') /\ Range(lines') = Range(lines) \cup {EventLine}
    BY <1>3, <2>1 DEF WireInOrder
  <2>3. ReplyLines' = ReplyLines  BY <2>2 DEF ReplyLines
  <2>4. Unanswered' = Unanswered  BY <1>1, <2>3 DEF Unanswered
  <2>5. WireInOrder'  BY <1>1, <2>1, <2>2, <2>3 DEF WireInOrder, ParserInOrder
  <2>6. QueueInOrder' /\ OnlyIssued'  BY <1>1, <2>1, <2>4 DEF QueueInOrder, OnlyIssued
  <2> QED  BY <2>5, <2>6
<1> QED  BY <1>5, <1>6 DEF ControlInv

\* The lines of one whole reply.
LEMMA ReplyFacts ==
  ASSUME NEW t \in Cmds, NEW s \in Shapes, NEW r, r = [i \in DOMAIN s |-> Line(t, s, i)]
  PROVE  /\ r \in Seq(LineType) /\ Ordered(r) /\ Range(r) = {Line(t, s, i) : i \in DOMAIN s}
         /\ \A l \in Range(r) : l # EventLine /\ l.of = t /\ l.shape = s /\ IsReplyLine(l)
         /\ Line(t, s, 1) \in Range(r)
<1>1. /\ s \in Seq({"more", "data", "text", "dot", "end"}) /\ s # <<>> /\ t \in Nat \ {0}
  BY ControlAssumption
<1>2. DOMAIN s = 1 .. Len(s) /\ Len(s) \in Nat /\ 1 \in DOMAIN s  BY SMT, <1>1
<1>3. \A i \in DOMAIN s : Line(t, s, i) \in LineType  BY SMT, <1>2 DEF Line, LineType
<1>4. r \in Seq(LineType)  BY SMT, <1>2, <1>3
<1>5. Range(r) = {Line(t, s, i) : i \in DOMAIN s}  BY DEF Range
<1>6. \A i \in DOMAIN s : Line(t, s, i).of = t /\ Line(t, s, i).shape = s /\ Line(t, s, i).at = i
  BY DEF Line
<1>7. EventLine.of = 0  BY DEF EventLine, Line
<1>8. \A l \in Range(r) : l # EventLine /\ l.of = t /\ l.shape = s /\ IsReplyLine(l)
  BY SMT, <1>1, <1>5, <1>6, <1>7 DEF IsReplyLine
<1>9. Ordered(r)  BY SMT, <1>6 DEF Ordered, Before
<1> QED  BY <1>2, <1>4, <1>5, <1>8, <1>9

\* Tor answers the oldest command it has read.
LEMMA AnswersKeeps ==
  ASSUME ControlInv, Answers
  PROVE  ControlInv'
<1> DEFINE t == Head(torQueue)
<1>1. PICK s \in Shapes : lines' = lines \o [i \in DOMAIN s |-> Line(t, s, i)]  BY DEF Answers
<1>2. /\ torQueue # <<>> /\ torQueue' = Tail(torQueue)
      /\ UNCHANGED <<cmd, pending, parser, socket, reading, events, torn>>
  BY DEF Answers
<1>3. lines \in Seq(LineType) /\ torQueue \in Seq(Cmds) /\ parser \in Seq(LineType)
  BY DEF ControlInv, ControlTypeOK
<1>4. t \in Cmds /\ torQueue' \in Seq(Cmds) /\ Range(torQueue) = {t} \cup Range(torQueue')
  BY <1>2, <1>3, Tailed
<1> HIDE DEF t
<1> DEFINE r == [i \in DOMAIN s |-> Line(t, s, i)]
<1>5. /\ r \in Seq(LineType) /\ Ordered(r) /\ Range(r) = {Line(t, s, i) : i \in DOMAIN s}
      /\ \A l \in Range(r) : l # EventLine /\ l.of = t /\ l.shape = s /\ IsReplyLine(l)
      /\ Line(t, s, 1) \in Range(r)
  BY <1>4, ReplyFacts
<1>6. lines' = lines \o r  BY <1>1
<1> HIDE DEF r
<1>7. lines' \in Seq(LineType) /\ Range(lines') = Range(lines) \cup Range(r)
  BY SMT, <1>3, <1>5, <1>6, Joined
<1>8. ControlTypeOK' /\ IssuedInOrder' /\ ReplyIsOwn'
  BY <1>2, <1>4, <1>7 DEF ControlInv, ControlTypeOK, IssuedInOrder, ReplyIsOwn
<1>9. ASSUME ~torn', reading'  PROVE WireInOrder' /\ QueueInOrder' /\ OnlyIssued'
  <2>1. WireInOrder /\ QueueInOrder /\ OnlyIssued  BY <1>2, <1>9 DEF ControlInv
  <2>2. ReplyLines' = ReplyLines \cup Range(r)  BY <1>5, <1>7 DEF ReplyLines
  <2>3. \A l \in Range(parser) \cup ReplyLines : l.of < t
    BY <1>4, <2>1 DEF WireInOrder
  <2>4. \A b \in Range(torQueue') : t < b
    BY <1>2, <1>3, <2>1, IncreasingFacts DEF WireInOrder, t
  <2>5. Increasing(torQueue')
    BY <1>2, <1>3, <2>1, IncreasingFacts DEF WireInOrder
  <2>6. Ordered(lines')
    <3>1. \A a \in Range(lines), b \in Range(r) : a # EventLine /\ b # EventLine => Before(a, b)
      BY <1>5, <2>3 DEF ReplyLines, Before
    <3>2. Ordered(lines)  BY <2>1 DEF WireInOrder
    <3> QED  BY <1>3, <1>5, <1>6, <3>1, <3>2, JoinedOrdered
  <2>7. Unanswered' = Unanswered
    <3>1. {l.of : l \in Range(parser') \cup ReplyLines'} =
            {l.of : l \in Range(parser) \cup ReplyLines} \cup {t}
      BY <1>2, <1>5, <2>2
    <3> QED  BY <1>4, <3>1 DEF Unanswered
  <2>8. ParserInOrder'
    <3> SUFFICES ASSUME parser # <<>>
                 PROVE  \E c \in Cmds, z \in Shapes :
                          /\ Len(parser) < Len(z)
                          /\ \A i \in DOMAIN parser : parser[i] = Line(c, z, i)
                          /\ \A i \in (Len(parser) + 1) .. Len(z) : Line(c, z, i) \in ReplyLines'
                          /\ \A l \in ReplyLines' : Before(Line(c, z, Len(parser)), l)
      BY <1>2 DEF ParserInOrder
    <3>1. PICK c \in Cmds, z \in Shapes :
            /\ Len(parser) < Len(z)
            /\ \A i \in DOMAIN parser : parser[i] = Line(c, z, i)
            /\ \A i \in (Len(parser) + 1) .. Len(z) : Line(c, z, i) \in ReplyLines
            /\ \A l \in ReplyLines : Before(Line(c, z, Len(parser)), l)
      BY <2>1 DEF WireInOrder, ParserInOrder
    <3>2. 1 \in DOMAIN parser  BY SMT, <1>3
    <3>3. Line(c, z, 1) \in Range(parser)  BY <3>1, <3>2 DEF Range
    <3>4. Line(c, z, 1).of = c /\ Line(c, z, Len(parser)).of = c  BY DEF Line
    <3>5. c < t  BY <2>3, <3>3, <3>4
    <3>6. \A l \in Range(r) : Before(Line(c, z, Len(parser)), l)
      BY <1>5, <3>4, <3>5 DEF Before
    <3> QED  BY <2>2, <3>1, <3>6
  <2>9. \A l \in ReplyLines' :
          /\ IsReplyLine(l)
          /\ \A i \in DOMAIN l.shape : Line(l.of, l.shape, i) \in Range(parser') \cup ReplyLines'
    BY <1>2, <1>5, <2>1, <2>2 DEF WireInOrder
  <2>10. \A l \in Range(parser') \cup ReplyLines', b \in Range(torQueue') : l.of < b
    <3>1. \A l \in Range(parser) \cup ReplyLines, b \in Range(torQueue') : l.of < b
      BY <1>4, <2>1 DEF WireInOrder
    <3> QED  BY <1>2, <1>5, <2>2, <2>4, <3>1
  <2>11. WireInOrder'  BY <2>5, <2>6, <2>8, <2>9, <2>10 DEF WireInOrder
  <2>12. QueueInOrder' /\ OnlyIssued'  BY <1>2, <2>1, <2>7 DEF QueueInOrder, OnlyIssued
  <2> QED  BY <2>11, <2>12
<1> QED  BY <1>8, <1>9 DEF ControlInv

-----------------------------------------------------------------------------
\* The next line that is no event is the next one of the reply in the parser, or
\* the first one of a reply.
LEMMA NextLine ==
  ASSUME ControlTypeOK, WireInOrder, lines # <<>>, Head(lines) # EventLine
  PROVE  \E c \in Cmds, s \in Shapes :
           LET n    == Len(parser) + 1
               rest == {l \in Range(Tail(lines)) : l # EventLine}
           IN  /\ n \in DOMAIN s /\ Head(lines) = Line(c, s, n)
               /\ \A i \in DOMAIN parser : parser[i] = Line(c, s, i)
               /\ \A i \in (n + 1) .. Len(s) : Line(c, s, i) \in rest
               /\ \A l \in rest : Before(Head(lines), l)
               /\ ReplyLines = {Head(lines)} \cup rest
<1> DEFINE h == Head(lines)
           n == Len(parser) + 1
           rest == {l \in Range(Tail(lines)) : l # EventLine}
<1>1. lines \in Seq(LineType) /\ parser \in Seq(LineType)  BY DEF ControlTypeOK
<1>2. h \in LineType /\ Range(lines) = {h} \cup Range(Tail(lines))  BY <1>1, Tailed
<1>3. \A l \in rest : Before(h, l)  BY <1>1, TailedOrdered DEF WireInOrder
<1>4. ReplyLines = {h} \cup rest  BY <1>2 DEF ReplyLines
<1>5. IsReplyLine(h) /\ h \in ReplyLines  BY <1>4 DEF WireInOrder
<1>6. h = Line(h.of, h.shape, h.at)  BY <1>2 DEF LineType, Line
<1>7. n \in Nat /\ Len(parser) \in Nat  BY SMT, <1>1
<1>8. \A c, z, i : Line(c, z, i).of = c /\ Line(c, z, i).shape = z /\ Line(c, z, i).at = i
  BY DEF Line
<1>9. \A z \in Shapes : z \in Seq({"more", "data", "text", "dot", "end"}) /\ z # <<>>
  BY ControlAssumption
<1>10. \A c \in Cmds : c \in Nat  BY ControlAssumption
<1>11. h.of \in Cmds /\ h.shape \in Shapes /\ h.at \in DOMAIN h.shape  BY <1>5 DEF IsReplyLine
<1>12. h.at \in Nat /\ h.of \in Nat  BY SMT, <1>9, <1>10, <1>11
<1> HIDE DEF h, rest, n
<1>13. CASE parser = <<>>
  <2>1. n = 1  BY SMT, <1>13 DEF n
  <2>2. 1 \in DOMAIN h.shape  BY SMT, <1>9, <1>11
  <2>3. Line(h.of, h.shape, 1) \in ReplyLines
    BY SMT, <1>5, <1>13, <2>2 DEF WireInOrder, Range
  <2>4. h.at = 1
    <3>1. Line(h.of, h.shape, 1) = h \/ Before(h, Line(h.of, h.shape, 1))  BY <1>3, <1>4, <2>3
    <3>2. h.at >= 1  BY SMT, <1>9, <1>11
    <3> QED  BY SMT, <1>8, <1>12, <3>1, <3>2 DEF Before
  <2>5. h = Line(h.of, h.shape, n)  BY <1>6, <2>1, <2>4
  <2>6. \A i \in (n + 1) .. Len(h.shape) : Line(h.of, h.shape, i) \in rest
    <3> SUFFICES ASSUME NEW i \in (n + 1) .. Len(h.shape)  PROVE Line(h.of, h.shape, i) \in rest
      OBVIOUS
    <3>1. i \in DOMAIN h.shape /\ i # 1  BY SMT, <1>9, <1>11, <2>1
    <3>2. Line(h.of, h.shape, i) \in ReplyLines  BY SMT, <1>5, <1>13, <3>1 DEF WireInOrder, Range
    <3>3. Line(h.of, h.shape, i) # h  BY SMT, <1>8, <2>4, <3>1
    <3> QED  BY <1>4, <3>2, <3>3
  <2>7. DOMAIN parser = {}  BY SMT, <1>13
  <2> QED  BY <1>3, <1>4, <1>11, <2>1, <2>2, <2>5, <2>6, <2>7 DEF h, rest, n
<1>14. CASE parser # <<>>
  <2>1. PICK c \in Cmds, z \in Shapes :
          /\ Len(parser) < Len(z)
          /\ \A i \in DOMAIN parser : parser[i] = Line(c, z, i)
          /\ \A i \in (Len(parser) + 1) .. Len(z) : Line(c, z, i) \in ReplyLines
          /\ \A l \in ReplyLines : Before(Line(c, z, Len(parser)), l)
    BY <1>14 DEF WireInOrder, ParserInOrder
  <2>2. z \in Seq({"more", "data", "text", "dot", "end"}) /\ Len(z) \in Nat /\ c \in Nat
    BY SMT, <1>9, <1>10
  <2>3. n \in DOMAIN z /\ n \in (Len(parser) + 1) .. Len(z)  BY SMT, <1>7, <2>1, <2>2 DEF n
  <2>4. Line(c, z, n) = h \/ Before(h, Line(c, z, n))  BY <1>3, <1>4, <2>1, <2>3
  <2>5. Before(Line(c, z, Len(parser)), h)  BY <1>5, <2>1
  <2>6. c < h.of \/ (c = h.of /\ z = h.shape /\ Len(parser) < h.at)
    BY SMT, <1>8, <2>5 DEF Before
  <2>7. Line(c, z, n) = h \/ h.of < c \/ (h.of = c /\ h.at < n)
    BY SMT, <1>8, <2>4 DEF Before
  <2>8. h = Line(c, z, n)  BY SMT, <1>7, <1>12, <2>2, <2>6, <2>7 DEF n
  <2>9. \A i \in (n + 1) .. Len(z) : Line(c, z, i) \in rest
    <3> SUFFICES ASSUME NEW i \in (n + 1) .. Len(z)  PROVE Line(c, z, i) \in rest
      OBVIOUS
    <3>1. i \in (Len(parser) + 1) .. Len(z) /\ i # n  BY SMT, <1>7, <2>2 DEF n
    <3>2. Line(c, z, i) # h  BY SMT, <1>8, <2>8, <3>1
    <3> QED  BY <1>4, <2>1, <3>1, <3>2
  <2> QED  BY <1>3, <1>4, <2>1, <2>3, <2>8, <2>9 DEF h, rest, n
<1> QED  BY <1>13, <1>14

\* An event goes past the parser.
LEMMA FeedEventKeeps ==
  ASSUME ControlInv, Feed, Kind(Head(lines)) = "event"
  PROVE  ControlInv'
<1>1. /\ lines # <<>> /\ lines' = Tail(lines) /\ reading
      /\ UNCHANGED <<cmd, pending, parser, torQueue, socket, reading, events, torn>>
  BY DEF Feed
<1>2. lines \in Seq(LineType)  BY DEF ControlInv, ControlTypeOK
<1>3. lines' \in Seq(LineType) /\ Range(lines) = {Head(lines)} \cup Range(lines')
  BY <1>1, <1>2, Tailed
<1>4. ControlTypeOK' /\ IssuedInOrder' /\ ReplyIsOwn'
  BY <1>1, <1>3 DEF ControlInv, ControlTypeOK, IssuedInOrder, ReplyIsOwn
<1>5. ASSUME ~torn', reading'  PROVE WireInOrder' /\ QueueInOrder' /\ OnlyIssued'
  <2>1. WireInOrder /\ QueueInOrder /\ OnlyIssued  BY <1>1, <1>5 DEF ControlInv
  <2>2. Ordered(lines')  BY <1>1, <1>2, <2>1, TailedOrdered DEF WireInOrder
  <2>3. Head(lines) = EventLine
    <3>1. Head(lines) # EventLine => IsReplyLine(Head(lines))
      BY <1>3, <2>1 DEF WireInOrder, ReplyLines
    <3> QED  BY <3>1, EventIsNoReply
  <2>4. ReplyLines' = ReplyLines  BY <1>3, <2>3 DEF ReplyLines
  <2>5. Unanswered' = Unanswered  BY <1>1, <2>4 DEF Unanswered
  <2>6. WireInOrder'  BY <1>1, <2>1, <2>2, <2>4 DEF WireInOrder, ParserInOrder
  <2>7. QueueInOrder' /\ OnlyIssued'  BY <1>1, <2>1, <2>5 DEF QueueInOrder, OnlyIssued
  <2> QED  BY <2>6, <2>7
<1> QED  BY <1>4, <1>5 DEF ControlInv

\* A line that does not end the reply.
LEMMA FeedLineKeeps ==
  ASSUME ControlInv, Feed, Kind(Head(lines)) # "event", ~Complete(parser, Head(lines))
  PROVE  ControlInv'
<1> DEFINE h == Head(lines)
<1>1. /\ lines # <<>> /\ lines' = Tail(lines) /\ reading /\ parser' = Append(parser, h)
      /\ UNCHANGED <<cmd, pending, torQueue, socket, reading, events, torn>>
  BY DEF Feed
<1>2. lines \in Seq(LineType) /\ parser \in Seq(LineType) /\ ControlTypeOK
  BY DEF ControlInv, ControlTypeOK
<1>3. h \in LineType /\ lines' \in Seq(LineType)  BY <1>1, <1>2, Tailed
<1>4. /\ parser' \in Seq(LineType) /\ Range(parser') = Range(parser) \cup {h}
      /\ Len(parser') = Len(parser) + 1 /\ DOMAIN parser' = 1 .. Len(parser) + 1
      /\ parser'[Len(parser) + 1] = h /\ \A i \in 1 .. Len(parser) : parser'[i] = parser[i]
  <2>1. Len(parser') = Len(parser) + 1  BY SMT, <1>1, <1>2, <1>3
  <2> HIDE DEF h
  <2> QED  BY SMT, <1>1, <1>2, <1>3, <2>1, Appended
<1>5. ControlTypeOK' /\ IssuedInOrder' /\ ReplyIsOwn'
  BY <1>1, <1>3, <1>4 DEF ControlInv, ControlTypeOK, IssuedInOrder, ReplyIsOwn
<1>6. ASSUME ~torn', reading'  PROVE WireInOrder' /\ QueueInOrder' /\ OnlyIssued'
  <2>1. WireInOrder /\ QueueInOrder /\ OnlyIssued  BY <1>1, <1>6 DEF ControlInv
  <2>2. Ordered(lines')  BY <1>1, <1>2, <2>1, TailedOrdered DEF WireInOrder
  <2>3. h # EventLine  BY SMT DEF EventLine, Line, Kind
  <2> DEFINE n == Len(parser) + 1
  <2>4. PICK c \in Cmds, s \in Shapes :
          /\ n \in DOMAIN s /\ h = Line(c, s, n)
          /\ \A i \in DOMAIN parser : parser[i] = Line(c, s, i)
          /\ \A i \in (n + 1) .. Len(s) : Line(c, s, i) \in ReplyLines'
          /\ \A l \in ReplyLines' : Before(h, l)
          /\ ReplyLines = {h} \cup ReplyLines'
    BY <1>1, <1>2, <2>1, <2>3, NextLine DEF ReplyLines
  <2>5. n \in Nat /\ Len(parser) = n - 1 /\ DOMAIN parser = 1 .. Len(parser) /\ Len(parser') = n
    BY SMT, <1>2, <1>4
  <2> HIDE DEF n
  <2>6. n < Len(s)
    <3>1. ~Complete(parser, Line(c, s, n))  BY <2>4
    <3>2. n # Len(s)  BY <1>2, <2>4, <2>5, <3>1, CompleteIsLast
    <3>3. Len(s) \in Nat /\ n <= Len(s)  BY SMT, <2>4, ControlAssumption
    <3> QED  BY SMT, <2>5, <3>2, <3>3
  <2>7. Range(parser') \cup ReplyLines' = Range(parser) \cup ReplyLines  BY <1>4, <2>4
  <2>8. Unanswered' = Unanswered  BY <1>1, <2>7 DEF Unanswered
  <2>9. ParserInOrder'
    <3>1. \A i \in DOMAIN parser' : parser'[i] = Line(c, s, i)
      BY SMT, <1>4, <2>4, <2>5
    <3>2. Len(parser') < Len(s)  BY <2>5, <2>6
    <3>3. \A l \in ReplyLines' : Before(Line(c, s, Len(parser')), l)  BY <2>4, <2>5
    <3>4. \A i \in (Len(parser') + 1) .. Len(s) : Line(c, s, i) \in ReplyLines'
      BY <2>4, <2>5
    <3> QED  BY <3>1, <3>2, <3>3, <3>4 DEF ParserInOrder
  <2>10. WireInOrder'  BY <1>1, <2>1, <2>2, <2>4, <2>7, <2>9 DEF WireInOrder
  <2>11. QueueInOrder' /\ OnlyIssued'  BY <1>1, <2>1, <2>8 DEF QueueInOrder, OnlyIssued
  <2> QED  BY <2>10, <2>11
<1> QED  BY <1>5, <1>6 DEF ControlInv

\* The line that ends the reply: the waiter at the head is the one it is for.
LEMMA FeedReplyKeeps ==
  ASSUME ControlInv, Feed, Kind(Head(lines)) # "event", Complete(parser, Head(lines))
  PROVE  ControlInv'
<1> DEFINE h == Head(lines)
           whole == Append(parser, h)
           first == Head(pending)
<1>1. /\ lines # <<>> /\ lines' = Tail(lines) /\ reading /\ parser' = <<>>
      /\ UNCHANGED <<torQueue, socket, reading, events, torn>>
  BY DEF Feed
<1>2. /\ pending = <<>> => UNCHANGED <<cmd, pending>>
      /\ pending # <<>> =>
           /\ pending' = Tail(pending)
           /\ cmd' = IF Waits(first) THEN [cmd EXCEPT ![first] = [st |-> "done", reply |-> whole]]
                                     ELSE cmd
  BY DEF Feed
<1>3. /\ lines \in Seq(LineType) /\ parser \in Seq(LineType) /\ ControlTypeOK
      /\ cmd \in [Cmds -> CmdType] /\ pending \in Seq(Cmds) /\ IssuedInOrder /\ ReplyIsOwn
  BY DEF ControlInv, ControlTypeOK
<1>4. h \in LineType /\ lines' \in Seq(LineType)  BY <1>1, <1>3, Tailed
<1>5. /\ whole \in Seq(LineType) /\ Len(whole) = Len(parser) + 1
      /\ DOMAIN whole = 1 .. Len(parser) + 1
      /\ whole[Len(parser) + 1] = h /\ \A i \in 1 .. Len(parser) : whole[i] = parser[i]
  BY SMT, <1>3, <1>4
<1>6. [st |-> "done", reply |-> whole] \in CmdType  BY <1>5 DEF CmdType
<1> HIDE DEF h, whole
<1>7. pending # <<>> =>
        /\ first \in Cmds /\ Tail(pending) \in Seq(Cmds)
        /\ Range(pending) = {first} \cup Range(Tail(pending))
  BY <1>3, Tailed
<1> HIDE DEF first
<1>8. /\ pending' \in Seq(Cmds) /\ cmd' \in [Cmds -> CmdType]
      /\ \A b \in Cmds : cmd'[b] = cmd[b]
           \/ (/\ pending # <<>> /\ b = first /\ Waits(b)
               /\ cmd'[b] = [st |-> "done", reply |-> whole])
  <2>1. CASE pending = <<>>  BY <1>2, <1>3, <2>1
  <2>2. CASE pending # <<>> /\ ~Waits(first)  BY <1>2, <1>3, <1>7, <2>2
  <2>3. CASE pending # <<>> /\ Waits(first)
    <3>1. cmd' = [cmd EXCEPT ![first] = [st |-> "done", reply |-> whole]]  BY <1>2, <2>3
    <3> QED  BY <1>2, <1>3, <1>6, <1>7, <2>3, <3>1
  <2> QED  BY <2>1, <2>2, <2>3
<1>9. \A b \in Cmds : cmd'[b].st = "new" <=> cmd[b].st = "new"  BY SMT, <1>8 DEF Waits
<1>10. IssuedInOrder'  BY <1>3, <1>9 DEF IssuedInOrder
<1>11. <<>> \in Seq(LineType)  BY SMT
<1>12. ControlTypeOK'  BY <1>1, <1>3, <1>4, <1>8, <1>11 DEF ControlTypeOK
<1>13. CASE torn  BY <1>1, <1>10, <1>12, <1>13 DEF ControlInv, ReplyIsOwn
<1>14. CASE ~torn
  <2>1. WireInOrder /\ QueueInOrder /\ OnlyIssued  BY <1>1, <1>14 DEF ControlInv
  <2>2. Ordered(lines')  BY <1>1, <1>3, <2>1, TailedOrdered DEF WireInOrder
  <2>3. h # EventLine  BY SMT DEF EventLine, Line, Kind, h
  <2> DEFINE n == Len(parser) + 1
  <2>4. PICK c \in Cmds, s \in Shapes :
          /\ n \in DOMAIN s /\ h = Line(c, s, n)
          /\ \A i \in DOMAIN parser : parser[i] = Line(c, s, i)
          /\ \A l \in ReplyLines' : Before(h, l)
          /\ ReplyLines = {h} \cup ReplyLines'
    BY <1>1, <1>3, <2>1, <2>3, NextLine DEF ReplyLines, h
  <2>5. n \in Nat /\ Len(parser) = n - 1 /\ DOMAIN parser = 1 .. Len(parser) /\ Len(whole) = n
    BY SMT, <1>3, <1>5
  <2>6. /\ s \in Seq({"more", "data", "text", "dot", "end"}) /\ Len(s) \in Nat
        /\ \A b \in Cmds : b \in Nat
    BY SMT, ControlAssumption
  <2> HIDE DEF n
  <2>7. n = Len(s)
    <3>1. Complete(parser, Line(c, s, n))  BY <2>4 DEF h
    <3> QED  BY <1>3, <2>4, <2>5, <3>1, CompleteIsLast
  <2>8. \A i \in DOMAIN whole : whole[i] = Line(c, s, i)
    <3> SUFFICES ASSUME NEW i \in DOMAIN whole  PROVE whole[i] = Line(c, s, i)  OBVIOUS
    <3>1. i \in 1 .. Len(parser) \/ i = n  BY SMT, <1>5, <2>5
    <3>2. whole[n] = h  BY <1>5, <2>5
    <3> QED  BY <1>5, <2>4, <2>5, <3>1, <3>2
  <2>9. /\ \A i \in DOMAIN whole : whole[i].of = c
        /\ [i \in DOMAIN whole |-> Kind(whole[i])] = s
    <3>1. \A i \in DOMAIN whole : whole[i].of = c /\ Kind(whole[i]) = s[i]
      BY SMT, <2>8 DEF Line, Kind
    <3>2. DOMAIN whole = DOMAIN s  BY SMT, <1>5, <2>5, <2>6, <2>7
    <3>3. s = [i \in DOMAIN s |-> s[i]]  BY SMT, <2>6
    <3> QED  BY <3>1, <3>2, <3>3
  \* what is left on the wire is of later commands
  <2>10. \A l \in ReplyLines' : IsReplyLine(l) /\ c < l.of
    <3> SUFFICES ASSUME NEW l \in ReplyLines'  PROVE IsReplyLine(l) /\ c < l.of  OBVIOUS
    <3>1. IsReplyLine(l)  BY <2>1, <2>4 DEF WireInOrder
    <3>2. l.at \in Nat /\ l.at <= Len(l.shape)  BY <3>1, EventIsNoReply
    <3>3. Before(Line(c, s, n), l)  BY <2>4
    <3>4. c < l.of \/ (s = l.shape /\ n < l.at)  BY <3>3 DEF Before, Line
    <3> QED  BY SMT, <2>5, <2>6, <2>7, <3>1, <3>2, <3>4
  <2>11. \A l \in Range(parser) \cup {h} : l.of = c
    BY SMT, <2>4 DEF Range, Line
  <2>12. c \notin {l.of : l \in ReplyLines'} /\ c \in Nat /\ \A l \in ReplyLines' : l.of \in Nat
    BY SMT, <2>6, <2>10 DEF IsReplyLine
  <2>13. ASSUME NEW l \in ReplyLines', NEW i \in DOMAIN l.shape
         PROVE  Line(l.of, l.shape, i) \in ReplyLines'
    <3>1. Line(l.of, l.shape, i) \in Range(parser) \cup {h} \cup ReplyLines'
      BY <2>1, <2>4 DEF WireInOrder
    <3>2. Line(l.of, l.shape, i).of # c  BY <2>12 DEF Line
    <3> QED  BY <2>11, <3>1, <3>2
  <2>14. Range(parser') = {}  BY SMT, <1>1 DEF Range
  <2>15. \A l \in ReplyLines, t \in Range(torQueue) : l.of < t  BY <2>1 DEF WireInOrder
  <2>16. WireInOrder'
    <3>1. ParserInOrder'  BY <1>1 DEF ParserInOrder
    <3>2. \A l \in Range(parser') \cup ReplyLines', t \in Range(torQueue') : l.of < t
      BY <1>1, <2>4, <2>14, <2>15
    <3> QED  BY <1>1, <2>1, <2>2, <2>10, <2>13, <3>1, <3>2 DEF WireInOrder
  <2>17. /\ Unanswered = Unanswered' \cup {c} /\ \A t \in Unanswered' : c < t
         /\ \A t \in Unanswered : t \in Cmds
    <3>1. Unanswered' = Range(torQueue) \cup {l.of : l \in ReplyLines'}
      BY <1>1, <2>14 DEF Unanswered
    <3>2. {l.of : l \in Range(parser) \cup ReplyLines} = {c} \cup {l.of : l \in ReplyLines'}
      BY <2>4, <2>11
    <3>3. \A t \in Range(torQueue) : c < t  BY <2>4, <2>11, <2>15
    <3>4. \A t \in Unanswered : t \in Cmds  BY <2>1 DEF OnlyIssued
    <3>5. Unanswered = Unanswered' \cup {c}  BY <3>1, <3>2 DEF Unanswered
    <3>6. \A t \in Unanswered' : c < t  BY <2>10, <3>1, <3>3
    <3> QED  BY <3>4, <3>5, <3>6
  <2>18. \A t \in Unanswered' : t \in Nat /\ t # c
    <3> SUFFICES ASSUME NEW t \in Unanswered'  PROVE t \in Nat /\ t # c  OBVIOUS
    <3>1. t \in Cmds /\ c < t  BY <2>17
    <3>2. t \in Nat  BY <2>6, <3>1
    <3> QED  BY SMT, <2>12, <3>1, <3>2
  <2>19. CASE pending = <<>>
    <3>1. pending' = <<>> /\ cmd' = cmd /\ Range(pending) = {}  BY SMT, <1>2, <2>19 DEF Range
    <3>2. socket' = "broken"  BY <1>1, <2>1, <2>17, <3>1 DEF QueueInOrder
    <3>3. QueueInOrder'  BY SMT, <3>1, <3>2 DEF QueueInOrder, Increasing, Range
    <3>4. OnlyIssued'
      <4>1. Range(pending') \cup Unanswered' \subseteq Range(pending) \cup Unanswered
        BY <2>17, <3>1, <2>19
      <4> QED  BY <1>9, <2>1, <4>1 DEF OnlyIssued
    <3>5. ReplyIsOwn'  BY <1>1, <1>3, <3>1 DEF ReplyIsOwn
    <3> QED  BY <1>10, <1>12, <2>16, <3>3, <3>4, <3>5 DEF ControlInv
  <2>20. CASE pending # <<>>
    <3>1. /\ pending' = Tail(pending) /\ first \in Cmds /\ first \in Nat
          /\ Range(pending) = {first} \cup Range(pending')
      BY <1>2, <1>7, <2>6, <2>20
    <3>2. Increasing(pending') /\ \A b \in Range(pending') : first < b
      BY <1>3, <2>1, <2>20, <3>1, IncreasingFacts DEF QueueInOrder, first
    <3>3. \A b \in Range(pending') : b \in Nat  BY SMT, <1>8, <2>6 DEF Range
    <3>4. first = c
      <4>1. ~(c < first)
        <5>1. c < first => c \in Range(pending)  BY <2>1, <2>17, <3>1 DEF QueueInOrder
        <5> QED  BY SMT, <2>12, <3>1, <3>2, <3>3, <5>1
      <4>2. ~(first < c)
        <5>1. first < c => first \in Unanswered  BY <2>1, <2>17, <3>1 DEF QueueInOrder
        <5> QED  BY SMT, <2>12, <2>17, <2>18, <3>1, <5>1
      <4> QED  BY SMT, <2>12, <3>1, <4>1, <4>2
    <3>5. \A b \in Range(pending') : b # c /\ b \in Range(pending)
      BY SMT, <2>12, <3>1, <3>2, <3>3, <3>4
    <3>6. QueueInOrder'
      <4>1. ASSUME NEW q \in Range(pending'), NEW t \in Unanswered'
            PROVE  (t < q => t \in Range(pending')) /\ (q < t => q \in Unanswered')
        <5>1. (t < q => t \in Range(pending)) /\ (q < t => q \in Unanswered)
          BY <2>1, <2>17, <3>5 DEF QueueInOrder
        <5> QED  BY <2>17, <2>18, <3>1, <3>4, <3>5, <5>1
      <4>2. /\ socket = "up" => Range(pending) \subseteq Unanswered
            /\ socket # "broken" => Unanswered \subseteq Range(pending)
        BY <2>1 DEF QueueInOrder
      <4>3. /\ socket' = "up" => Range(pending') \subseteq Unanswered'
            /\ socket' # "broken" => Unanswered' \subseteq Range(pending')
        BY <1>1, <2>17, <2>18, <3>1, <3>4, <3>5, <4>2
      <4> QED  BY <3>2, <4>1, <4>3 DEF QueueInOrder
    <3>7. OnlyIssued'  BY <1>9, <2>1, <2>17, <3>5 DEF OnlyIssued
    <3>8. ReplyIsOwn'
      <4> SUFFICES ASSUME NEW b \in Cmds, cmd'[b].st = "done"
                   PROVE  /\ \A i \in DOMAIN cmd'[b].reply : cmd'[b].reply[i].of = b
                          /\ [i \in DOMAIN cmd'[b].reply |-> Kind(cmd'[b].reply[i])] \in Shapes
        BY DEF ReplyIsOwn, Kind
      <4>1. CASE cmd'[b] = cmd[b]  BY <1>3, <1>14, <4>1 DEF ReplyIsOwn
      <4>2. CASE b = first /\ cmd'[b] = [st |-> "done", reply |-> whole]
        <5>1. cmd'[b].reply = whole /\ b = c  BY SMT, <3>4, <4>2
        <5> QED  BY <2>9, <5>1
      <4> QED  BY <1>8, <4>1, <4>2
    <3> QED  BY <1>10, <1>12, <2>16, <3>6, <3>7, <3>8 DEF ControlInv
  <2> QED  BY <2>19, <2>20
<1> QED  BY <1>13, <1>14

\* A fresh connection.
LEMMA ControlInitKeeps == ControlInit => ControlInv
<1> SUFFICES ASSUME ControlInit  PROVE ControlInv  OBVIOUS
<1> USE DEF ControlInit
<1>1. <<>> \in Seq(LineType) /\ <<>> \in Seq(Cmds)  BY SMT
<1>2. [st |-> "new", reply |-> NoReply] \in CmdType  BY <1>1 DEF CmdType, NoReply
<1>3. ControlTypeOK  BY <1>1, <1>2 DEF ControlTypeOK
<1>4. IssuedInOrder /\ ReplyIsOwn  BY DEF IssuedInOrder, ReplyIsOwn
<1>5. Range(lines) = {} /\ Range(parser) = {} /\ Range(torQueue) = {} /\ Range(pending) = {}
  BY SMT DEF Range
<1>6. ReplyLines = {} /\ Unanswered = {}  BY <1>5 DEF ReplyLines, Unanswered
<1>7. WireInOrder  BY SMT, <1>5, <1>6 DEF WireInOrder, Ordered, ParserInOrder, Increasing
<1>8. QueueInOrder /\ OnlyIssued  BY SMT, <1>5, <1>6 DEF QueueInOrder, Increasing, OnlyIssued
<1> QED  BY <1>3, <1>4, <1>7, <1>8 DEF ControlInv

\* A step of another part.
LEMMA ControlStutters == ControlInv /\ UNCHANGED controlVars => ControlInv'
<1> SUFFICES ASSUME ControlInv, UNCHANGED controlVars  PROVE ControlInv'  OBVIOUS
<1>1. /\ UNCHANGED <<cmd, pending, torQueue, lines, parser>>
      /\ socket' = socket /\ reading' = reading /\ torn' = torn
  BY DEF controlVars
<1>2. ReplyLines' = ReplyLines  BY <1>1 DEF ReplyLines
<1>3. Unanswered' = Unanswered  BY <1>1, <1>2 DEF Unanswered
<1>4. (WireInOrder => WireInOrder') /\ (QueueInOrder => QueueInOrder')
  BY <1>1, <1>2, <1>3
  DEF WireInOrder, ParserInOrder, QueueInOrder
<1>5. /\ (OnlyIssued => OnlyIssued') /\ (IssuedInOrder => IssuedInOrder')
      /\ (ReplyIsOwn => ReplyIsOwn')
  BY <1>1, <1>3 DEF OnlyIssued, IssuedInOrder, ReplyIsOwn
<1>6. ControlTypeOK => ControlTypeOK'  BY <1>1 DEF ControlTypeOK
<1> QED  BY <1>1, <1>4, <1>5, <1>6 DEF ControlInv

\* The invariant of the connection holds in every behaviour.
LEMMA ControlInvariance == ControlSpec => []ControlInv
<1>1. ASSUME ControlInv, ControlNext  PROVE ControlInv'
  <2>1. CASE \E c \in Cmds : Cmd_Limited(c) \/ Cmd_Written(c) \/ Cmd_NotWritten(c)
                             \/ Cmd_Aborted(c) \/ Cmd_TimesOut(c)
    BY <1>1, <2>1, LimitedKeeps, WrittenKeeps, NotWrittenKeeps, AbortedKeeps
  <2>2. CASE Feed  BY <1>1, <2>2, FeedEventKeeps, FeedLineKeeps, FeedReplyKeeps
  <2> QED  BY <1>1, <2>1, <2>2, AnswersKeeps, EventKeeps, BreaksKeeps, ReaderEndsKeeps
           DEF ControlNext
<1> QED  BY <1>1, ControlInitKeeps, ControlStutters, PTL DEF ControlSpec

(* Every command that is given a reply is given its own, whole, for every  *)
(* number of commands and every set of reply shapes: cmd() and the reader  *)
(* loop of control/mod.rs, ReplyParser::feed of control/reply.rs.          *)
THEOREM RepliesAreOwn == ControlSpec => []ReplyIsOwn
<1>1. ControlInv => ReplyIsOwn  BY DEF ControlInv
<1> QED  BY <1>1, ControlInvariance, PTL

=============================================================================
