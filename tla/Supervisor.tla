---------------------------- MODULE Supervisor ----------------------------
(***************************************************************************)
(* The transport's supervision of the tor process: bring-up, the health    *)
(* loop with its heal ladder and restart budget, the kill switch, network  *)
(* changes, and the onion service that is published on the control         *)
(* connection of the moment.                                               *)
(*   src/crates/core/src/transport/{lifecycle,daemon,heal,policy,          *)
(*   killswitch,services,mod}.rs, onion/manager.rs, control/mod.rs         *)
(* One service stands for all: the entries of the map never meet.  A new   *)
(* version of it is a new listener or a new list of clients.  A step ends  *)
(* where the code awaits tor.  Tor's own part (the process, its bootstrap, *)
(* what it serves) is modelled from how this code uses it.                 *)
(***************************************************************************)
EXTENDS Integers

CONSTANTS
  MaxVersions,     \* times the service is hosted
  MaxRestarts,     \* heal::MAX_RESTARTS
  MaxFails,        \* heal::HEAL_CONNECT_FAILS
  HsFailMin,       \* heal::HS_FAIL_MIN
  MaxFaults        \* tor exits, lost connections, failing calls and commands

ASSUME BoundsAreNatural ==
  /\ {MaxVersions, MaxFaults} \subseteq Nat
  /\ {MaxRestarts, MaxFails, HsFailMin} \subseteq Nat \ {0}

VARIABLES
  kill,      \* the kill switch, in memory and on disk
  proc,      \* the child: "none", "up", or "dead" and not yet reaped
  disabled,  \* tor's DisableNetwork
  booted,    \* tor's bootstrap is at 100
  sound,     \* the control connection works
  live,      \* the version of the service tor serves, 0 for none
  entry,     \* the version in the services map, 0 for none
  pub,       \* its published flag
  online,
  status,    \* TorState
  sup,       \* the supervisor handle: "none", "running", "ended"
  pc,        \* where the health loop is
  level, cool,   \* HealLadder: the rung, and whether it cools down
  restarts,  \* RestartBudget: restarts within the window
  fails,     \* connect_fails
  job,       \* what each caller of publish_pending is doing
  roaming,   \* on_network_changed(true) sleeps between its two commands
  hosts, faults,
  slipped,   \* tor was left or put on the network against the kill switch
  raced      \* the entry or the connection changed under a publisher

control == <<sound, live>>
ladder == <<level, cool, restarts, fails>>
service == <<entry, pub, hosts>>
counted == <<faults, slipped, raced>>
vars == <<kill, proc, disabled, booted, control, service, online, status, sup, pc,
          ladder, job, roaming, counted>>

Callers == {"loop", "engine"}
Idle == [at |-> "idle", ver |-> 0, old |-> FALSE]
Free(p) == job[p].at = "idle"

Init ==
  /\ kill \in BOOLEAN /\ proc = "none" /\ disabled = FALSE /\ booted = FALSE
  /\ sound = FALSE /\ live = 0 /\ entry = 0 /\ pub = FALSE /\ hosts = 0
  /\ online = FALSE /\ status = "Off" /\ sup = "none" /\ pc = "tick"
  /\ level = 0 /\ cool = FALSE /\ restarts = 0 /\ fails = 0
  /\ job = [p \in Callers |-> Idle] /\ roaming = FALSE
  /\ faults = 0 /\ slipped = FALSE /\ raced = FALSE

\* A call into the daemon or a control command fails.
Fault == faults < MaxFaults /\ faults' = faults + 1
NoFault == UNCHANGED faults

-----------------------------------------------------------------------------
(* The process and the connection *)

\* SubprocessTor::start: a fresh process has the network of its torrc, which
\* does not name the kill switch.
Spawned ==
  /\ proc' = "up" /\ disabled' = FALSE /\ booted' = FALSE
  /\ sound' = FALSE /\ live' = 0

NotSpawned ==
  /\ proc' = "none" /\ sound' = FALSE /\ live' = 0
  /\ UNCHANGED <<disabled, booted>>

\* As it would be if a new connection kept the published flags.
Connected_StillPublished ==
  /\ sound' = TRUE /\ live' = 0 /\ UNCHANGED pub
  /\ job' = [p \in Callers |-> IF job[p].at = "idle" THEN Idle
                               ELSE [job[p] EXCEPT !.old = TRUE]]
  /\ raced' = (raced \/ \E p \in Callers : ~Free(p))

\* connect_control: every new connection starts without services.
Connected ==
  /\ sound' = TRUE /\ live' = 0 /\ pub' = FALSE
  /\ job' = [p \in Callers |-> IF job[p].at = "idle" THEN Idle
                               ELSE [job[p] EXCEPT !.old = TRUE]]
  /\ raced' = (raced \/ \E p \in Callers : ~Free(p))

\* Tor exits on its own.
TorExits ==
  /\ proc = "up" /\ Fault
  /\ proc' = "dead" /\ sound' = FALSE /\ live' = 0
  /\ UNCHANGED <<kill, disabled, booted, service, online, status, sup, pc, ladder,
                 job, roaming, slipped, raced>>

ConnectionDrops ==
  /\ sound /\ Fault
  /\ sound' = FALSE /\ live' = 0
  /\ UNCHANGED <<kill, proc, disabled, booted, service, online, status, sup, pc, ladder,
                 job, roaming, slipped, raced>>

\* Tor bootstraps while it may use the network.
Boots ==
  /\ proc = "up" /\ ~disabled /\ ~booted
  /\ booted' = TRUE
  /\ UNCHANGED <<kill, proc, disabled, control, service, online, status, sup, pc, ladder,
                 job, roaming, counted>>

-----------------------------------------------------------------------------
(* Bring-up and shutdown *)

\* start() under the supervisor's lock.  A daemon that is already running is
\* left as it is; the kill switch is applied once the connection stands.  Each
\* `?` leaves what was done before it.
Started ==
  /\ sup' = "running" /\ pc' = "tick"
  /\ level' = 0 /\ cool' = FALSE /\ restarts' = 0 /\ fails' = 0

\* As it would be if start() did not look at the kill switch.
Start_Done_Unswitched ==
  /\ Started /\ NoFault
  /\ proc \in {"none", "up"} /\ proc' = "up"
  /\ disabled' = (proc = "up" /\ disabled)
  /\ booted' = (proc = "up" /\ booted)
  /\ Connected
  /\ status' = "Starting" /\ slipped' = FALSE

Start_Done ==
  /\ Started /\ NoFault
  /\ proc \in {"none", "up"} /\ proc' = "up"
  /\ disabled' = (kill \/ (proc = "up" /\ disabled))
  /\ booted' = (proc = "up" /\ booted)
  /\ Connected
  /\ status' = IF kill THEN "Off" ELSE "Starting"
  /\ slipped' = FALSE

Start_NoDaemon ==
  /\ proc = "none" /\ Fault
  /\ status' = "Starting"
  /\ UNCHANGED <<proc, disabled, booted, control, pub, sup, pc, ladder, job, slipped, raced>>

Start_NoControl ==
  /\ \/ proc = "dead" /\ NoFault /\ UNCHANGED <<proc, disabled, booted, control>>
     \/ proc = "none" /\ Fault /\ Spawned
  /\ status' = "Starting"
  /\ slipped' = (slipped \/ (kill /\ proc = "none"))
  /\ UNCHANGED <<pub, sup, pc, ladder, job, raced>>

Start_NotDisabled ==
  /\ kill /\ proc = "none" /\ Fault
  /\ proc' = "up" /\ disabled' = FALSE /\ booted' = FALSE
  /\ Connected
  /\ status' = "Starting" /\ slipped' = TRUE
  /\ UNCHANGED <<sup, pc, ladder>>

Start ==
  /\ sup = "none"
  /\ Start_Done \/ Start_NoDaemon \/ Start_NoControl \/ Start_NotDisabled
  /\ UNCHANGED <<kill, entry, hosts, online, roaming>>

\* stop(): the loop's task is aborted wherever it is.
Stop ==
  /\ sup # "none" \/ proc # "none"
  /\ sup' = "none" /\ pc' = "tick"
  /\ NotSpawned
  /\ online' = FALSE /\ status' = "Off"
  /\ job' = [job EXCEPT !["loop"] = Idle]
  /\ UNCHANGED <<kill, service, ladder, roaming, counted>>

-----------------------------------------------------------------------------
(* The kill switch and the network path *)

\* set_kill_switch: the flag first, then DisableNetwork on the connection there
\* is; when that command fails the rest is skipped and the flag stays.
KillSwitch(on) ==
  /\ on # kill /\ kill' = on
  /\ \/ /\ sound /\ NoFault /\ disabled' = on
        /\ slipped' = FALSE
        /\ status' = IF on THEN status ELSE "Starting"
     \/ /\ ~sound /\ NoFault /\ UNCHANGED disabled
        /\ slipped' = (on /\ proc = "up" /\ ~disabled)
        /\ status' \in {status, IF on THEN status ELSE "Starting"}
     \/ /\ sound /\ Fault /\ UNCHANGED <<disabled, status>>
        /\ slipped' = on
  /\ UNCHANGED <<proc, booted, control, service, online, sup, pc, ladder, job, roaming,
                 raced>>

\* on_network_changed(false)
NetworkLost ==
  /\ sound /\ ~disabled
  /\ disabled' = TRUE /\ online' = FALSE /\ status' = "Degraded"
  /\ UNCHANGED <<kill, proc, booted, control, service, sup, pc, ladder, job, roaming,
                 counted>>

\* on_network_changed(true): 1, a second of sleep, 0.
RoamingReset ==
  /\ sound /\ ~roaming
  /\ roaming' = TRUE /\ disabled' = TRUE
  /\ UNCHANGED <<kill, proc, booted, control, service, online, status, sup, pc, ladder,
                 job, counted>>

RoamingEnds ==
  /\ roaming /\ roaming' = FALSE
  /\ \/ sound /\ disabled' = FALSE /\ slipped' = (slipped \/ kill)
     \/ ~sound /\ UNCHANGED <<disabled, slipped>>
  /\ UNCHANGED <<kill, proc, booted, control, service, online, status, sup, pc, ladder,
                 job, faults, raced>>

-----------------------------------------------------------------------------
(* The heal ladder *)

CooldownEnds ==
  /\ cool /\ cool' = FALSE
  /\ UNCHANGED <<kill, proc, disabled, booted, control, service, online, status, sup, pc,
                 level, restarts, fails, job, roaming, counted>>

\* The oldest restart leaves the window.
WindowSlides ==
  /\ restarts > 0 /\ restarts' = restarts - 1
  /\ UNCHANGED <<kill, proc, disabled, booted, control, service, online, status, sup, pc,
                 level, cool, fails, job, roaming, counted>>

\* escalate: no cooldown on the lowest rung.
Ready == level = 0 \/ ~cool
Rung == IF level = 0 THEN "Reload" ELSE IF level = 1 THEN "Newnym" ELSE "Restart"
Escalated == level' = (IF level < 3 THEN level + 1 ELSE level) /\ cool' = TRUE

\* record_restart
InBudget == restarts < MaxRestarts

\* run_heal: `next` is where the loop goes on, `restarting` where it restarts
\* the daemon first.
RunHeal(next, restarting) ==
  \/ /\ ~Ready /\ pc' = next
     /\ UNCHANGED <<level, cool, restarts, status>>
  \/ /\ Ready /\ Rung # "Restart" /\ Escalated /\ pc' = next
     /\ UNCHANGED <<restarts, status>>
  \/ /\ Ready /\ Rung = "Restart" /\ Escalated
     /\ IF InBudget
          THEN restarts' = restarts + 1 /\ pc' = restarting /\ UNCHANGED status
          ELSE status' = "Dead" /\ pc' = next /\ UNCHANGED restarts

\* HsHealth::evaluate over the failures and uploads of a window.
HsEscalates(failures, uploads) == failures >= HsFailMin /\ failures > uploads
HsHealthy(failures, uploads) == failures = 0 /\ uploads > 0


-----------------------------------------------------------------------------
(* The health loop *)

Loop ==
  /\ sup = "running"
  /\ UNCHANGED <<kill, sup, entry, hosts, roaming>>

Tick_Killed ==
  /\ Loop /\ pc = "tick" /\ kill
  /\ online' = FALSE /\ status' = "Off"
  /\ UNCHANGED <<proc, disabled, booted, control, pub, pc, ladder, job, counted>>

\* A dead child is restarted at once; with the budget gone the loop returns and
\* leaves its handle behind.
Tick_Exited ==
  /\ sup = "running" /\ pc = "tick" /\ ~kill /\ proc = "dead"
  /\ proc' = "none" /\ online' = FALSE /\ fails' = 0
  /\ IF InBudget
       THEN restarts' = restarts + 1 /\ status' = "Degraded" /\ pc' = "exitRestart"
            /\ sup' = sup
       ELSE status' = "Dead" /\ sup' = "ended" /\ UNCHANGED <<restarts, pc>>
  /\ UNCHANGED <<kill, disabled, booted, control, service, level, cool, job, roaming,
                 counted>>

\* The end of an HS_DESC window.
Tick_HsWindow(failures, uploads) ==
  /\ Loop /\ pc = "tick" /\ ~kill /\ proc # "dead" /\ Fault
  /\ \/ HsEscalates(failures, uploads) /\ RunHeal("poll", "hsRestart")
     \/ /\ HsHealthy(failures, uploads) /\ level' = 0 /\ pc' = "poll"
        /\ UNCHANGED <<cool, restarts, status>>
  /\ UNCHANGED <<proc, disabled, booted, control, pub, online, fails, job, slipped,
                 raced>>

\* daemon.restart() of the three places that call it.
Restart ==
  /\ Loop /\ pc \in {"exitRestart", "hsRestart", "pollRestart"}
  /\ pc' = IF pc = "hsRestart" THEN "poll" ELSE "rejoin"
  /\ \/ Spawned /\ NoFault
     \/ NotSpawned /\ Fault
  /\ slipped' = (slipped \/ kill)
  /\ UNCHANGED <<pub, online, status, ladder, job, raced>>

\* connect_control after a restart or a heal: it gives up after 30 s.
Rejoin ==
  /\ Loop /\ pc = "rejoin" /\ pc' = "tick"
  /\ \/ proc = "up" /\ Connected /\ NoFault
     \/ proc = "up" /\ Fault /\ UNCHANGED <<control, pub, job, raced>>
     \/ proc # "up" /\ NoFault /\ UNCHANGED <<control, pub, job, raced>>
  /\ UNCHANGED <<proc, disabled, booted, online, status, ladder, slipped>>

\* The entries publish_pending copies out before it awaits tor.
Snapshot(p, ver) == [job EXCEPT ![p] = [at |-> "del", ver |-> ver, old |-> FALSE]]

\* A poll: online, bootstrapping or failed.
Polling == Loop /\ (pc = "poll" \/ (pc = "tick" /\ ~kill /\ proc # "dead"))

\* As it would be if the state were set on the online transition only.
Poll_Up_TransitionOnly ==
  /\ Polling /\ sound /\ booted /\ NoFault
  /\ online' = TRUE /\ fails' = 0
  /\ status' = IF online THEN status ELSE "Online"
  /\ level' = IF online THEN level ELSE 0
  /\ IF entry # 0 /\ ~pub
       THEN job' = Snapshot("loop", entry) /\ pc' = "publishing"
       ELSE pc' = "tick" /\ UNCHANGED job
  /\ UNCHANGED <<proc, disabled, booted, control, pub, cool, restarts, slipped, raced>>

Poll_Up ==
  /\ Polling /\ sound /\ booted /\ NoFault
  /\ online' = TRUE /\ status' = "Online" /\ fails' = 0
  /\ level' = IF online THEN level ELSE 0
  /\ IF entry # 0 /\ ~pub
       THEN job' = Snapshot("loop", entry) /\ pc' = "publishing"
       ELSE pc' = "tick" /\ UNCHANGED job
  /\ UNCHANGED <<proc, disabled, booted, control, pub, cool, restarts, slipped, raced>>

Poll_Booting ==
  /\ Polling /\ sound /\ ~booted /\ NoFault
  /\ online' = FALSE /\ status' = "Bootstrapping" /\ fails' = 0 /\ pc' = "tick"
  /\ UNCHANGED <<proc, disabled, booted, control, pub, level, cool, restarts, job,
                 slipped, raced>>

Poll_Failed ==
  /\ Polling
  /\ \/ ~sound /\ NoFault
     \/ sound /\ Fault
  /\ online' = FALSE /\ status' = "Degraded"
  /\ IF fails + 1 >= MaxFails
       THEN fails' = 0 /\ pc' = "heal"
       ELSE fails' = fails + 1 /\ pc' = "tick"
  /\ UNCHANGED <<proc, disabled, booted, control, pub, level, cool, restarts, job,
                 slipped, raced>>

Heal ==
  /\ Loop /\ pc = "heal"
  /\ RunHeal("rejoin", "pollRestart")
  /\ UNCHANGED <<proc, disabled, booted, control, pub, online, fails, job, counted>>

-----------------------------------------------------------------------------
(* Publishing, by the loop and by the engine's host call *)

Publishing(p) ==
  /\ p = "loop" => sup = "running"
  /\ UNCHANGED <<kill, proc, disabled, booted, sound, entry, hosts, online, status, sup,
                 ladder, roaming, slipped>>

Finished(p) ==
  /\ job' = [job EXCEPT ![p] = Idle]
  /\ pc' = IF p = "loop" THEN "tick" ELSE pc

\* manager.host_service: DEL_ONION, whose failure is ignored, ...
Publish_Del(p) ==
  /\ Publishing(p) /\ job[p].at = "del"
  /\ job' = [job EXCEPT ![p].at = "add"]
  /\ \/ sound /\ ~job[p].old /\ live' = 0 /\ UNCHANGED counted
     \/ ~(sound /\ ~job[p].old) /\ UNCHANGED <<live, faults, raced>>
     \/ sound /\ ~job[p].old /\ Fault /\ raced' = TRUE /\ UNCHANGED live
  /\ UNCHANGED <<pub, pc>>

\* ... then ADD_ONION, which tor refuses while it serves the same key.  On a
\* connection that was replaced the service goes with the connection.
Publish_Add(p) ==
  /\ Publishing(p) /\ job[p].at = "add"
  /\ \/ /\ sound /\ ~job[p].old /\ live = 0 /\ live' = job[p].ver
        /\ \/ job' = [job EXCEPT ![p].at = "mark"] /\ UNCHANGED <<pc, faults, raced>>
           \/ Fault /\ raced' = TRUE /\ Finished(p)
     \/ /\ job[p].old /\ job' = [job EXCEPT ![p].at = "mark"]
        /\ UNCHANGED <<live, pc, faults, raced>>
     \/ /\ ~sound \/ job[p].old \/ live # 0
        /\ Finished(p) /\ UNCHANGED <<live, faults, raced>>
  /\ UNCHANGED pub

\* The entry of the moment is marked, whatever was added.
Publish_Mark(p) ==
  /\ Publishing(p) /\ job[p].at = "mark"
  /\ pub' = (entry # 0)
  /\ Finished(p)
  /\ UNCHANGED <<live, faults, raced>>

Engine == UNCHANGED <<kill, proc, disabled, booted, sound, online, status, sup, pc, ladder,
                      roaming, slipped>>

\* host_service_with_auth: the entry is replaced, then published if online.
Host ==
  /\ Engine /\ Free("engine") /\ hosts < MaxVersions
  /\ hosts' = hosts + 1 /\ entry' = hosts' /\ pub' = FALSE
  /\ job' = IF online THEN Snapshot("engine", hosts') ELSE job
  /\ raced' = (raced \/ ~Free("loop") \/ (live # 0 /\ ~online))
  /\ UNCHANGED <<live, faults>>

\* remove_service: DEL_ONION for a published entry, then the map.
Remove ==
  /\ Engine /\ Free("engine") /\ entry # 0
  /\ \/ /\ ~pub /\ entry' = 0
        /\ UNCHANGED <<live, job>>
     \/ /\ pub /\ sound /\ live' = 0
        /\ job' = [job EXCEPT !["engine"].at = "drop"]
        /\ UNCHANGED entry
  /\ raced' = (raced \/ ~Free("loop"))
  /\ UNCHANGED <<pub, hosts, faults>>

Remove_Entry ==
  /\ Engine /\ job["engine"].at = "drop"
  /\ entry' = 0 /\ pub' = FALSE
  /\ job' = [job EXCEPT !["engine"] = Idle]
  /\ raced' = (raced \/ ~Free("loop"))
  /\ UNCHANGED <<hosts, live, faults>>


-----------------------------------------------------------------------------
Publish(p) == Publish_Del(p) \/ Publish_Add(p) \/ Publish_Mark(p)

HealthLoop ==
  \/ Tick_Killed \/ Tick_Exited
  \/ Restart \/ Rejoin
  \/ Poll_Up \/ Poll_Booting \/ Poll_Failed \/ Heal

Environment == TorExits \/ ConnectionDrops \/ Boots \/ CooldownEnds \/ WindowSlides

User ==
  \/ Start \/ Stop
  \/ \E on \in BOOLEAN : KillSwitch(on)
  \/ NetworkLost \/ RoamingReset \/ RoamingEnds
  \/ Host \/ Remove \/ Remove_Entry

Next ==
  \/ HealthLoop \/ Environment \/ User
  \/ \E failures, uploads \in 0..HsFailMin : Tick_HsWindow(failures, uploads)
  \/ \E p \in Callers : Publish(p)

Spec == Init /\ [][Next]_vars

\* The loop's task and a host call that runs are scheduled; tor bootstraps when
\* it may; timers run out.
Fairness ==
  /\ WF_vars(HealthLoop)
  /\ WF_vars(Boots) /\ WF_vars(CooldownEnds) /\ WF_vars(WindowSlides)
  /\ WF_vars(RoamingEnds) /\ WF_vars(Remove_Entry)
  /\ \A p \in Callers : WF_vars(Publish(p))

FairSpec == Spec /\ Fairness

-----------------------------------------------------------------------------
(* Properties *)

(* With the kill switch on, a running tor has its network disabled:       *)
(* set_kill_switch and start() see to it in every order of toggles, starts *)
(* and stops.  `slipped` names the steps that put tor on the network under *)
(* an engaged switch: the end of a roaming reset, a daemon restart that    *)
(* was under way, a start that failed half way, a failed command.          *)
KillSwitchHolds == kill /\ proc = "up" /\ ~slipped => disabled

(* What tor serves is what the services map says: a published entry is     *)
(* served with its own listener and client list on the connection in use,  *)
(* and a service removed from the map is not served.  `raced` names the    *)
(* exceptions: an entry or a connection replaced while a publisher awaits  *)
(* tor, an entry replaced while offline, a command of unknown outcome.     *)
(* And publish_pending is a no-op while offline: tor is asked to serve     *)
(* only after the loop has seen it bootstrapped since its last start.      *)
ServedIsHosted ==
  /\ sound /\ ~raced /\ (\A p \in Callers : Free(p)) =>
       /\ pub => live = entry
       /\ entry = 0 => live = 0
  /\ live # 0 => booted

(* The supervisor recovers: once it is left running with the kill switch   *)
(* off and the network enabled, then whatever died before, tor comes       *)
(* online again, stays so, and the hosted service is published on it.      *)
Recovers ==
  <>[](sup = "running" /\ ~kill /\ ~disabled) =>
    <>[](online /\ status = "Online" /\ (entry # 0 => pub))

=============================================================================
