------------------------------- MODULE Vault -------------------------------
(***************************************************************************)
(* The lock boundary: VaultedEngine (vault/mod.rs), the queue of drops     *)
(* that arrive while the vault is locked (vault/queue.rs) and the wipe     *)
(* (vault/wipe.rs), with process crashes and failing file operations.      *)
(*                                                                         *)
(* A drop is a model value.  The store is abstracted to its key and the    *)
(* drops it has ingested, a Tier-A key to a number.  The host drives the   *)
(* vault from one thread, so an operation is one action; the crash points  *)
(* inside it are choices of that action.                                   *)
(***************************************************************************)
EXTENDS Integers, FiniteSets, Functions

CONSTANTS
  Drops,      \* inbound frames, as they reach ingest_drop
  Size,       \* Size[d]: bytes of the encoded blob of d
  MaxFiles,   \* MAX_FILES
  MaxBytes,   \* MAX_BYTES
  Deks,       \* keys the client may supply
  Stores,     \* what the data dir holds at first: absent, plain or a DEK
  MaxCrashes, \* bound: process crashes
  MaxFaults,  \* bound: failing file operations
  MaxWipes    \* bound: panic wipes

ASSUME VaultAssumption ==
  /\ Size \in [Drops -> Nat] /\ MaxFiles \in Nat /\ MaxBytes \in Nat
  /\ Stores \subseteq Deks \cup {"absent", "plain"}
  /\ MaxCrashes \in Nat /\ MaxFaults \in Nat /\ MaxWipes \in Nat

VARIABLES
  disk,    \* the data dir
  host,    \* "down", "locked", "unlocked" or "wiped"
  tierA,   \* the Tier-A key in RAM
  took,    \* history: drops the queue has accepted
  drained, \* history: drops an unlock has removed from the queue
  told,    \* history: drops whose loss was logged and counted
  erased,  \* history: drops a wipe was asked to erase
  crashes, faults, wipes

vaultVars == <<disk, host, tierA, took, drained, told, erased, crashes, faults, wipes>>

\* A data dir: the store and its content, a copy a migration left, the Tier-A
\* key file (0 is none), whether queue/ exists, its files, its temporary ones.
\* A file is its drop and the key it is wrapped with.  The files have an order,
\* by the wall clock's time of their writing (files_oldest_first); clocks are
\* set and times are equal, so that it can be any.
Fresh(store) == [store |-> store, rows |-> {}, copy |-> FALSE, key |-> 0,
                 dir |-> FALSE, files |-> {}, temps |-> {}]

DropsOf(files) == {f.drop : f \in files}

-----------------------------------------------------------------------------
(* The queue.                                                              *)

\* wrap: the nonce and the tag are added to the blob.
Overhead == 28

\* usage.
Bytes(files) == SumFunction([f \in files |-> Size[f.drop] + Overhead])

\* enqueue's caps.
Room(files, d) ==
  /\ Cardinality(files) < MaxFiles
  /\ Bytes(files) + Size[d] + 40 <= MaxBytes

\* The file of d, named after its content, replaces an older one of its own.
Put(files, d) == {f \in files : f.drop # d} \cup {[drop |-> d, key |-> tierA]}

-----------------------------------------------------------------------------
VaultInit ==
  /\ \E s \in Stores : disk = Fresh(s)
  /\ host = "down"
  /\ tierA = 0
  /\ took = {} /\ drained = {} /\ told = {} /\ erased = {}
  /\ crashes = 0 /\ faults = 0 /\ wipes = 0

Crash == crashes < MaxCrashes /\ crashes' = crashes + 1 /\ host' = "down"

Fault == faults < MaxFaults /\ faults' = faults + 1

\* Mutant: a launch replaces the key.
TierAReplaced == (disk.key % 2) + 1

\* load_or_generate_tier_a.  The number of wipes tells a new key from the ones
\* before.
TierA == IF disk.key # 0 THEN disk.key ELSE wipes + 1

\* VaultedEngine::new.
Launch ==
  /\ host = "down"
  /\ host' = "locked"
  /\ tierA' = TierA
  /\ disk' = [disk EXCEPT !.key = tierA', !.dir = TRUE]
  /\ UNCHANGED <<took, drained, told, erased, crashes, faults, wipes>>

\* ingest_drop while locked.  Without the queue directory it is an error.  A
\* full queue refuses the drop; the answer is Queued all the same.
IngestLocked(d) ==
  /\ host = "locked" /\ disk.dir
  /\ IF Room(disk.files, d)
       THEN /\ disk' = [disk EXCEPT !.files = Put(@, d)]
            /\ took' = took \cup {d}
       ELSE UNCHANGED <<disk, took>>
  /\ UNCHANGED <<host, tierA, drained, told, erased, crashes, faults, wipes>>

\* The process dies in enqueue, before the rename.
CrashInEnqueue(d) ==
  /\ host = "locked" /\ disk.dir /\ Room(disk.files, d)
  /\ disk' = [disk EXCEPT !.temps = @ \cup {d}]
  /\ Crash
  /\ UNCHANGED <<tierA, took, drained, told, erased, faults, wipes>>

\* ingest_drop while unlocked, when the session takes the frame.
Ingest(d) ==
  /\ host = "unlocked"
  /\ disk' = [disk EXCEPT !.rows = @ \cup {d}]
  /\ UNCHANGED <<host, tierA, took, drained, told, erased, crashes, faults, wipes>>

-----------------------------------------------------------------------------
(* Unlock.  A wrong DEK is refused before anything changes.                *)

\* open_store_with_dek: an absent store is made, a plain one migrated.
Opens(k) == host \in {"locked", "wiped"} /\ disk.store \in {"absent", "plain", k}

\* The data dir after that; a migration replaces a copy left by an earlier one.
Opened(k) == [disk EXCEPT !.store = k, !.copy = @ /\ disk.store # "plain"]

\* The queued drops the Tier-A key of this launch decrypts.
Readable(files) == DropsOf({f \in files : f.key = tierA})

\* Mutant: drops that fail to ingest are not counted.
CountedNone(files, ok) == DropsOf(files) \ Readable(files)

\* What unlock reports or logs: files it purges, drops that fail to ingest.
Counted(files, ok) == DropsOf(files) \ ok

\* unlock, to its end: drain empties the queue (a file whose removal fails
\* stays), and every drop is ingested (ok) or counted.
Unlock(k) ==
  /\ Opens(k) /\ disk.dir
  /\ \E ok \in SUBSET Readable(disk.files), stuck \in SUBSET DropsOf(disk.files) :
       /\ disk' = [Opened(k) EXCEPT !.rows = @ \cup ok,
                                    !.files = {f \in @ : f.drop \in stuck}]
       /\ told' = told \cup Counted(disk.files, ok)
       /\ IF stuck = {} THEN UNCHANGED faults ELSE Fault
  /\ drained' = drained \cup DropsOf(disk.files)
  /\ host' = "unlocked"
  /\ UNCHANGED <<tierA, took, erased, crashes, wipes>>

\* The store opens, then restore_services fails, or drain finds no directory.
UnlockRefused(k) ==
  /\ Opens(k)
  /\ disk' = Opened(k)
  /\ host' = "locked"
  /\ UNCHANGED <<tierA, took, drained, told, erased, crashes, faults, wipes>>

\* drain stops at a file it cannot read, the ones before it being gone, and
\* returns no drop.
UnlockStops(k) ==
  /\ Opens(k) /\ disk.dir
  /\ \E gone \in (SUBSET disk.files) \ {disk.files} :
       /\ disk' = [Opened(k) EXCEPT !.files = @ \ gone]
       /\ drained' = drained \cup DropsOf(gone)
       /\ told' = told \cup (DropsOf(gone) \ Readable(gone))
  /\ Fault
  /\ host' = "locked"
  /\ UNCHANGED <<tierA, took, erased, crashes, wipes>>

\* The process dies in migrate_plaintext_if_needed, before the rename.
CrashInMigrate(k) ==
  /\ Opens(k) /\ disk.store = "plain"
  /\ disk' = [disk EXCEPT !.copy = TRUE]
  /\ Crash
  /\ UNCHANGED <<tierA, took, drained, told, erased, faults, wipes>>

\* The process dies in drain after some files, or, all of them being gone,
\* after the ingest of some.
CrashInDrain(k) ==
  /\ Opens(k) /\ disk.dir
  /\ \E gone \in (SUBSET disk.files) \ {{}}, seen \in SUBSET disk.files :
       /\ gone # disk.files => seen = {}
       /\ \E ok \in SUBSET Readable(seen) :
            /\ disk' = [Opened(k) EXCEPT !.rows = @ \cup ok, !.files = @ \ gone]
            /\ told' = told \cup Counted(seen, ok) \cup (DropsOf(gone) \ Readable(gone))
       /\ drained' = drained \cup DropsOf(gone)
  /\ Crash
  /\ UNCHANGED <<tierA, took, erased, faults, wipes>>

\* lock.
Lock ==
  /\ host = "unlocked"
  /\ host' = "locked"
  /\ UNCHANGED <<disk, tierA, took, drained, told, erased, crashes, faults, wipes>>

\* The process ends between two operations.
Exit ==
  /\ host # "down"
  /\ host' = "down"
  /\ UNCHANGED <<disk, tierA, took, drained, told, erased, crashes, faults, wipes>>

-----------------------------------------------------------------------------
(* The wipe.                                                               *)

\* Mutant: queue/ is not one of the directories the core owns.
WipedButQueue(left) ==
  [disk EXCEPT !.store = IF "store" \in left THEN @ ELSE "absent",
               !.rows  = IF "store" \in left THEN @ ELSE {},
               !.key   = IF "keys" \in left THEN @ ELSE 0]

\* OWNED_FILES and OWNED_DIRS are removed, but for the parts left.  The copy a
\* migration left is in neither list.
Wiped(left) ==
  [disk EXCEPT !.store = IF "store" \in left THEN @ ELSE "absent",
               !.rows  = IF "store" \in left THEN @ ELSE {},
               !.key   = IF "keys" \in left THEN @ ELSE 0,
               !.dir   = IF "queue" \in left THEN @ ELSE FALSE,
               !.files = IF "queue" \in left THEN @ ELSE {},
               !.temps = IF "queue" \in left THEN @ ELSE {}]

Parts == {"store", "keys", "queue"}

\* panic_wipe: lock, then the files, then the directories in their order.  A
\* part that cannot be removed is counted and the rest goes on; a crash leaves
\* the parts after it.
PanicWipe ==
  /\ host # "down"
  /\ wipes < MaxWipes
  /\ wipes' = wipes + 1
  /\ erased' = erased \cup DropsOf(disk.files) \cup disk.rows
  /\ \/ /\ disk' = Wiped({})
        /\ host' = "wiped"
        /\ UNCHANGED <<crashes, faults>>
     \/ /\ \E left \in (SUBSET Parts) \ {{}} : disk' = Wiped(left)
        /\ host' = "locked"
        /\ Fault
        /\ UNCHANGED crashes
     \/ /\ \E left \in {{"keys", "queue"}, {"queue"}} : disk' = Wiped(left)
        /\ Crash
        /\ UNCHANGED faults
  /\ UNCHANGED <<tierA, took, drained, told>>

VaultNext ==
  \/ Launch \/ Lock \/ Exit \/ PanicWipe
  \/ \E d \in Drops : IngestLocked(d) \/ CrashInEnqueue(d) \/ Ingest(d)
  \/ \E k \in Deks :
       \/ Unlock(k) \/ UnlockRefused(k) \/ UnlockStops(k)
       \/ CrashInMigrate(k) \/ CrashInDrain(k)

VaultSpec == VaultInit /\ [][VaultNext]_vaultVars

-----------------------------------------------------------------------------
(* Properties.                                                             *)

\* A drop the locked vault accepted waits for the next unlock, across locks,
\* launches, crashes and failing file operations, readable with the Tier-A key
\* of the data dir (load_or_generate_tier_a, enqueue), as long as no wipe was
\* asked for.
KeptUntilUnlock ==
  wipes = 0 =>
    \A d \in took \ drained :
      \E f \in disk.files : f.drop = d /\ f.key = disk.key

\* A drop the queue accepted is in it, or ingested, or its loss was logged and
\* counted (queue.rs, "Loss is always loud (tracing + counters), never
\* silent").
LossIsLoud ==
  took \subseteq DropsOf(disk.files) \cup disk.rows \cup told \cup erased

\* That holds while no process died in a drain and no file operation failed.
CalmLossIsLoud == (crashes = 0 /\ faults = 0) => LossIsLoud

\* After a wipe without errors the data dir is that of a fresh install
\* (wipe.rs, "the next launch looks like a fresh install"), unless a crash had
\* left the copy of a migration behind.
WipeIsComplete ==
  (crashes = 0 /\ host = "wiped") => disk = Fresh("absent")
=============================================================================
