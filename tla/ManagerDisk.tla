---------------------------- MODULE ManagerDisk ----------------------------
(***************************************************************************)
(* The disk lane of the on-device runtime manager (manager.sh): one pass   *)
(* reads the MaSt volume table, decides whether the runtime has to be      *)
(* rebuilt, and if so claims the volumes, picks the payload, migrates      *)
(* legacy metadata, and publishes share rows; the pass ends by telling the *)
(* mDNS advertiser.  The disks themselves come, go, mount and unmount      *)
(* between any two steps of the pass.                                      *)
(*                                                                         *)
(* A volume stands for one MaSt row (device, root, name and UUID          *)
(* together); volumes are numbered in MaSt order.  A topology signature is *)
(* the set of rows it lists.  Share rows and ADISK rows always list the    *)
(* same volumes (tc_manager_append_share_rows) and are one set here.       *)
(***************************************************************************)
EXTENDS Integers

CONSTANTS
    Volumes,         \* the volumes that may ever be attached, in MaSt order
    Internal,        \* those whose MaSt row has builtin = 1
    PayloadVolumes,  \* those that hold a valid .samba4 payload directory
    NoVolume,        \* no payload, no metadata database
    MayFail,         \* the calls that may fail
    MaxFaults,       \* how many calls fail in one behaviour
    MaxEnv,          \* how many changes the disks go through
    EnvAt            \* the manager's steps before which the disks may change

Calls == {"mast", "useVolume", "migrate", "writable", "adisk", "mdnsStop", "mdnsLaunch"}

PCs == {"idle", "users", "debounce", "activate", "resolve", "select",
        "copy", "cleanup", "build", "services"}

Reasons == {"initial", "migration_volume_available", "active_users_dropped",
            "topology_changed"}

ASSUME ManagerDiskAssumption ==
    /\ Volumes \subseteq Nat
    /\ Internal \subseteq Volumes
    /\ PayloadVolumes \subseteq Volumes
    /\ NoVolume \notin Volumes
    /\ MayFail \subseteq Calls
    /\ MaxFaults \in Nat
    /\ MaxEnv \in Nat
    /\ EnvAt \subseteq PCs

VARIABLES
    plugged,       \* the volumes MaSt lists
    mounted,       \* the volumes mounted at their root
    claimed,       \* the volumes whose MaSt users count is not zero
    records,       \* records[p]: the volumes with records in p's xattr.tdb
    env,           \* disk changes so far
    faults,        \* failed calls so far
    pc,            \* where the manager's pass is
    ready,         \* TC_MANAGER_MAST_CONFIRMED_STABLE_SIGNATURE_READY
    confirmed,     \* TC_MANAGER_MAST_CONFIRMED_STABLE_SIGNATURE
    rows,          \* the topology this pass read
    zero,          \* the rows it read with users = 0
    reason,        \* refresh_reason
    topologyRows,  \* manager_topology_rows
    previousRows,  \* previous_manager_topology_rows
    resolved,      \* TC_RESOLVED_PAYLOAD_VOLUME
    payload,       \* manager_payload_volume, NoVolume when not ready
    shares,        \* manager_share_rows and manager_adisk_rows
    tdbPath,       \* TC_MANAGER_XATTR_TDB_PATH, by its volume
    migrated,      \* TC_MANAGER_XATTR_MIGRATED_VOLUMES
    migrating,     \* the roots handed to the migrator
    diskChanged,   \* TC_MANAGER_DISK_STATE_CHANGED
    mdns,          \* the mDNS advertiser is running
    advertised     \* the ADISK rows it was launched with

disks    == <<plugged, mounted, claimed>>
signature == <<ready, confirmed>>
snapshot == <<rows, zero>>
topology == <<topologyRows, previousRows>>
published == <<payload, shares>>
xattrs   == <<tdbPath, migrated, migrating>>
adverts  == <<mdns, advertised>>
vars == <<disks, records, env, faults, pc, signature, snapshot, reason, topology,
          resolved, published, xattrs, diskChanged, adverts>>

DisksType ==
    /\ plugged \subseteq Volumes
    /\ mounted \subseteq plugged
    /\ claimed \subseteq mounted
    /\ records \in [Volumes -> SUBSET Volumes]

BoundsType ==
    /\ env \in 0 .. MaxEnv
    /\ faults \in 0 .. MaxFaults

PassType ==
    /\ pc \in PCs
    /\ ready \in BOOLEAN
    /\ reason \in Reasons
    /\ diskChanged \in BOOLEAN
    /\ mdns \in BOOLEAN

RowsType ==
    /\ confirmed \subseteq Volumes
    /\ rows \subseteq Volumes
    /\ zero \subseteq rows
    /\ topologyRows \subseteq Volumes
    /\ previousRows \subseteq Volumes
    /\ shares \subseteq Volumes
    /\ migrated \subseteq Volumes
    /\ migrating \subseteq Volumes
    /\ advertised \subseteq Volumes
    /\ {resolved, payload, tdbPath} \subseteq Volumes \cup {NoVolume}

TypeOK == DisksType /\ BoundsType /\ PassType /\ RowsType

-----------------------------------------------------------------------------
(* The manager's state as manager.sh initialises it before its loop.       *)

ManagerInit ==
    /\ pc = "idle"
    /\ ready = FALSE /\ confirmed = {}
    /\ rows = {} /\ zero = {}
    /\ reason = "initial"
    /\ topologyRows = {} /\ previousRows = {}
    /\ resolved = NoVolume
    /\ payload = NoVolume /\ shares = {}
    /\ tdbPath = NoVolume /\ migrated = {} /\ migrating = {}
    /\ diskChanged = FALSE
    /\ mdns = FALSE /\ advertised = {}

Init ==
    /\ plugged \in SUBSET Volumes
    /\ mounted = {} /\ claimed = {}
    /\ records \in [Volumes -> SUBSET Volumes]
    /\ \A v \in Volumes \ PayloadVolumes : records[v] = {}
    /\ env = 0 /\ faults = 0
    /\ ManagerInit

-----------------------------------------------------------------------------
(* The disks: AirPort's diskd and the people who plug, unplug, eject and   *)
(* idle them.  External to src/, seen by the manager only through MaSt, df *)
(* and diskd.useVolume.                                                    *)

EnvStep ==
    /\ pc \in EnvAt
    /\ env < MaxEnv
    /\ env' = env + 1
    /\ UNCHANGED <<records, faults, pc, signature, snapshot, reason, topology,
                   resolved, published, xattrs, diskChanged>>

Plug(v) ==
    /\ v \notin plugged
    /\ plugged' = plugged \cup {v}
    /\ UNCHANGED <<mounted, claimed, adverts>>
    /\ EnvStep

Unplug(v) ==
    /\ v \in plugged
    /\ plugged' = plugged \ {v}
    /\ mounted' = mounted \ {v}
    /\ claimed' = claimed \ {v}
    /\ UNCHANGED adverts
    /\ EnvStep

\* A slow disk finishes mounting after diskd.useVolume gave up, or another
\* client of diskd mounts it.
Mount(v) ==
    /\ v \in plugged \ mounted
    /\ mounted' = mounted \cup {v}
    /\ UNCHANGED <<plugged, claimed, adverts>>
    /\ EnvStep

Unmount(v) ==
    /\ v \in mounted
    /\ mounted' = mounted \ {v}
    /\ claimed' = claimed \ {v}
    /\ UNCHANGED <<plugged, adverts>>
    /\ EnvStep

DropClaim(v) ==
    /\ v \in claimed
    /\ claimed' = claimed \ {v}
    /\ UNCHANGED <<plugged, mounted, adverts>>
    /\ EnvStep

MdnsDies ==
    /\ mdns
    /\ mdns' = FALSE
    /\ UNCHANGED <<disks, advertised>>
    /\ EnvStep

\* The manager and the advertiser are killed and started again (a reboot, a
\* new deploy): only what is on the disks survives.
Restart ==
    /\ env < MaxEnv
    /\ env' = env + 1
    /\ pc' = "idle"
    /\ ready' = FALSE /\ confirmed' = {}
    /\ rows' = {} /\ zero' = {}
    /\ reason' = "initial"
    /\ topologyRows' = {} /\ previousRows' = {}
    /\ resolved' = NoVolume
    /\ payload' = NoVolume /\ shares' = {}
    /\ tdbPath' = NoVolume /\ migrated' = {} /\ migrating' = {}
    /\ diskChanged' = FALSE
    /\ mdns' = FALSE /\ advertised' = {}
    /\ UNCHANGED <<disks, records, faults>>

Environment ==
    \/ \E v \in Volumes : Plug(v) \/ Unplug(v) \/ Mount(v) \/ Unmount(v) \/ DropClaim(v)
    \/ MdnsDies
    \/ Restart

-----------------------------------------------------------------------------
(* A call that may fail: the bound MaxFaults keeps failures finite.        *)

Fails(call) ==
    /\ call \in MayFail
    /\ faults < MaxFaults
    /\ faults' = faults + 1

Succeeds == UNCHANGED faults

-----------------------------------------------------------------------------
(* Reading MaSt and deciding: tc_manager_reconcile_disk_state.             *)

PendingXattrVolumeMounted_Claimed(t) == \E v \in t : v \notin migrated /\ v \in claimed
PendingXattrVolumeMounted(t) == \E v \in t : v \notin migrated /\ v \in mounted

ApplyRuntime(why, t) ==
    /\ reason' = why
    /\ previousRows' = topologyRows
    /\ topologyRows' = t
    /\ pc' = "activate"

ReadMast ==
    /\ pc = "idle"
    /\ diskChanged' = FALSE
    /\ UNCHANGED <<disks, records, env, signature, resolved, published, xattrs, adverts>>
    /\ \/ /\ Fails("mast")
          /\ pc' = "services"
          /\ UNCHANGED <<snapshot, reason, topology>>
       \/ /\ Succeeds
          /\ rows' = plugged
          /\ zero' = plugged \ claimed
          /\ \/ /\ ~ready
                /\ ApplyRuntime("initial", plugged)
             \/ /\ ready
                /\ plugged = confirmed
                /\ PendingXattrVolumeMounted(plugged)
                /\ ApplyRuntime("migration_volume_available", plugged)
             \/ /\ ready
                /\ plugged = confirmed
                /\ ~PendingXattrVolumeMounted(plugged)
                /\ pc' = "users"
                /\ UNCHANGED <<reason, topology>>
             \/ /\ ready
                /\ plugged # confirmed
                /\ pc' = "debounce"
                /\ UNCHANGED <<reason, topology>>

\* diskd.useVolume on every volume of t; up is what it mounted and claimed. A
\* volume that is gone cannot be claimed, one that is there fails at a cost.
UseVolumes_Gone(t, up) ==
    /\ up \subseteq t
    /\ mounted' = mounted \cup up
    /\ claimed' = claimed \cup up
    /\ UNCHANGED plugged
    /\ IF t \cap plugged \subseteq up THEN Succeeds ELSE Fails("useVolume")
UseVolumes(t, up) ==
    /\ up \subseteq t \cap plugged
    /\ mounted' = mounted \cup up
    /\ claimed' = claimed \cup up
    /\ UNCHANGED plugged
    /\ IF up = t \cap plugged THEN Succeeds ELSE Fails("useVolume")

CheckActiveMastUsers ==
    /\ pc = "users"
    /\ \E up \in SUBSET Volumes :
         LET idle == zero \cap shares IN
         /\ UseVolumes(idle, up)
         /\ IF idle \subseteq up /\ shares \subseteq rows
            THEN /\ pc' = "services"
                 /\ UNCHANGED <<reason, topology>>
            ELSE ApplyRuntime("active_users_dropped", rows)
    /\ UNCHANGED <<records, env, signature, snapshot, resolved, published, xattrs,
                   diskChanged, adverts>>

\* A change counts once two reads in a row show the same new topology.
ConfirmedChange == plugged # confirmed /\ plugged = rows

\* The second read, after the debounce sleep, is not retried.
Debounce ==
    /\ pc = "debounce"
    /\ \/ /\ Fails("mast")
          /\ pc' = "services"
          /\ UNCHANGED <<reason, topology>>
       \/ /\ Succeeds
          /\ ~ConfirmedChange
          /\ pc' = "services"
          /\ UNCHANGED <<reason, topology>>
       \/ /\ Succeeds
          /\ ConfirmedChange
          /\ ApplyRuntime("topology_changed", rows)
    /\ UNCHANGED <<disks, records, env, signature, snapshot, resolved, published,
                   xattrs, diskChanged, adverts>>

-----------------------------------------------------------------------------
(* Rebuilding the runtime: tc_manager_apply_runtime_from_topology.         *)

\* The caller records the signature once the rebuild returned 0; a rebuild for
\* a newly mounted volume has nothing new to record.
RecordSignature_InitialOnly ==
    IF reason # "initial" THEN UNCHANGED signature ELSE ready' = TRUE /\ confirmed' = rows
RecordSignature ==
    IF reason = "migration_volume_available"
    THEN UNCHANGED signature
    ELSE ready' = TRUE /\ confirmed' = rows

ClearPayloadState == payload' = NoVolume /\ shares' = {}

ApplyDisklessState_Silent ==
    /\ topologyRows' = {}
    /\ UNCHANGED <<previousRows, diskChanged>>
    /\ ClearPayloadState
    /\ RecordSignature
    /\ pc' = "services"
ApplyDisklessState ==
    /\ topologyRows' = {}
    /\ UNCHANGED previousRows
    /\ ClearPayloadState
    /\ diskChanged' = TRUE
    /\ RecordSignature
    /\ pc' = "services"

ActivateTopology ==
    /\ pc = "activate"
    /\ \/ /\ rows = {}
          /\ ApplyDisklessState
          /\ Succeeds
          /\ UNCHANGED disks
       \/ /\ rows # {}
          /\ \E up \in SUBSET Volumes : UseVolumes(rows, up)
          /\ pc' = "resolve"
          /\ UNCHANGED <<signature, topology, published, diskChanged>>
    /\ UNCHANGED <<records, env, snapshot, reason, resolved, xattrs, adverts>>

Candidates == rows \cap mounted \cap PayloadVolumes

\* Internal candidates first, in MaSt order, then the external ones.
Before(p, q) ==
    IF p \in Internal <=> q \in Internal THEN p <= q ELSE p \in Internal

ResolvePayload ==
    /\ pc = "resolve"
    /\ \/ /\ Candidates = {}
          /\ resolved' = NoVolume
          /\ ApplyDisklessState
       \/ \E p \in Candidates :
            /\ \A q \in Candidates : Before(p, q)
            /\ resolved' = p
            /\ pc' = "select"
            /\ UNCHANGED <<signature, topology, published, diskChanged>>
    /\ UNCHANGED <<disks, records, env, faults, snapshot, reason, xattrs, adverts>>

\* The legacy TDB is looked up on the payload volume as it is now: a volume that
\* was unmounted since it was resolved shows no TDB.
LegacyTdb(p) == p \in mounted /\ records[p] # {}

\* What is known to be migrated is known of one TDB only.
KnownMigrated_AnyTdb == migrated
KnownMigrated == IF tdbPath = resolved THEN migrated ELSE {}

\* Volumes without a legacy TDB have nothing to migrate and are remembered.
RecordWithoutTdb_Forgets(done, todo) == done
RecordWithoutTdb(done, todo) == done \cup todo

\* Volumes handed to the migrator are remembered only once it has succeeded.
RecordBeforeCopy(done, todo) == done

SelectMigration ==
    /\ pc = "select"
    /\ LET done == KnownMigrated
           todo == {v \in rows : v \notin done /\ v \in mounted}
       IN  /\ tdbPath' = resolved
           /\ migrating' = todo
           /\ IF todo # {} /\ LegacyTdb(resolved)
              THEN migrated' = RecordBeforeCopy(done, todo) /\ pc' = "copy"
              ELSE migrated' = RecordWithoutTdb(done, todo) /\ pc' = "build"
    /\ UNCHANGED <<disks, records, env, faults, signature, snapshot, reason, topology,
                   resolved, published, diskChanged, adverts>>

MigrationFailed_KeepsRows ==
    /\ pc' = "services"
    /\ UNCHANGED topology
    /\ IF reason = "initial" \/ payload = NoVolume
       THEN ClearPayloadState
       ELSE UNCHANGED published
MigrationFailed ==
    /\ pc' = "services"
    /\ UNCHANGED previousRows
    /\ IF reason = "initial" \/ payload = NoVolume
       THEN ClearPayloadState /\ UNCHANGED topologyRows
       ELSE topologyRows' = previousRows /\ UNCHANGED published

\* The migrator opens the TDB and refuses a root that is not a mounted volume.
MigratorCanRun == resolved \in mounted /\ migrating \subseteq mounted

MigrateCopy ==
    /\ pc = "copy"
    /\ \/ /\ MigratorCanRun
          /\ Succeeds
          /\ pc' = "cleanup"
          /\ UNCHANGED <<topology, published>>
       \/ /\ IF MigratorCanRun THEN Fails("migrate") ELSE Succeeds
          /\ MigrationFailed
    /\ UNCHANGED <<disks, records, env, signature, snapshot, reason, resolved, xattrs,
                   diskChanged, adverts>>

\* Cleanup retires TDB records one file at a time, so a failed run has emptied
\* some volumes already.
MigrateCleanup ==
    /\ pc = "cleanup"
    /\ \/ /\ MigratorCanRun
          /\ Succeeds
          /\ records' = [records EXCEPT ![resolved] = @ \ migrating]
          /\ migrated' = migrated \cup migrating
          /\ pc' = "build"
          /\ UNCHANGED <<topology, published>>
       \/ /\ IF MigratorCanRun THEN Fails("migrate") ELSE Succeeds
          /\ \E retired \in SUBSET migrating :
               records' = [records EXCEPT ![resolved] = @ \ retired]
          /\ UNCHANGED migrated
          /\ MigrationFailed
    /\ UNCHANGED <<disks, env, signature, snapshot, reason, resolved, tdbPath, migrating,
                   diskChanged, adverts>>

SetPayloadState(up) == payload' = resolved /\ shares' = up

\* Share rows from the volumes mounted and writable now, then the payload state
\* and adisk.tsv; a failed adisk.tsv write ends the rebuild half done.
BuildShareState ==
    /\ pc = "build"
    /\ \E up \in SUBSET (rows \cap mounted) :
         \/ /\ up = {}
            /\ IF rows \cap mounted = {} THEN Succeeds ELSE Fails("writable")
            /\ ApplyDisklessState
         \/ /\ up # {}
            /\ IF up = rows \cap mounted THEN Succeeds ELSE Fails("writable")
            /\ SetPayloadState(up)
            /\ diskChanged' = TRUE
            /\ RecordSignature
            /\ pc' = "services"
            /\ UNCHANGED topology
         \/ /\ up # {}
            /\ up = rows \cap mounted
            /\ Fails("adisk")
            /\ SetPayloadState(up)
            /\ pc' = "services"
            /\ UNCHANGED <<diskChanged, signature, topology>>
    /\ UNCHANGED <<disks, records, env, snapshot, reason, resolved, xattrs, adverts>>

-----------------------------------------------------------------------------
(* The rest of the pass, as far as it shows the disk state to the network: *)
(* full service reconciliation runs when the disk state changed or when    *)
(* its timer is due, and its mDNS step replaces the advertiser.            *)

LaunchMdns ==
    \/ /\ Succeeds
       /\ mdns' = TRUE
       /\ advertised' = shares
    \/ /\ Fails("mdnsLaunch")
       /\ mdns' = FALSE
       /\ UNCHANGED advertised

RunServices ==
    /\ pc = "services"
    /\ pc' = "idle"
    /\ \/ /\ diskChanged                 \* stopped, then launched again
          /\ LaunchMdns
       \/ /\ diskChanged /\ mdns         \* the stop failed: it is left running
          /\ Fails("mdnsStop")
          /\ UNCHANGED adverts
       \/ /\ ~diskChanged /\ ~mdns       \* the timer is due
          /\ LaunchMdns
       \/ /\ ~diskChanged                \* not due, or due and found running
          /\ Succeeds
          /\ UNCHANGED adverts
    /\ UNCHANGED <<disks, records, env, signature, snapshot, reason, topology, resolved,
                   published, xattrs, diskChanged>>

Manager ==
    \/ ReadMast
    \/ CheckActiveMastUsers
    \/ Debounce
    \/ ActivateTopology
    \/ ResolvePayload
    \/ SelectMigration
    \/ MigrateCopy
    \/ MigrateCleanup
    \/ BuildShareState
    \/ RunServices

Next == Manager \/ Environment

Spec == Init /\ [][Next]_vars

\* The manager is one loop that always takes its next step; every call it makes
\* has a timeout.  Nothing obliges the disks to do anything.
FairSpec == Spec /\ WF_vars(Manager)

-----------------------------------------------------------------------------
(* Safety.                                                                 *)

\* A volume remembered as migrated has no records left in the TDB of the payload
\* the memory is about, so skipping it loses no metadata (manager.sh keeps
\* TC_MANAGER_XATTR_MIGRATED_VOLUMES per TDB path for that).
MigratedIsTrue == tdbPath \in Volumes => migrated \cap records[tdbPath] = {}

\* A share whose metadata is still in the TDB of the payload in use stays pending
\* (KnownMigrated drops the list when the TDB changes): a later pass can still
\* take it up, whatever failed, moved or came back meanwhile.
SharedStayPending ==
    pc = "idle" /\ payload \in Volumes =>
        shares \cap migrated \cap records[payload] = {}

\* "migrates a pending volume before publishing it when that volume later
\* becomes available" (DETAIL.md): no published share still has records to
\* migrate.  BuildShareState looks at the mounts again, and breaks it.
PublishedAreMigrated == payload \in Volumes => shares \cap records[payload] = {}

\* Between passes the published state is whole: share rows exactly when there is
\* a payload, all of them and the payload within the topology it was built from,
\* also after a migration failed and the previous topology was put back.
PublishedIsWhole ==
    pc = "idle" =>
        IF payload = NoVolume
        THEN shares = {}
        ELSE shares # {} /\ shares \cup {payload} \subseteq topologyRows

\* A pass that leaves payload and topology built for a signature that is not the
\* confirmed one will rebuild: what is published between passes was built from
\* the confirmed topology unless that rebuild is still owed.
PublishedIsConfirmed ==
    pc = "idle" /\ payload # NoVolume => ready /\ topologyRows = confirmed

\* Between passes a running advertiser announces exactly the published shares
\* ("mDNS advertiser so its generated records remain coherent").
AdvertisedIsPublished == pc = "idle" /\ mdns => advertised = shares

-----------------------------------------------------------------------------
(* Liveness.  The disks change finitely often (MaxEnv), so every behaviour *)
(* reaches a point from which they are still.                              *)

\* A mounted volume with records in the TDB of the payload in use is migrated.
PendingIsMigrated ==
    \A p, v \in Volumes :
        <>[](payload = p /\ {p, v} \subseteq mounted) => <>[](v \notin records[p])

\* With a payload in use the rebuilds come to an end.
RefreshesEnd == <>[](payload # NoVolume) => <>[]~diskChanged

-----------------------------------------------------------------------------
(* Inductive strengthenings of the safety invariants, for the proofs.      *)

\* The pass is not in the middle of a rebuild.
Resting == pc \in {"idle", "users", "debounce", "services"}

\* The rebuild has picked a payload and not finished with it.
Migrating == pc \in {"copy", "cleanup"}

WholeIn(t) ==
    IF payload = NoVolume
    THEN shares = {}
    ELSE shares # {} /\ shares \cup {payload} \subseteq t

\* During a rebuild the old shares belong to the topology that a failed
\* migration would put back.
WholeInv ==
    /\ Resting => WholeIn(topologyRows)
    /\ ~Resting => topologyRows = rows /\ WholeIn(previousRows)
    /\ Migrating \/ pc \in {"select", "build"} => resolved \in rows

ConfirmedInv ==
    /\ Resting /\ payload # NoVolume => ready /\ topologyRows = confirmed
    /\ ~Resting /\ payload # NoVolume => ready /\ previousRows = confirmed
    /\ ~Resting /\ reason = "migration_volume_available" => ready /\ rows = confirmed
    /\ ~Resting /\ reason = "initial" => ~ready

AdvertsInv ==
    \/ pc = "services" /\ diskChanged
    \/ mdns => advertised = shares

\* The payload volume was mounted when it was resolved, and stays so until its
\* TDB is looked up.
MigratedInv ==
    /\ MigratedIsTrue
    /\ pc = "select" => resolved \in mounted
    /\ Migrating \/ pc = "build" => tdbPath = resolved

\* Only while the share rows are built does the list speak of another payload's
\* TDB than the published one; else it was dropped with the change of the TDB.
PendingInv ==
    pc # "build" /\ payload \in Volumes /\ payload # tdbPath => migrated = {}

=============================================================================
