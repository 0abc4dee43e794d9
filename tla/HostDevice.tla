------------------------------ MODULE HostDevice ------------------------------
(***************************************************************************)
(* The device as the host's maintenance operations meet it: the files they *)
(* replace, the processes those files start, the mounts Apple's diskd gives *)
(* and takes back, and the SSH link every remote step needs.  Versions     *)
(* stand for contents: "old" is the release installed before, "new" the    *)
(* one being deployed, "torn" a file whose copy stopped half way.          *)
(*                                                                         *)
(* Remote(Effect) is one call of transport/ssh.py; the operations in       *)
(* HostDeploy and HostMaintain are sequences of such calls.                *)
(***************************************************************************)
EXTENDS Naturals

CONSTANTS Volumes,      \* the HFS volumes MaSt lists
          Builtin,      \* the one on the internal disk
          Firmwares,    \* kinds of device considered
          MaxFaults     \* bound on everything that goes wrong

ASSUME VolumesAssumption == Builtin \in Volumes
ASSUME FirmwareAssumption == Firmwares \subseteq {"nb6", "nb4", "nb4auto"}
ASSUME FaultsAssumption == MaxFaults \in Nat

VARIABLES up,           \* the system runs (FALSE while it boots)
          link,         \* the network between host and device
          rebooting,    \* a reboot was accepted and has not begun
          booted,       \* the device has booted since the current operation began
          mounted,      \* volumes mounted now
          payload,      \* .samba4 on each volume, by group of files
          dirty,        \* payload files not yet synced to the disk
          flash,        \* /mnt/Flash, by group of files
          records,      \* volumes with records left in the builtin volume's xattr.tdb
          native,       \* volumes whose records were copied to native HFS storage
          firmware,     \* "nb6", "nb4", or "nb4auto": NetBSD 4 patched to run rc.local
          manager,      \* version of the running manager
          smbd,         \* version of the running smbd
          faults        \* faults so far

deviceFiles == <<payload, dirty, flash, records, native, firmware>>
deviceVars == <<up, link, rebooting, booted, mounted, deviceFiles, manager, smbd>>

(* The payload without smbd and the one-shot migrator is "helpers"; boot   *)
(* scripts are "boot" (rc.local, common.sh, boot.sh) and "scripts"         *)
(* (manager.sh, migrate.sh, dfree.sh).                                     *)
PayloadFiles == {"migrator", "smbd", "helpers"}
FlashFiles == {"mdns", "boot", "scripts", "conf"}
Version == {"none", "old", "torn", "new"}

DeviceTypeOK ==
    /\ up \in BOOLEAN /\ link \in BOOLEAN /\ rebooting \in BOOLEAN /\ booted \in BOOLEAN
    /\ mounted \subseteq Volumes
    /\ payload \in [Volumes -> [PayloadFiles -> Version]]
    /\ dirty \in [Volumes -> SUBSET PayloadFiles]
    /\ flash \in [FlashFiles -> Version \ {"torn"}]
    /\ records \subseteq Volumes /\ native \subseteq Volumes /\ firmware \in Firmwares
    /\ manager \in Version \ {"torn"} /\ smbd \in Version \ {"torn"}
    /\ faults \in 0 .. MaxFaults

Nothing(files) == [f \in files |-> "none"]
AllOld(files) == [f \in files |-> "old"]
Clean == [v \in Volumes |-> {}]

(* A device that never had the payload, or one that runs the old release.  *)
DeviceInit ==
    /\ up = TRUE /\ link = TRUE /\ rebooting = FALSE /\ booted = FALSE
    /\ native = {} /\ dirty = Clean /\ faults = 0 /\ firmware \in Firmwares
    /\ \/ /\ payload = [v \in Volumes |-> Nothing(PayloadFiles)]
          /\ flash = Nothing(FlashFiles)
          /\ manager = "none" /\ smbd = "none" /\ records = {} /\ mounted = {}
       \/ /\ payload = [v \in Volumes |-> IF v = Builtin THEN AllOld(PayloadFiles)
                                                         ELSE Nothing(PayloadFiles)]
          /\ flash = AllOld(FlashFiles)
          /\ manager = "old" /\ smbd = "old" /\ records = Volumes /\ mounted = Volumes

Reachable == up /\ link

Fault == faults < MaxFaults /\ faults' = faults + 1

(* What a manager looks for in a payload directory (tc_verify_payload_dir). *)
Complete(v) == payload[v]["smbd"] # "none" /\ payload[v]["helpers"] # "none"

(* rc.local starts the runtime on NetBSD 6 and on a patched NetBSD 4.      *)
Autostarts == firmware # "nb4" /\ flash["boot"] # "none"

(* The payload a manager takes: the first complete one, the builtin        *)
(* volume's before any other (manager.sh: 388); a torn smbd does not run.  *)
Servable(v) == Complete(v) /\ (v # Builtin => ~Complete(Builtin)) /\ payload[v]["smbd"] # "torn"

Ready == up /\ manager # "none" /\ smbd # "none"

-----------------------------------------------------------------------------
(* The device's own steps.                                                 *)

(* An orderly shutdown: processes end, the disks are synced and unmounted. *)
GoDown ==
    /\ up /\ rebooting
    /\ up' = FALSE /\ rebooting' = FALSE /\ booted' = TRUE
    /\ mounted' = {} /\ dirty' = Clean
    /\ manager' = "none" /\ smbd' = "none"
    /\ UNCHANGED <<link, payload, flash, records, native, faults, firmware>>

(* A power cut: any file not yet synced may come back torn.                *)
PowerCut ==
    /\ up /\ Fault
    /\ up' = FALSE /\ rebooting' = FALSE /\ booted' = TRUE
    /\ mounted' = {} /\ dirty' = Clean
    /\ manager' = "none" /\ smbd' = "none"
    /\ \E lost \in [Volumes -> SUBSET PayloadFiles] :
          /\ \A v \in Volumes : lost[v] \subseteq dirty[v]
          /\ payload' = [v \in Volumes |-> [f \in PayloadFiles |->
                            IF f \in lost[v] THEN "torn" ELSE payload[v][f]]]
    /\ UNCHANGED <<link, flash, records, native, firmware>>

ComeUp ==
    /\ ~up /\ up' = TRUE
    /\ manager' = IF Autostarts THEN flash["scripts"] ELSE "none"
    /\ UNCHANGED <<link, rebooting, booted, mounted, deviceFiles, smbd, faults>>

LinkDrop == link /\ Fault /\ link' = FALSE
            /\ UNCHANGED <<up, rebooting, booted, mounted, deviceFiles, manager, smbd>>

LinkBack == ~link /\ link' = TRUE
            /\ UNCHANGED <<up, rebooting, booted, mounted, deviceFiles, manager, smbd, faults>>

(* diskd unmounts a volume nobody claims.                                  *)
DiskdUnmount(v) ==
    /\ v \in mounted /\ smbd = "none" /\ Fault
    /\ mounted' = mounted \ {v}
    /\ UNCHANGED <<up, link, rebooting, booted, deviceFiles, manager, smbd>>

(* The manager claims the volumes and starts smbd.  The new release        *)
(* migrates what it is about to share first (ManagerDisk).                 *)
ManagerServes(v) ==
    /\ up /\ manager # "none" /\ smbd = "none" /\ Servable(v)
    /\ smbd' = payload[v]["smbd"] /\ mounted' = Volumes
    /\ native' = IF manager = "new" THEN native \union records ELSE native
    /\ records' = IF manager = "new" THEN {} ELSE records
    /\ UNCHANGED <<up, link, rebooting, booted, payload, dirty, flash, manager, faults, firmware>>

(* The steps that need nothing of the host.  ComeUp is left to Host.tla,   *)
(* which says when a boot may end.                                         *)
DeviceStep ==
    \/ GoDown \/ PowerCut \/ LinkDrop \/ LinkBack
    \/ \E v \in Volumes : DiskdUnmount(v) \/ ManagerServes(v)

-----------------------------------------------------------------------------
(* Effects of single remote commands, as primed device variables.          *)

NoEffect == UNCHANGED deviceVars

(* diskd.useVolume and the wait for df to show the volume.                 *)
Mounts(vols) ==
    /\ mounted' = mounted \union vols
    /\ UNCHANGED <<up, link, rebooting, booted, deviceFiles, manager, smbd>>

StopsManager ==
    /\ manager' = "none"
    /\ UNCHANGED <<up, link, rebooting, booted, mounted, deviceFiles, smbd>>

StopsDaemons ==
    /\ smbd' = "none"
    /\ UNCHANGED <<up, link, rebooting, booted, mounted, deviceFiles, manager>>

(* scp or cat straight onto the destination; its directory is on the disk, *)
(* so without the mount nothing can be written.                            *)
PutsPayload(v, f, version) ==
    /\ v \in mounted
    /\ payload' = [payload EXCEPT ![v][f] = version]
    /\ dirty' = [dirty EXCEPT ![v] = @ \union {f}]
    /\ UNCHANGED <<up, link, rebooting, booted, mounted, flash, records, native, manager, smbd, firmware>>

(* Upload to a hidden name, chmod, mv: the old file or the new, never torn. *)
PutsFlash(f) ==
    /\ flash' = [flash EXCEPT ![f] = "new"]
    /\ UNCHANGED <<up, link, rebooting, booted, mounted, payload, dirty, records, native, manager, smbd, firmware>>

(* sync; sleep; sync.                                                      *)
Flushes ==
    /\ dirty' = Clean
    /\ UNCHANGED <<up, link, rebooting, booted, mounted, payload, flash, records, native, manager, smbd, firmware>>

(* The migrator run over the volumes that mounted, followed by a sync.     *)
CopiesRecords(vols) ==
    /\ native' = native \union (records \intersect vols)
    /\ mounted' = mounted \union vols /\ dirty' = Clean
    /\ UNCHANGED <<up, link, rebooting, booted, payload, flash, records, manager, smbd, firmware>>

RetiresRecords(vols) ==
    /\ records' = records \ vols
    /\ mounted' = mounted \union vols /\ dirty' = Clean
    /\ UNCHANGED <<up, link, rebooting, booted, payload, flash, native, manager, smbd, firmware>>

(* rc.local: boot.sh ends what runs and starts the manager on flash.       *)
RunsRcLocal ==
    /\ manager' = flash["scripts"] /\ smbd' = "none"
    /\ UNCHANGED <<up, link, rebooting, booted, mounted, deviceFiles>>

AsksReboot ==
    /\ rebooting' = TRUE
    /\ UNCHANGED <<up, link, booted, mounted, deviceFiles, manager, smbd>>
=============================================================================
