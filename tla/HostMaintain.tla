----------------------------- MODULE HostMaintain -----------------------------
(***************************************************************************)
(* The operations that need no upload: uninstall, activate and fsck        *)
(* (app/ops/maintenance.py and the commands of the same names).            *)
(***************************************************************************)
EXTENDS HostReboot

(* The app asks first; the command line asks before the uninstall's reboot, *)
(* and before the whole of activate and fsck.                              *)
FirstStep(name, ui) == IF name = "uninstall" /\ ui = "cli" THEN "mount" ELSE "confirm"

AfterConfirm(name) == IF name = "activate" THEN "probeRuntime" ELSE "mount"

StartMaintenance(name, options) ==
    /\ name = "activate" => firmware # "nb6"
    /\ Begin(name, options, FirstStep(name, options.ui))

ConfirmMaintenance ==
    /\ op \in {"uninstall", "activate", "fsck"} /\ pc = "confirm"
    /\ NoEffect /\ UNCHANGED faults
    /\ \/ Goto(AfterConfirm(op)) /\ UNCHANGED run
       \/ Ends("cancelled", FALSE, FALSE)

(* Wake every listed volume in turn; one that does not mount is left out   *)
(* of what follows.                                                        *)
Wakes(vols) == IF vols = Volumes THEN Call(Mounts(vols))
                                 ELSE Reachable /\ Fault /\ Mounts(vols)

MountVolumes ==
    /\ op \in {"uninstall", "fsck"} /\ pc = "mount"
    /\ \/ \E vols \in SUBSET Volumes :
             /\ Wakes(vols)
             /\ run' = [run EXCEPT !.targets = vols, !.roots = vols]
             /\ Goto(IF op = "fsck" THEN "fsck" ELSE "stopManager")
       \/ Fails(\E vols \in SUBSET Volumes : Mounts(vols)) /\ Ends("error", FALSE, FALSE)

StopManagerForUninstall_Skipped == op = "uninstall" /\ Step("stopManager", NoEffect, "stopDaemons")

StopManagerForUninstall == op = "uninstall" /\ Step("stopManager", StopsManager, "stopDaemons")

StopDaemonsForUninstall == op = "uninstall" /\ Step("stopDaemons", StopsDaemons, "removePayload")

(* rm -rf succeeds whether or not the volume is still mounted.             *)
RemovesPayload(v) ==
    /\ payload' = IF v \in mounted THEN [payload EXCEPT ![v] = Nothing(PayloadFiles)] ELSE payload
    /\ dirty' = IF v \in mounted THEN [dirty EXCEPT ![v] = {}] ELSE dirty
    /\ records' = IF v = Builtin /\ v \in mounted THEN {} ELSE records
    /\ UNCHANGED <<up, link, rebooting, booted, mounted, flash, native, manager, smbd, firmware>>

RemovePayload ==
    /\ op = "uninstall" /\ pc = "removePayload"
    /\ \/ \E v \in run.roots :
             \/ /\ Call(RemovesPayload(v)) /\ Goto("removePayload")
                /\ run' = [run EXCEPT !.roots = @ \ {v}]
             \/ Fails(RemovesPayload(v)) /\ Ends("error", FALSE, FALSE)
       \/ /\ run.roots = {} /\ NoEffect /\ UNCHANGED faults
          /\ run' = [run EXCEPT !.item = "boot"] /\ Goto("removeFlash")

NextRemoval_PastEnd == [boot |-> "scripts", scripts |-> "mdns", mdns |-> "conf", conf |-> "end"]

(* The flash files, the boot hook first.                                   *)
NextRemoval == [boot |-> "scripts", scripts |-> "mdns", mdns |-> "conf", conf |-> "none"]

RemovesFlash(f) ==
    /\ flash' = [flash EXCEPT ![f] = "none"]
    /\ UNCHANGED <<up, link, rebooting, booted, mounted, payload, dirty, records, native, manager, smbd, firmware>>

AfterRemoval == IF run.ui = "cli" THEN "confirmReboot" ELSE "askAcp"

RemoveFlash ==
    /\ op = "uninstall" /\ pc = "removeFlash"
    /\ \/ /\ Call(RemovesFlash(run.item))
          /\ IF NextRemoval[run.item] # "none"
             THEN run' = [run EXCEPT !.item = NextRemoval[@]] /\ Goto("removeFlash")
             ELSE IF run.noReboot THEN Ends("ok", FALSE, FALSE)
             ELSE UNCHANGED run /\ Goto(AfterRemoval)
       \/ Fails(RemovesFlash(run.item)) /\ Ends("error", FALSE, FALSE)

ConfirmUninstallReboot ==
    /\ op = "uninstall" /\ pc = "confirmReboot" /\ NoEffect /\ UNCHANGED faults
    /\ \/ Goto("askAcp") /\ UNCHANGED run
       \/ Ends("ok", FALSE, FALSE)

(* probe_paths_absent_conn: the planned paths are absent when they cannot  *)
(* be seen, on a volume that is not mounted too.                           *)
Absent == /\ \A v \in run.targets \intersect mounted : payload[v] = Nothing(PayloadFiles)
          /\ flash = Nothing(FlashFiles)

VerifyAbsent ==
    /\ op = "uninstall" /\ pc = "verifyAbsent"
    /\ \/ Absent /\ Call(NoEffect) /\ Ends("ok", TRUE, TRUE)
       \/ ~Absent /\ Call(NoEffect) /\ Ends("error", FALSE, FALSE)
       \/ Fails(NoEffect) /\ Ends("error", FALSE, FALSE)

(* activate: nothing to do when the runtime is ready.                      *)
ProbeRuntime ==
    /\ op = "activate" /\ pc = "probeRuntime"
    /\ \/ Ready /\ Call(NoEffect) /\ Ends("ok", TRUE, FALSE)
       \/ ~Ready /\ Call(NoEffect) /\ Goto("stopManager") /\ UNCHANGED run
       \/ Fails(NoEffect) /\ Ends("error", FALSE, FALSE)

StopManagerForActivate == op = "activate" /\ Step("stopManager", StopsManager, "startRuntime")

(* One script: end the runtime, unmount by force, repair, and shut down.   *)
ChecksDisk(v, unmounts) ==
    /\ manager' = "none" /\ smbd' = "none"
    /\ mounted' = IF unmounts THEN mounted \ {v} ELSE mounted
    /\ rebooting' = (rebooting \/ ~run.noReboot)
    /\ UNCHANGED <<up, link, booted, deviceFiles>>

AfterFsck == IF run.noReboot \/ run.noWait THEN Ends("ok", FALSE, FALSE)
                                          ELSE Goto("down") /\ UNCHANGED run

RunFsck ==
    /\ op = "fsck" /\ pc = "fsck"
    /\ \/ \E v \in run.targets :
             \/ Call(ChecksDisk(v, TRUE)) /\ AfterFsck
             \/ Reachable /\ Fault /\ ChecksDisk(v, FALSE) /\ AfterFsck
             \/ Fails(ChecksDisk(v, TRUE)) /\ Ends("error", FALSE, FALSE)
       \/ run.targets = {} /\ NoEffect /\ UNCHANGED faults /\ Ends("error", FALSE, FALSE)

MaintainStep ==
    \/ ConfirmMaintenance \/ MountVolumes \/ StopManagerForUninstall \/ StopDaemonsForUninstall
    \/ RemovePayload \/ RemoveFlash \/ ConfirmUninstallReboot \/ VerifyAbsent
    \/ ProbeRuntime \/ StopManagerForActivate \/ RunFsck
=============================================================================
