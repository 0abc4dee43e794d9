------------------------------ MODULE HostDeploy ------------------------------
(***************************************************************************)
(* services/deploy.py with deploy/planner.py and deploy/executor.py: select *)
(* a payload home, stop the runtime, copy the legacy metadata, replace the *)
(* files one by one, verify and flush them, retire the copied records, and *)
(* start the new runtime or reboot into it.                                *)
(***************************************************************************)
EXTENDS HostReboot

CONSTANTS ConfigMode,   \* TC_FRUIT_METADATA_NETATALK in the host's configuration
          ModeFlags     \* values of the command line's --[no-]netatalk the user gives

ASSUME ModeAssumption == ConfigMode \in Modes /\ ModeFlags \subseteq Modes \union {"none"}

(* The uploads in plan order; the migrator goes before all others.         *)
NextItem == [migrator |-> "smbd", smbd |-> "mdns", mdns |-> "helpers", helpers |-> "boot",
             boot |-> "scripts", scripts |-> "conf", conf |-> "none", none |-> "none"]

(* A payload file is put after a mount guard, a flash file is not.         *)
PutStep(f) == IF f \in PayloadFiles THEN "ensure" ELSE "put"

StartDeploy(options) ==
    Begin("deploy", options, IF options.ui = "app" THEN "confirm" ELSE "discover")

(* The app asks before anything is written.                                *)
ConfirmDeploy ==
    /\ op = "deploy" /\ pc = "confirm" /\ NoEffect /\ UNCHANGED faults
    /\ \/ Goto("discover") /\ UNCHANGED run
       \/ Ends("cancelled", FALSE, FALSE)

(* MaSt is asked until it lists a disk; one without volumes is an error.   *)
DiscoverVolumes == op = "deploy" /\ Step("discover", NoEffect, "select")

(* The candidates tried before v: none before the builtin volume, and the  *)
(* builtin volume before any other.                                        *)
TriedBefore(v, tried) ==
    IF v = Builtin THEN tried = {} ELSE Builtin \in tried /\ v \notin tried

(* A candidate is passed over when it does not mount, or when it mounts    *)
(* and refuses a test directory; the latter stays mounted.                 *)
PassedOver(tried, woken) ==
    /\ woken \subseteq tried
    /\ IF tried = {} THEN UNCHANGED faults ELSE Fault

(* The first candidate that mounts and takes the test directory.           *)
FirstUsable(v, tried) ==
    /\ Reachable /\ TriedBefore(v, tried)
    /\ \E woken \in SUBSET Volumes : PassedOver(tried, woken) /\ Mounts(woken \union {v})

(* With none, or when a test hangs, the deploy ends; what woke stays awake. *)
SelectHome ==
    /\ op = "deploy" /\ pc = "select"
    /\ \/ \E v \in Volumes, tried \in SUBSET Volumes :
             /\ FirstUsable(v, tried) /\ Goto("stopManager")
             /\ run' = [run EXCEPT !.home = v]
       \/ Fails(\E vols \in SUBSET Volumes : Mounts(vols)) /\ Ends("error", FALSE, FALSE)

StopManagerForDeploy_Spared == op = "deploy" /\ Step("stopManager", StopsDaemons, "stopDaemons")

(* Supervisors first, so that none restarts what is stopped next.          *)
StopManagerForDeploy == op = "deploy" /\ Step("stopManager", StopsManager, "stopDaemons")

StopDaemonsForDeploy == op = "deploy" /\ Step("stopDaemons", StopsDaemons, "prepare")

(* What the flash configuration says, and what the migrator is told, about *)
(* the representation of legacy metadata.                                  *)
Rendered(override) == IF override = "none" THEN ConfigMode ELSE override

LegacyMetadata(override) == IF override = "netatalk" THEN "netatalk" ELSE "stream"

(* Guarded removals and mkdirs, then the flash configuration is rendered.  *)
(* The app resolves the option against the configuration, the command line *)
(* passes on what the user typed.                                          *)
Prepare(flag) ==
    /\ op = "deploy" /\ pc = "prepare"
    /\ \/ /\ Call(Mounts({run.home})) /\ Goto("ensure")
          /\ LET override == IF run.ui = "app" THEN ConfigMode ELSE flag
             IN  run' = [run EXCEPT !.item = "migrator", !.rendered = Rendered(override),
                                    !.migrated = LegacyMetadata(override)]
       \/ Fails(Mounts({run.home})) /\ Ends("error", FALSE, FALSE)

EnsurePayloadVolume == op = "deploy" /\ Step("ensure", Mounts({run.home}), "put")

AfterPut ==
    /\ run' = [run EXCEPT !.item = NextItem[@]]
    /\ Goto(CASE run.item = "migrator" -> "copy"
              [] run.item = "conf" -> "permissions"
              [] OTHER -> PutStep(NextItem[run.item]))

UploadPayloadFile ==
    /\ op = "deploy" /\ pc = "put" /\ run.item \in PayloadFiles
    /\ \/ Call(PutsPayload(run.home, run.item, "new")) /\ AfterPut
       \/ run.home \notin mounted /\ Call(NoEffect) /\ Ends("error", FALSE, FALSE)
       \/ Fails(PutsPayload(run.home, run.item, "torn")) /\ Ends("error", FALSE, FALSE)

UploadFlashFile ==
    /\ op = "deploy" /\ pc = "put" /\ run.item \in FlashFiles
    /\ \/ Call(PutsFlash(run.item)) /\ AfterPut
       \/ Fails(PutsFlash(run.item)) /\ Ends("error", FALSE, FALSE)

HasRecords == run.home = Builtin /\ records # {}

(* Copy phase: every listed volume that mounts; one that does not is left  *)
(* out, and with none the phase fails.  Roots are what was copied.         *)
CopyMetadata ==
    /\ op = "deploy" /\ pc = "copy"
    /\ \/ /\ ~HasRecords /\ Call(Mounts({run.home}))
          /\ run' = [run EXCEPT !.roots = {}] /\ Goto(PutStep(run.item))
       \/ /\ HasRecords
          /\ \E vols \in SUBSET Volumes :
                /\ run.home \in vols
                /\ IF vols = Volumes THEN Call(CopiesRecords(vols))
                                     ELSE Reachable /\ Fault /\ CopiesRecords(vols)
                /\ run' = [run EXCEPT !.roots = vols] /\ Goto(PutStep(run.item))
       \/ Fails(\E vols \in SUBSET Volumes : CopiesRecords(vols)) /\ Ends("error", FALSE, FALSE)

ApplyPermissions == op = "deploy" /\ Step("permissions", Mounts({run.home}), "verifyUpload")

(* Both verifications look at presence only.                               *)
VerifyPayload(at, next) ==
    /\ op = "deploy" /\ pc = at
    /\ \/ Complete(run.home) /\ Call(Mounts({run.home})) /\ Goto(next) /\ UNCHANGED run
       \/ ~Complete(run.home) /\ Call(Mounts({run.home})) /\ Ends("error", FALSE, FALSE)
       \/ Fails(Mounts({run.home})) /\ Ends("error", FALSE, FALSE)

VerifyUpload == VerifyPayload("verifyUpload", "flush")

FlushPayload_Skipped == op = "deploy" /\ Step("flush", NoEffect, "verifyFlushed")

FlushPayload == op = "deploy" /\ Step("flush", Flushes, "verifyFlushed")

VerifyFlushed == VerifyPayload("verifyFlushed", "cleanup")

(* Where a deploy goes once the files are in place.                        *)
AfterCleanup == IF run.noReboot THEN "startRuntime"
           ELSE IF run.ui = "cli" THEN "confirmReboot" ELSE "ask"

CleanupMetadata_Everywhere ==
    /\ op = "deploy" /\ pc = "cleanup"
    /\ \/ ~HasRecords /\ Call(Mounts({run.home})) /\ Goto(AfterCleanup) /\ UNCHANGED run
       \/ HasRecords /\ Call(RetiresRecords(Volumes)) /\ Goto(AfterCleanup) /\ UNCHANGED run

(* Cleanup phase: retire the records of the copied volumes still mounted.  *)
CleanupMetadata ==
    /\ op = "deploy" /\ pc = "cleanup"
    /\ \/ ~HasRecords /\ Call(Mounts({run.home})) /\ Goto(AfterCleanup) /\ UNCHANGED run
       \/ /\ HasRecords
          /\ \E vols \in SUBSET run.roots :
                /\ IF vols = run.roots THEN Call(RetiresRecords(vols))
                                       ELSE Reachable /\ Fault /\ RetiresRecords(vols)
                /\ Goto(AfterCleanup) /\ UNCHANGED run
       \/ Fails(\E vols \in SUBSET run.roots : RetiresRecords(vols)) /\ Ends("error", FALSE, FALSE)

(* The command line asks now; declined, the device is left as it is.       *)
ConfirmReboot ==
    /\ op = "deploy" /\ pc = "confirmReboot" /\ NoEffect /\ UNCHANGED faults
    /\ \/ Goto("ask") /\ UNCHANGED run
       \/ Ends("cancelled", FALSE, FALSE)

(* Without a reboot: stop the supervisors again and run rc.local.          *)
StartRuntime ==
    /\ op \in {"deploy", "activate"} /\ Step("startRuntime", RunsRcLocal, "verifyRuntime")

DecideAutostart_Trusts ==
    /\ op = "deploy" /\ pc = "autostart"
    /\ \/ Call(NoEffect) /\ UNCHANGED run /\ Goto("verifyRuntime")
       \/ Fails(NoEffect) /\ Ends("error", FALSE, FALSE)

(* After a NetBSD 4 reboot: rc.local is run only when /sbin/login does not. *)
DecideAutostart ==
    /\ op = "deploy" /\ pc = "autostart"
    /\ \/ Call(NoEffect) /\ UNCHANGED run
             /\ Goto(IF firmware = "nb4auto" THEN "verifyRuntime" ELSE "startRuntime")
       \/ Fails(NoEffect) /\ Ends("error", FALSE, FALSE)

DeployStep ==
    \/ ConfirmDeploy \/ DiscoverVolumes \/ SelectHome
    \/ StopManagerForDeploy \/ StopDaemonsForDeploy
    \/ \E flag \in ModeFlags : Prepare(flag)
    \/ EnsurePayloadVolume \/ UploadPayloadFile \/ UploadFlashFile \/ CopyMetadata
    \/ ApplyPermissions \/ VerifyUpload \/ FlushPayload \/ VerifyFlushed \/ CleanupMetadata
    \/ ConfirmReboot \/ StartRuntime \/ DecideAutostart
=============================================================================
