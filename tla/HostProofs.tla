------------------------------ MODULE HostProofs ------------------------------
(***************************************************************************)
(* Proofs about Host, for any volumes, kinds of device and numbers of      *)
(* faults and chores.                                                      *)
(***************************************************************************)
EXTENDS Host, TLAPS

-----------------------------------------------------------------------------
(* The step tells the operation, and the item what is left to transfer or  *)
(* to remove.                                                              *)

DeployPCs == {"discover", "select", "prepare", "ensure", "put", "copy", "permissions",
              "verifyUpload", "flush", "verifyFlushed", "cleanup", "autostart"}
RemovalPCs == {"removePayload", "removeFlash", "askAcp", "verifyAbsent"}

LaneInv ==
    /\ op = "none" <=> pc = "idle"
    /\ op # "none" => result = NoResult
    /\ pc \in DeployPCs => op = "deploy"
    /\ pc \in RemovalPCs => op = "uninstall"
    /\ pc \in {"confirmReboot", "stopDaemons", "ask"} => op \in {"deploy", "uninstall"}
    /\ pc \in {"down", "up"} => op \in {"deploy", "uninstall", "fsck"}
    /\ pc \in {"startRuntime", "verifyRuntime"} => op \in {"deploy", "activate"}
    /\ pc \in {"ensure", "put", "copy"} => run.item \in PayloadFiles \union FlashFiles
    /\ pc = "copy" => run.item = "smbd"
    /\ pc = "removeFlash" => run.item \in FlashFiles

TypedInv == TypeOK /\ LaneInv

(* Nothing of the runtime runs while files are replaced or removed, nor on *)
(* a device that is down.                                                  *)
Overwrites == {"prepare", "ensure", "put", "copy", "permissions", "verifyUpload", "flush",
               "verifyFlushed", "cleanup", "removePayload", "removeFlash"}

QuietInv ==
    /\ ~up \/ pc \in Overwrites => manager = "none" /\ smbd = "none"
    /\ pc = "stopDaemons" => manager = "none"

(* An uninstall removes the boot hook before anything boots the device.    *)
RuntimeGone == manager = "none" /\ smbd = "none" /\ flash["boot"] = "none"

GoneInv ==
    /\ pc = "removeFlash" /\ run.item # "boot" => flash["boot"] = "none"
    /\ op = "uninstall" /\ pc \in {"confirmReboot", "askAcp", "ask", "down", "up", "verifyAbsent"}
          => RuntimeGone
    /\ result.op = "uninstall" /\ result.status = "ok" => RuntimeGone

(* The files before `item` in plan order.                                  *)
Before == [migrator |-> {}, smbd |-> {"migrator"}, mdns |-> {"migrator", "smbd"},
           helpers |-> {"migrator", "smbd", "mdns"},
           boot |-> {"migrator", "smbd", "mdns", "helpers"},
           scripts |-> {"migrator", "smbd", "mdns", "helpers", "boot"},
           conf |-> {"migrator", "smbd", "mdns", "helpers", "boot", "scripts"}]

Placed(v, files) == /\ \A f \in PayloadFiles \intersect files : payload[v][f] = "new"
                    /\ \A f \in FlashFiles \intersect files : flash[f] = "new"

Whole(v) == Placed(v, PayloadFiles \union FlashFiles)

Settled(v) == Whole(v) /\ dirty[v] = {}

(* A device that goes down during the transfer stays down until the deploy *)
(* has failed; from the flush on, a power cut takes nothing back.          *)
WholeInv ==
    /\ up /\ pc \in {"ensure", "put", "copy"} => Placed(run.home, Before[run.item])
    /\ up /\ pc \in {"permissions", "verifyUpload", "flush"} => Whole(run.home)
    /\ op = "deploy" /\ pc \in {"verifyFlushed", "cleanup", "confirmReboot", "ask", "down", "up",
                                "autostart", "startRuntime", "verifyRuntime"}
          => Settled(run.home)
    /\ Verified("deploy") => Settled(result.home)

(* What a deploy may retire has been copied.                               *)
RecordsInv == op = "deploy" => records \intersect run.roots \subseteq native

-----------------------------------------------------------------------------
(* Records of the host.                                                    *)

\* The result of an operation is a result, and tells what it was made from.
LEMMA EndsTyped ==
    ASSUME HostTypeOK, op # "none", NEW status \in {"ok", "error", "cancelled"},
           NEW verified \in BOOLEAN, NEW rebooted \in BOOLEAN, Ends(status, verified, rebooted)
    PROVE  /\ HostTypeOK' /\ op' = "none" /\ pc' = "idle" /\ run' = NoRun
           /\ result'.op = op /\ result'.status = status /\ result'.verified = verified
           /\ result'.home = run.home
<1>1. op \in Ops /\ run.home \in Volumes
  BY DEF HostTypeOK, Runs
<1>2. result' \in Results
  BY <1>1 DEF Ends, Results
<1>3. NoRun \in Runs
  BY VolumesAssumption DEF NoRun, Runs, Files
<1> QED
  BY <1>1, <1>2, <1>3 DEF Ends, HostTypeOK, Steps

\* An operation begins with its options and nothing else.
LEMMA BeginTyped ==
    ASSUME NEW name \in Ops, NEW options \in Options, NEW first \in Steps, Begin(name, options, first)
    PROVE  /\ HostTypeOK' /\ op' = name /\ pc' = first /\ result' = NoResult
           /\ run'.roots = {} /\ run'.item = "none"
<1>1. NoRun \in Runs
  BY VolumesAssumption DEF NoRun, Runs, Files
<1>2. run' \in Runs /\ run'.roots = NoRun.roots /\ run'.item = NoRun.item
  BY <1>1 DEF Begin, Runs, Options
<1>3. NoResult \in Results
  BY VolumesAssumption DEF NoResult, Results
<1> QED
  BY <1>2, <1>3 DEF Begin, HostTypeOK, NoRun

\* The fields a deploy or an uninstall sets keep its locals typed.
LEMMA RunTyped ==
    ASSUME run \in Runs
    PROVE  /\ \A f \in Files : [run EXCEPT !.item = f] \in Runs
           /\ \A v \in Volumes : [run EXCEPT !.home = v] \in Runs
           /\ \A vols \in SUBSET Volumes : [run EXCEPT !.roots = vols] \in Runs
           /\ \A vols \in SUBSET Volumes : [run EXCEPT !.targets = vols, !.roots = vols] \in Runs
           /\ \A f \in Files, a \in Modes \union {"none"}, b \in Modes \union {"none"} :
                 [run EXCEPT !.item = f, !.rendered = a, !.migrated = b] \in Runs
BY DEF Runs

\* The tables of files.
LEMMA NextItemIs ==
    /\ NextItem["migrator"] = "smbd" /\ NextItem["smbd"] = "mdns" /\ NextItem["mdns"] = "helpers"
    /\ NextItem["helpers"] = "boot" /\ NextItem["boot"] = "scripts" /\ NextItem["scripts"] = "conf"
    /\ NextItem["conf"] = "none"
BY DEF NextItem

LEMMA NextRemovalIs ==
    /\ NextRemoval["boot"] = "scripts" /\ NextRemoval["scripts"] = "mdns"
    /\ NextRemoval["mdns"] = "conf" /\ NextRemoval["conf"] = "none"
BY DEF NextRemoval

LEMMA BeforeIs ==
    /\ Before["migrator"] = {} /\ Before["smbd"] = {"migrator"} /\ Before["mdns"] = {"migrator", "smbd"}
    /\ Before["helpers"] = {"migrator", "smbd", "mdns"}
    /\ Before["boot"] = {"migrator", "smbd", "mdns", "helpers"}
    /\ Before["scripts"] = {"migrator", "smbd", "mdns", "helpers", "boot"}
    /\ Before["conf"] = {"migrator", "smbd", "mdns", "helpers", "boot", "scripts"}
BY DEF Before

-----------------------------------------------------------------------------
(* What any step of the host does to the device.                           *)

AnyEffect ==
    \/ NoEffect \/ StopsManager \/ StopsDaemons \/ Flushes \/ RunsRcLocal \/ AsksReboot
    \/ \E vols \in SUBSET Volumes : Mounts(vols) \/ CopiesRecords(vols) \/ RetiresRecords(vols)
    \/ \E v \in Volumes, f \in PayloadFiles, version \in {"new", "torn"} : PutsPayload(v, f, version)
    \/ \E f \in FlashFiles : PutsFlash(f) \/ RemovesFlash(f)
    \/ \E v \in Volumes : RemovesPayload(v)
    \/ \E v \in Volumes, unmounts \in BOOLEAN : ChecksDisk(v, unmounts)

\* Every effect of a remote command keeps the device typed.
LEMMA EffectTyped ==
    ASSUME DeviceTypeOK, HostTypeOK, AnyEffect, faults' \in 0 .. MaxFaults
    PROVE  DeviceTypeOK'
<1> USE DEF DeviceTypeOK, deviceFiles
<1>1. CASE NoEffect
  BY <1>1 DEF NoEffect, deviceVars
<1>2. CASE StopsManager \/ StopsDaemons
  BY <1>2 DEF StopsManager, StopsDaemons, Version
<1>3. CASE Flushes
  BY <1>3 DEF Flushes, Clean
<1>4. CASE RunsRcLocal
  BY <1>4 DEF RunsRcLocal, FlashFiles, Version
<1>5. CASE AsksReboot
  BY <1>5 DEF AsksReboot
<1>6. ASSUME NEW vols \in SUBSET Volumes, Mounts(vols) \/ CopiesRecords(vols) \/ RetiresRecords(vols)
      PROVE  DeviceTypeOK'
  BY <1>6 DEF Mounts, CopiesRecords, RetiresRecords, Clean
<1>7. ASSUME NEW v \in Volumes, NEW f \in PayloadFiles, NEW version \in {"new", "torn"},
             PutsPayload(v, f, version)
      PROVE  DeviceTypeOK'
  <2>1. payload' \in [Volumes -> [PayloadFiles -> Version]]
    BY <1>7 DEF PutsPayload, Version
  <2>2. dirty' \in [Volumes -> SUBSET PayloadFiles]
    BY <1>7 DEF PutsPayload
  <2> QED
    BY <1>7, <2>1, <2>2 DEF PutsPayload
<1>8. ASSUME NEW f \in FlashFiles, PutsFlash(f) \/ RemovesFlash(f)
      PROVE  DeviceTypeOK'
  BY <1>8 DEF PutsFlash, RemovesFlash, Version
<1>9. ASSUME NEW v \in Volumes, RemovesPayload(v)
      PROVE  DeviceTypeOK'
  <2>1. payload' \in [Volumes -> [PayloadFiles -> Version]]
    BY <1>9 DEF RemovesPayload, Nothing, Version
  <2>2. dirty' \in [Volumes -> SUBSET PayloadFiles]
    BY <1>9 DEF RemovesPayload
  <2> QED
    BY <1>9, <2>1, <2>2 DEF RemovesPayload
<1>10. ASSUME NEW v \in Volumes, NEW unmounts \in BOOLEAN, ChecksDisk(v, unmounts)
       PROVE  DeviceTypeOK'
  BY <1>10 DEF ChecksDisk, HostTypeOK, Runs, Version
<1> QED
  BY <1>1, <1>2, <1>3, <1>4, <1>5, <1>6, <1>7, <1>8, <1>9, <1>10 DEF AnyEffect

\* Every step of an operation has one of these effects, or none.
LEMMA ActsHaveEffects ==
    ASSUME TypedInv, HostMoves
    PROVE  AnyEffect /\ faults' \in 0 .. MaxFaults
<1> USE DEF AnyEffect, Step, Call, Fails, Fault
<1>a. /\ run \in Runs /\ run.home \in Volumes /\ {run.home} \in SUBSET Volumes
      /\ run.roots \in SUBSET Volumes /\ run.targets \in SUBSET Volumes
      /\ faults \in 0 .. MaxFaults /\ MaxFaults \in Nat
  BY FaultsAssumption DEF TypedInv, TypeOK, HostTypeOK, DeviceTypeOK, Runs
<1>b. faults < MaxFaults => faults + 1 \in 0 .. MaxFaults
  BY <1>a
<1> HIDE DEF Runs
<1>1. CASE ConfirmDeploy
  BY <1>a, <1>b, <1>1 DEF ConfirmDeploy
<1>2. CASE DiscoverVolumes
  BY <1>a, <1>b, <1>2 DEF DiscoverVolumes
<1>3. CASE SelectHome
  BY <1>a, <1>b, <1>3 DEF SelectHome, FirstUsable, PassedOver
<1>4. CASE StopManagerForDeploy
  BY <1>a, <1>b, <1>4 DEF StopManagerForDeploy
<1>5. CASE StopDaemonsForDeploy
  BY <1>a, <1>b, <1>5 DEF StopDaemonsForDeploy
<1>6. ASSUME NEW flag \in ModeFlags, Prepare(flag) PROVE AnyEffect /\ faults' \in 0 .. MaxFaults
  BY <1>a, <1>b, <1>6 DEF Prepare
<1>7. CASE EnsurePayloadVolume
  BY <1>a, <1>b, <1>7 DEF EnsurePayloadVolume
<1>8. CASE UploadPayloadFile
  BY <1>a, <1>b, <1>8 DEF UploadPayloadFile, AfterPut
<1>9. CASE UploadFlashFile
  BY <1>a, <1>b, <1>9 DEF UploadFlashFile, AfterPut
<1>10. CASE CopyMetadata
  BY <1>a, <1>b, <1>10 DEF CopyMetadata
<1>11. CASE ApplyPermissions
  BY <1>a, <1>b, <1>11 DEF ApplyPermissions
<1>12. CASE VerifyUpload
  BY <1>a, <1>b, <1>12 DEF VerifyUpload, VerifyPayload
<1>13. CASE FlushPayload
  BY <1>a, <1>b, <1>13 DEF FlushPayload
<1>14. CASE VerifyFlushed
  BY <1>a, <1>b, <1>14 DEF VerifyFlushed, VerifyPayload
<1>15. CASE CleanupMetadata
  BY <1>a, <1>b, <1>15 DEF CleanupMetadata
<1>16. CASE ConfirmReboot
  BY <1>a, <1>b, <1>16 DEF ConfirmReboot
<1>17. CASE StartRuntime
  BY <1>a, <1>b, <1>17 DEF StartRuntime
<1>18. CASE DecideAutostart
  BY <1>a, <1>b, <1>18 DEF DecideAutostart
<1>19. CASE ConfirmMaintenance
  BY <1>a, <1>b, <1>19 DEF ConfirmMaintenance
<1>20. CASE MountVolumes
  BY <1>a, <1>b, <1>20 DEF MountVolumes, Wakes
<1>21. CASE StopManagerForUninstall
  BY <1>a, <1>b, <1>21 DEF StopManagerForUninstall
<1>22. CASE StopDaemonsForUninstall
  BY <1>a, <1>b, <1>22 DEF StopDaemonsForUninstall
<1>23. CASE RemovePayload
  BY <1>a, <1>b, <1>23 DEF RemovePayload
<1>24. CASE RemoveFlash
  BY <1>a, <1>b, <1>24 DEF RemoveFlash, TypedInv, LaneInv
<1>25. CASE ConfirmUninstallReboot
  BY <1>a, <1>b, <1>25 DEF ConfirmUninstallReboot
<1>26. CASE VerifyAbsent
  BY <1>a, <1>b, <1>26 DEF VerifyAbsent
<1>27. CASE ProbeRuntime
  BY <1>a, <1>b, <1>27 DEF ProbeRuntime
<1>28. CASE StopManagerForActivate
  BY <1>a, <1>b, <1>28 DEF StopManagerForActivate
<1>29. CASE RunFsck
  BY <1>a, <1>b, <1>29 DEF RunFsck, AfterFsck
<1>30. CASE AskByAcp
  BY <1>a, <1>b, <1>30 DEF AskByAcp, Asked
<1>31. CASE AskBySsh
  BY <1>a, <1>b, <1>31 DEF AskBySsh, Asked
<1>32. CASE SeesDown
  BY <1>a, <1>b, <1>32 DEF SeesDown
<1>33. CASE NeverDown
  BY <1>a, <1>b, <1>33 DEF NeverDown
<1>34. CASE SeesUp
  BY <1>a, <1>b, <1>34 DEF SeesUp, AfterReboot
<1>35. CASE NeverUp
  BY <1>a, <1>b, <1>35 DEF NeverUp
<1>36. CASE RuntimeReady
  BY <1>a, <1>b, <1>36 DEF RuntimeReady
<1>37. CASE RuntimeNotReady
  BY <1>a, <1>b, <1>37 DEF RuntimeNotReady
<1> QED
  BY <1>1, <1>2, <1>3, <1>4, <1>5, <1>6, <1>7, <1>8, <1>9, <1>10, <1>11, <1>12, <1>13, <1>14, <1>15, <1>16, <1>17, <1>18, <1>19, <1>20, <1>21, <1>22, <1>23, <1>24, <1>25, <1>26, <1>27, <1>28, <1>29, <1>30, <1>31, <1>32, <1>33, <1>34, <1>35, <1>36, <1>37 DEF HostMoves, DeployStep, MaintainStep, RebootStep

Located == HostTypeOK /\ LaneInv

\* An operation that ends leaves the host idle with a result.
LEMMA EndsLocated ==
    ASSUME Located, op # "none", NEW status \in {"ok", "error", "cancelled"},
           NEW verified \in BOOLEAN, NEW rebooted \in BOOLEAN, Ends(status, verified, rebooted)
    PROVE  Located'
<1>1. HostTypeOK' /\ op' = "none" /\ pc' = "idle"
  BY EndsTyped DEF Located
<1> QED
  BY <1>1 DEF Located, LaneInv, DeployPCs, RemovalPCs

\* An operation may go on to a step of its own, its locals unchanged.
LEMMA GotoLocated ==
    ASSUME Located, pc # "idle", UNCHANGED run, NEW step \in Steps \ {"idle"}, Goto(step),
           /\ step \in DeployPCs => op = "deploy"
           /\ step \in RemovalPCs => op = "uninstall"
           /\ step \in {"confirmReboot", "stopDaemons", "ask"} => op \in {"deploy", "uninstall"}
           /\ step \in {"down", "up"} => op \in {"deploy", "uninstall", "fsck"}
           /\ step \in {"startRuntime", "verifyRuntime"} => op \in {"deploy", "activate"}
           /\ step \in {"ensure", "put", "copy"} => run.item \in PayloadFiles \union FlashFiles
           /\ step = "copy" => run.item = "smbd"
           /\ step = "removeFlash" => run.item \in FlashFiles
    PROVE  Located'
BY DEF Goto, Located, LaneInv, HostTypeOK

LEMMA DeployGoesOn ==
    ASSUME Located, op = "deploy", UNCHANGED run
    PROVE  /\ Goto("discover") => Located'
           /\ Goto("select") => Located'
           /\ Goto("prepare") => Located'
           /\ Goto("permissions") => Located'
           /\ Goto("verifyUpload") => Located'
           /\ Goto("flush") => Located'
           /\ Goto("verifyFlushed") => Located'
           /\ Goto("cleanup") => Located'
           /\ Goto("autostart") => Located'
           /\ Goto("stopManager") => Located'
           /\ Goto("stopDaemons") => Located'
           /\ Goto("confirmReboot") => Located'
           /\ Goto("ask") => Located'
           /\ Goto("down") => Located'
           /\ Goto("up") => Located'
           /\ Goto("startRuntime") => Located'
           /\ Goto("verifyRuntime") => Located'
           /\ run.item \in PayloadFiles \union FlashFiles /\ Goto("ensure") => Located'
           /\ run.item \in PayloadFiles \union FlashFiles /\ Goto("put") => Located'
<1>1. pc # "idle"
  BY DEF Located, LaneInv
<1> QED
  BY <1>1, GotoLocated DEF Steps, DeployPCs, RemovalPCs

LEMMA UninstallGoesOn ==
    ASSUME Located, op = "uninstall", UNCHANGED run
    PROVE  /\ Goto("mount") => Located'
           /\ Goto("stopManager") => Located'
           /\ Goto("stopDaemons") => Located'
           /\ Goto("removePayload") => Located'
           /\ Goto("confirmReboot") => Located'
           /\ Goto("askAcp") => Located'
           /\ Goto("ask") => Located'
           /\ Goto("down") => Located'
           /\ Goto("up") => Located'
           /\ Goto("verifyAbsent") => Located'
<1>1. pc # "idle"
  BY DEF Located, LaneInv
<1> QED
  BY <1>1, GotoLocated DEF Steps, DeployPCs, RemovalPCs

LEMMA ChoreGoesOn ==
    ASSUME Located, op \in {"activate", "fsck"}, UNCHANGED run
    PROVE  /\ Goto("mount") => Located'
           /\ Goto("probeRuntime") => Located'
           /\ Goto("stopManager") => Located'
           /\ Goto("fsck") => Located'
           /\ op = "activate" /\ Goto("startRuntime") => Located'
           /\ op = "activate" /\ Goto("verifyRuntime") => Located'
           /\ op = "fsck" /\ Goto("down") => Located'
           /\ op = "fsck" /\ Goto("up") => Located'
<1>1. pc # "idle"
  BY DEF Located, LaneInv
<1> QED
  BY <1>1, GotoLocated DEF Steps, DeployPCs, RemovalPCs

\* Every step of an operation goes to a step of that operation.
LEMMA ActsKeepLane ==
    ASSUME TypedInv, HostMoves
    PROVE  Located'
<1> USE DEF Step, Call, Fails
<1>a. Located /\ run \in Runs
  BY DEF TypedInv, TypeOK, Located, HostTypeOK
<1>b. ASSUME op # "none", NEW status \in {"ok", "error", "cancelled"},
             NEW verified \in BOOLEAN, NEW rebooted \in BOOLEAN, Ends(status, verified, rebooted)
      PROVE  Located'
  BY <1>a, <1>b, EndsLocated
<1>d. /\ pc \in {"askAcp", "verifyAbsent"} => op = "uninstall"
      /\ pc \in {"confirmReboot", "ask"} => op \in {"deploy", "uninstall"}
      /\ pc \in {"down", "up"} => op \in {"deploy", "uninstall", "fsck"}
      /\ pc \in {"ensure", "put", "copy"} => run.item \in PayloadFiles \union FlashFiles
      /\ pc = "copy" => run.item = "smbd"
      /\ pc = "removeFlash" => run.item \in FlashFiles
      /\ pc # "idle" => op \in {"deploy", "uninstall", "activate", "fsck"}
  BY <1>a DEF Located, LaneInv, RemovalPCs, HostTypeOK, Ops
<1>1. CASE ConfirmDeploy
  BY <1>a, <1>b, <1>d, <1>1, DeployGoesOn DEF ConfirmDeploy
<1>2. CASE DiscoverVolumes
  BY <1>a, <1>b, <1>d, <1>2, DeployGoesOn DEF DiscoverVolumes
<1>3. CASE SelectHome
  <2>1. CASE \E v \in Volumes : run' = [run EXCEPT !.home = v] /\ Goto("stopManager") /\ op = "deploy"
    BY <1>a, <2>1, RunTyped DEF Located, LaneInv, HostTypeOK, Goto, DeployPCs, RemovalPCs, Steps
  <2> QED
    BY <1>b, <1>3, <2>1 DEF SelectHome
<1>4. CASE StopManagerForDeploy
  BY <1>a, <1>b, <1>d, <1>4, DeployGoesOn DEF StopManagerForDeploy
<1>5. CASE StopDaemonsForDeploy
  BY <1>a, <1>b, <1>d, <1>5, DeployGoesOn DEF StopDaemonsForDeploy
<1>6. ASSUME NEW flag \in ModeFlags, Prepare(flag) PROVE Located'
  <2>1. ASSUME NEW a \in Modes \union {"none"}, NEW b \in Modes \union {"none"}, Goto("ensure"), op = "deploy",
               run' = [run EXCEPT !.item = "migrator", !.rendered = a, !.migrated = b]
        PROVE  Located'
    <3>1. run' \in Runs /\ run'.item = "migrator"
      BY <1>a, <2>1, RunTyped DEF Files, PayloadFiles, Runs
    <3> QED
      BY <1>a, <2>1, <3>1 DEF Located, LaneInv, HostTypeOK, Goto, DeployPCs, RemovalPCs, Steps, PayloadFiles
  <2>2. \A o \in Modes \union {"none"} : /\ Rendered(o) \in Modes \union {"none"}
                                      /\ LegacyMetadata(o) \in Modes \union {"none"}
    BY ModeAssumption DEF Rendered, LegacyMetadata, Modes
  <2> QED
    BY <1>b, <1>6, <2>1, <2>2, ModeAssumption DEF Prepare
<1>7. CASE EnsurePayloadVolume
  BY <1>a, <1>b, <1>d, <1>7, DeployGoesOn DEF EnsurePayloadVolume
<1>8. CASE UploadPayloadFile
  <2>1. CASE AfterPut /\ op = "deploy" /\ run.item \in PayloadFiles
    <3>1. /\ run' = [run EXCEPT !.item = NextItem[run.item]]
          /\ Goto(CASE run.item = "migrator" -> "copy"
                    [] run.item = "conf" -> "permissions"
                    [] OTHER -> PutStep(NextItem[run.item]))
      BY <2>1 DEF AfterPut
    <3>2. NextItem[run.item] \in Files
      BY <2>1, NextItemIs DEF Files, PayloadFiles, FlashFiles
    <3>3. run' \in Runs /\ run'.item = NextItem[run.item]
      BY <1>a, <3>1, <3>2, RunTyped DEF Runs
    <3>4. \/ Goto("copy") /\ run'.item = "smbd"
          \/ (Goto("ensure") \/ Goto("put")) /\ run'.item \in PayloadFiles \union FlashFiles
          \/ Goto("permissions")
      BY <2>1, <3>1, <3>3, NextItemIs DEF PutStep, PayloadFiles, FlashFiles
    <3> QED
      BY <1>a, <2>1, <3>3, <3>4 DEF Located, LaneInv, HostTypeOK, Goto, DeployPCs, RemovalPCs, Steps, PayloadFiles
  <2> QED
    BY <1>b, <1>8, <2>1 DEF UploadPayloadFile
<1>9. CASE UploadFlashFile
  <2>1. CASE AfterPut /\ op = "deploy" /\ run.item \in FlashFiles
    <3>1. /\ run' = [run EXCEPT !.item = NextItem[run.item]]
          /\ Goto(CASE run.item = "migrator" -> "copy"
                    [] run.item = "conf" -> "permissions"
                    [] OTHER -> PutStep(NextItem[run.item]))
      BY <2>1 DEF AfterPut
    <3>2. NextItem[run.item] \in Files
      BY <2>1, NextItemIs DEF Files, PayloadFiles, FlashFiles
    <3>3. run' \in Runs /\ run'.item = NextItem[run.item]
      BY <1>a, <3>1, <3>2, RunTyped DEF Runs
    <3>4. \/ Goto("copy") /\ run'.item = "smbd"
          \/ (Goto("ensure") \/ Goto("put")) /\ run'.item \in PayloadFiles \union FlashFiles
          \/ Goto("permissions")
      BY <2>1, <3>1, <3>3, NextItemIs DEF PutStep, PayloadFiles, FlashFiles
    <3> QED
      BY <1>a, <2>1, <3>3, <3>4 DEF Located, LaneInv, HostTypeOK, Goto, DeployPCs, RemovalPCs, Steps, PayloadFiles
  <2> QED
    BY <1>b, <1>9, <2>1 DEF UploadFlashFile
<1>10. CASE CopyMetadata
  <2>1. ASSUME NEW vols \in SUBSET Volumes, run' = [run EXCEPT !.roots = vols], Goto(PutStep(run.item)),
               op = "deploy", pc = "copy"
        PROVE  Located'
    <3>1. run' \in Runs /\ run'.item = run.item
      BY <1>a, <2>1, RunTyped DEF Runs
    <3>2. Goto("ensure") /\ run.item = "smbd"
      BY <1>d, <2>1 DEF PutStep, PayloadFiles
    <3> QED
      BY <1>a, <2>1, <3>1, <3>2 DEF Located, LaneInv, HostTypeOK, Goto, DeployPCs, RemovalPCs, Steps, PayloadFiles
  <2> QED
    BY <1>b, <1>10, <2>1 DEF CopyMetadata
<1>11. CASE ApplyPermissions
  BY <1>a, <1>b, <1>d, <1>11, DeployGoesOn DEF ApplyPermissions
<1>12. CASE VerifyUpload
  BY <1>a, <1>b, <1>d, <1>12, DeployGoesOn DEF VerifyUpload, VerifyPayload
<1>13. CASE FlushPayload
  BY <1>a, <1>b, <1>d, <1>13, DeployGoesOn DEF FlushPayload
<1>14. CASE VerifyFlushed
  BY <1>a, <1>b, <1>d, <1>14, DeployGoesOn DEF VerifyFlushed, VerifyPayload
<1>15. CASE CleanupMetadata
  BY <1>a, <1>b, <1>d, <1>15, DeployGoesOn DEF CleanupMetadata, AfterCleanup
<1>16. CASE ConfirmReboot
  BY <1>a, <1>b, <1>d, <1>16, DeployGoesOn DEF ConfirmReboot
<1>17. CASE StartRuntime
  BY <1>a, <1>b, <1>d, <1>17, DeployGoesOn, ChoreGoesOn DEF StartRuntime
<1>18. CASE DecideAutostart
  BY <1>a, <1>b, <1>d, <1>18, DeployGoesOn DEF DecideAutostart
<1>19. CASE ConfirmMaintenance
  BY <1>a, <1>b, <1>d, <1>19, UninstallGoesOn, ChoreGoesOn DEF ConfirmMaintenance, AfterConfirm
<1>20. CASE MountVolumes
  <2>1. ASSUME NEW vols \in SUBSET Volumes, run' = [run EXCEPT !.targets = vols, !.roots = vols],
               (op = "fsck" /\ Goto("fsck")) \/ (op = "uninstall" /\ Goto("stopManager"))
        PROVE  Located'
    <3>1. run' \in Runs
      BY <1>a, <2>1, RunTyped
    <3> QED
      BY <1>a, <2>1, <3>1 DEF Located, LaneInv, HostTypeOK, Goto, DeployPCs, RemovalPCs, Steps
  <2> QED
    BY <1>b, <1>20, <2>1 DEF MountVolumes
<1>21. CASE StopManagerForUninstall
  BY <1>a, <1>b, <1>d, <1>21, UninstallGoesOn, ChoreGoesOn DEF StopManagerForUninstall
<1>22. CASE StopDaemonsForUninstall
  BY <1>a, <1>b, <1>d, <1>22, UninstallGoesOn, ChoreGoesOn DEF StopDaemonsForUninstall
<1>23. CASE RemovePayload
  <2>1. ASSUME NEW v \in Volumes, run' = [run EXCEPT !.roots = @ \ {v}], Goto("removePayload"), op = "uninstall"
        PROVE  Located'
    <3>1. run.roots \ {v} \in SUBSET Volumes
      BY <1>a DEF Runs
    <3>2. run' \in Runs
      BY <1>a, <2>1, <3>1, RunTyped
    <3> QED
      BY <1>a, <2>1, <3>2 DEF Located, LaneInv, HostTypeOK, Goto, DeployPCs, RemovalPCs, Steps
  <2>2. CASE run' = [run EXCEPT !.item = "boot"] /\ Goto("removeFlash") /\ op = "uninstall"
    <3>1. run' \in Runs /\ run'.item = "boot"
      BY <1>a, <2>2, RunTyped DEF Files, FlashFiles, Runs
    <3> QED
      BY <1>a, <2>2, <3>1 DEF Located, LaneInv, HostTypeOK, Goto, DeployPCs, RemovalPCs, Steps, FlashFiles
  <2>3. run.roots \subseteq Volumes
    BY <1>a DEF Runs
  <2> QED
    BY <1>b, <1>23, <2>1, <2>2, <2>3 DEF RemovePayload
<1>24. CASE RemoveFlash
  <2>1. CASE run' = [run EXCEPT !.item = NextRemoval[run.item]] /\ NextRemoval[run.item] # "none"
             /\ Goto("removeFlash")
    <3>1. NextRemoval[run.item] \in FlashFiles
      BY <1>24, <2>1, <1>d, NextRemovalIs DEF RemoveFlash, FlashFiles
    <3>2. run' \in Runs /\ run'.item = NextRemoval[run.item]
      BY <1>a, <2>1, <3>1, RunTyped DEF Files, Runs
    <3> QED
      BY <1>a, <1>24, <2>1, <3>1, <3>2
         DEF RemoveFlash, Located, LaneInv, HostTypeOK, Goto, DeployPCs, RemovalPCs, Steps, FlashFiles
  <2> QED
    BY <1>b, <1>24, <2>1, UninstallGoesOn, <1>a DEF RemoveFlash, AfterRemoval
<1>25. CASE ConfirmUninstallReboot
  BY <1>a, <1>b, <1>d, <1>25, UninstallGoesOn, ChoreGoesOn DEF ConfirmUninstallReboot
<1>26. CASE VerifyAbsent
  BY <1>a, <1>b, <1>d, <1>26, UninstallGoesOn, ChoreGoesOn DEF VerifyAbsent
<1>27. CASE ProbeRuntime
  BY <1>a, <1>b, <1>d, <1>27, UninstallGoesOn, ChoreGoesOn DEF ProbeRuntime
<1>28. CASE StopManagerForActivate
  BY <1>a, <1>b, <1>d, <1>28, UninstallGoesOn, ChoreGoesOn DEF StopManagerForActivate
<1>29. CASE RunFsck
  BY <1>a, <1>b, <1>d, <1>29, UninstallGoesOn, ChoreGoesOn DEF RunFsck, AfterFsck
<1>30. CASE AskByAcp
  BY <1>a, <1>b, <1>d, <1>30, DeployGoesOn, UninstallGoesOn, ChoreGoesOn DEF AskByAcp, Asked
<1>31. CASE AskBySsh
  BY <1>a, <1>b, <1>d, <1>31, DeployGoesOn, UninstallGoesOn, ChoreGoesOn DEF AskBySsh, Asked
<1>32. CASE SeesDown
  BY <1>a, <1>b, <1>d, <1>32, DeployGoesOn, UninstallGoesOn, ChoreGoesOn DEF SeesDown
<1>33. CASE NeverDown
  BY <1>a, <1>b, <1>d, <1>33, DeployGoesOn, UninstallGoesOn, ChoreGoesOn DEF NeverDown
<1>34. CASE SeesUp
  BY <1>a, <1>b, <1>d, <1>34, DeployGoesOn, UninstallGoesOn, ChoreGoesOn DEF SeesUp, AfterReboot
<1>35. CASE NeverUp
  BY <1>a, <1>b, <1>d, <1>35, DeployGoesOn, UninstallGoesOn, ChoreGoesOn DEF NeverUp
<1>36. CASE RuntimeReady
  BY <1>a, <1>b, <1>d, <1>36, DeployGoesOn, UninstallGoesOn, ChoreGoesOn DEF RuntimeReady
<1>37. CASE RuntimeNotReady
  BY <1>a, <1>b, <1>d, <1>37, DeployGoesOn, UninstallGoesOn, ChoreGoesOn DEF RuntimeNotReady
<1> QED
  BY <1>1, <1>2, <1>3, <1>4, <1>5, <1>6, <1>7, <1>8, <1>9, <1>10, <1>11, <1>12, <1>13, <1>14, <1>15, <1>16, <1>17, <1>18, <1>19, <1>20, <1>21, <1>22, <1>23, <1>24, <1>25, <1>26, <1>27, <1>28, <1>29, <1>30, <1>31, <1>32, <1>33, <1>34, <1>35, <1>36, <1>37 DEF HostMoves, DeployStep, MaintainStep, RebootStep

\* The device's own steps keep it typed.
LEMMA DeviceStepsTyped ==
    ASSUME DeviceTypeOK, NEW v \in Volumes,
           GoDown \/ PowerCut \/ LinkDrop \/ LinkBack \/ DiskdUnmount(v) \/ ManagerServes(v) \/ ComeUp
    PROVE  DeviceTypeOK'
<1> USE FaultsAssumption DEF DeviceTypeOK, deviceFiles, Fault
<1>1. CASE GoDown
  BY <1>1 DEF GoDown, Clean, Version
<1>2. CASE PowerCut
  <2>1. payload' \in [Volumes -> [PayloadFiles -> Version]]
    BY <1>2 DEF PowerCut, Version
  <2>2. faults' \in 0 .. MaxFaults
    BY <1>2 DEF PowerCut
  <2> QED
    BY <1>2, <2>1, <2>2 DEF PowerCut, Clean, Version
<1>3. CASE LinkDrop \/ LinkBack
  <2>1. faults' \in 0 .. MaxFaults
    BY <1>3 DEF LinkDrop, LinkBack
  <2>2. link' \in BOOLEAN
    BY <1>3 DEF LinkDrop, LinkBack
  <2>3. UNCHANGED <<up, rebooting, booted, mounted, deviceFiles, manager, smbd>>
    BY <1>3 DEF LinkDrop, LinkBack
  <2> QED
    BY <2>1, <2>2, <2>3
<1>4. CASE DiskdUnmount(v)
  BY <1>4 DEF DiskdUnmount
<1>5. CASE ManagerServes(v)
  <2>1. payload[v]["smbd"] \in Version \ {"torn"}
    BY <1>5 DEF ManagerServes, Servable, PayloadFiles
  <2> QED
    BY <1>5, <2>1 DEF ManagerServes
<1>6. CASE ComeUp
  BY <1>6 DEF ComeUp, FlashFiles, Version
<1> QED
  BY <1>1, <1>2, <1>3, <1>4, <1>5, <1>6

\* A device's own step leaves the host as it is.
LEMMA DeviceAlone ==
    ASSUME DeviceMoves \/ BootEnds
    PROVE  /\ UNCHANGED <<hostVars, chores>>
           /\ \E v \in Volumes : GoDown \/ PowerCut \/ LinkDrop \/ LinkBack \/ DiskdUnmount(v)
                                \/ ManagerServes(v) \/ ComeUp
BY VolumesAssumption DEF DeviceMoves, BootEnds, DeviceStep

\* An operation that begins is located.
LEMMA BeginsLocated ==
    ASSUME TypedInv, PlainDeploy \/ Chore
    PROVE  /\ Located' /\ DeviceTypeOK' /\ result' = NoResult /\ run'.roots = {}
           /\ op' \in Ops /\ pc' \in {"confirm", "discover", "mount"}
           /\ UNCHANGED <<up, link, mounted, deviceFiles, manager, smbd>>
           /\ chores' \in 0 .. MaxChores
<1>1. ASSUME NEW name \in Ops, NEW options \in Options, NEW first \in {"confirm", "discover", "mount"},
             first = "discover" => name = "deploy", Begin(name, options, first)
      PROVE  /\ Located' /\ DeviceTypeOK' /\ result' = NoResult /\ run'.roots = {}
             /\ op' \in Ops /\ pc' \in {"confirm", "discover", "mount"}
             /\ UNCHANGED <<up, link, mounted, deviceFiles, manager, smbd>>
  <2>1. /\ HostTypeOK' /\ op' = name /\ pc' = first /\ result' = NoResult /\ run'.roots = {}
    BY <1>1, BeginTyped DEF Steps
  <2>2. LaneInv'
    BY <1>1, <2>1 DEF LaneInv, DeployPCs, RemovalPCs, Ops
  <2>3. DeviceTypeOK'
    BY <1>1 DEF Begin, TypedInv, TypeOK, DeviceTypeOK, deviceFiles
  <2> QED
    BY <1>1, <2>1, <2>2, <2>3 DEF Located, Begin
<1>2. ASSUME NEW o \in Options, StartDeploy(o)
      PROVE  \E first \in {"confirm", "discover"} : Begin("deploy", o, first)
  BY <1>2 DEF StartDeploy
<1>3. ASSUME NEW o \in Options, NEW name \in Ops \ {"deploy"}, StartMaintenance(name, o)
      PROVE  \E first \in {"confirm", "mount"} : Begin(name, o, first)
  BY <1>3 DEF StartMaintenance, FirstStep
<1>4. chores' \in 0 .. MaxChores
  BY ChoresAssumption DEF PlainDeploy, Chore, TypedInv, TypeOK
<1>5. Plain \subseteq Options /\ "deploy" \in Ops
  BY DEF Plain, Ops
<1> QED
  BY <1>1, <1>2, <1>3, <1>4, <1>5 DEF PlainDeploy, Chore

\* The type invariant with the lanes is inductive.
LEMMA TypedStays == TypedInv /\ [Next]_vars => TypedInv'
<1> SUFFICES ASSUME TypedInv, [Next]_vars
             PROVE  TypedInv'
  OBVIOUS
<1>a. DeviceTypeOK /\ HostTypeOK /\ LaneInv /\ chores \in 0 .. MaxChores
  BY DEF TypedInv, TypeOK
<1>1. CASE PlainDeploy \/ Chore
  BY <1>1, BeginsLocated DEF TypedInv, TypeOK, Located
<1>2. CASE DeviceMoves \/ BootEnds
  BY <1>a, <1>2, DeviceAlone, DeviceStepsTyped DEF TypedInv, TypeOK, HostTypeOK, LaneInv, hostVars
<1>3. CASE HostMoves /\ UNCHANGED chores
  <2>1. AnyEffect /\ faults' \in 0 .. MaxFaults
    BY <1>3, ActsHaveEffects
  <2> QED
    BY <1>a, <1>3, <2>1, EffectTyped, ActsKeepLane DEF TypedInv, TypeOK, Located
<1>4. CASE UNCHANGED vars
  BY <1>a, <1>4 DEF TypedInv, TypeOK, DeviceTypeOK, HostTypeOK, LaneInv, vars, deviceVars, deviceFiles, hostVars
<1> QED
  BY <1>1, <1>2, <1>3, <1>4 DEF Next, HostMoves

LEMMA InitTyped == Init => TypedInv
<1> SUFFICES ASSUME Init
             PROVE  TypedInv
  OBVIOUS
<1>1. DeviceTypeOK
  <2>1. /\ [v \in Volumes |-> Nothing(PayloadFiles)] \in [Volumes -> [PayloadFiles -> Version]]
        /\ [v \in Volumes |-> IF v = Builtin THEN AllOld(PayloadFiles) ELSE Nothing(PayloadFiles)]
              \in [Volumes -> [PayloadFiles -> Version]]
        /\ Nothing(FlashFiles) \in [FlashFiles -> Version \ {"torn"}]
        /\ AllOld(FlashFiles) \in [FlashFiles -> Version \ {"torn"}]
    BY DEF Nothing, AllOld, Version
  <2>2. /\ up \in BOOLEAN /\ link \in BOOLEAN /\ rebooting \in BOOLEAN /\ booted \in BOOLEAN
        /\ native \subseteq Volumes /\ records \subseteq Volumes /\ mounted \subseteq Volumes
        /\ firmware \in Firmwares /\ dirty \in [Volumes -> SUBSET PayloadFiles]
    BY DEF Init, DeviceInit, Clean
  <2>3. faults \in 0 .. MaxFaults
    BY FaultsAssumption DEF Init, DeviceInit
  <2>4. manager \in Version \ {"torn"} /\ smbd \in Version \ {"torn"}
    BY DEF Init, DeviceInit, Version
  <2>5. payload \in [Volumes -> [PayloadFiles -> Version]] /\ flash \in [FlashFiles -> Version \ {"torn"}]
    BY <2>1 DEF Init, DeviceInit
  <2> QED
    BY <2>2, <2>3, <2>4, <2>5 DEF DeviceTypeOK
<1>2. HostTypeOK
  <2>1. NoRun \in Runs
    BY VolumesAssumption DEF NoRun, Runs, Files
  <2>2. NoResult \in Results
    BY VolumesAssumption DEF NoResult, Results
  <2> QED
    BY <2>1, <2>2 DEF Init, HostInit, HostTypeOK, Steps
<1>3. LaneInv
  BY DEF Init, HostInit, LaneInv, DeployPCs, RemovalPCs
<1> QED
  BY <1>1, <1>2, <1>3, ChoresAssumption DEF Init, TypedInv, TypeOK

LEMMA Typed == Spec => []TypedInv
BY InitTyped, TypedStays, PTL DEF Spec

\* Every variable of device and host keeps its type, and every step belongs
\* to the operation that runs (services/deploy.py, services/maintenance.py).
THEOREM TypeCorrect == Spec => []TypeOK
<1>1. TypedInv => TypeOK
  BY DEF TypedInv
<1> QED
  BY <1>1, Typed, PTL

-----------------------------------------------------------------------------
(* Files are replaced and removed in silence.                              *)

\* An operation keeps the runtime stopped from the step that stops it to the
\* last file it writes or removes.
LEMMA ActsAreQuiet ==
    ASSUME TypedInv, QuietInv, HostMoves
    PROVE  QuietInv'
<1> USE DEF Step, Call, Fails, Goto, Ends, NoEffect, deviceVars, Reachable, QuietInv, Overwrites
<1>a. /\ pc \in {"confirmReboot", "ask"} => op \in {"deploy", "uninstall"}
      /\ pc \in {"down", "up"} => op \in {"deploy", "uninstall", "fsck"}
      /\ pc \in RemovalPCs => op = "uninstall"
  BY DEF TypedInv, LaneInv
<1>1. CASE ConfirmDeploy
  BY <1>a, <1>1 DEF ConfirmDeploy, NoEffect, RemovalPCs
<1>2. CASE DiscoverVolumes
  BY <1>a, <1>2 DEF DiscoverVolumes, NoEffect, RemovalPCs
<1>3. CASE SelectHome
  BY <1>a, <1>3 DEF SelectHome, FirstUsable, PassedOver, Mounts, RemovalPCs
<1>4. CASE StopManagerForDeploy
  BY <1>a, <1>4 DEF StopManagerForDeploy, StopsManager, RemovalPCs
<1>5. CASE StopDaemonsForDeploy
  BY <1>a, <1>5 DEF StopDaemonsForDeploy, StopsDaemons, RemovalPCs
<1>6. ASSUME NEW flag \in ModeFlags, Prepare(flag) PROVE QuietInv'
  BY <1>a, <1>6 DEF Prepare, Mounts, RemovalPCs
<1>7. CASE EnsurePayloadVolume
  BY <1>a, <1>7 DEF EnsurePayloadVolume, Mounts, RemovalPCs
<1>8. CASE UploadPayloadFile
  BY <1>a, <1>8 DEF UploadPayloadFile, AfterPut, PutsPayload, PutStep, RemovalPCs
<1>9. CASE UploadFlashFile
  BY <1>a, <1>9 DEF UploadFlashFile, AfterPut, PutsFlash, PutStep, RemovalPCs
<1>10. CASE CopyMetadata
  BY <1>a, <1>10 DEF CopyMetadata, CopiesRecords, Mounts, PutStep, RemovalPCs
<1>11. CASE ApplyPermissions
  BY <1>a, <1>11 DEF ApplyPermissions, Mounts, RemovalPCs
<1>12. CASE VerifyUpload
  BY <1>a, <1>12 DEF VerifyUpload, VerifyPayload, Mounts, RemovalPCs
<1>13. CASE FlushPayload
  BY <1>a, <1>13 DEF FlushPayload, Flushes, RemovalPCs
<1>14. CASE VerifyFlushed
  BY <1>a, <1>14 DEF VerifyFlushed, VerifyPayload, Mounts, RemovalPCs
<1>15. CASE CleanupMetadata
  BY <1>a, <1>15 DEF CleanupMetadata, AfterCleanup, RetiresRecords, Mounts, RemovalPCs
<1>16. CASE ConfirmReboot
  BY <1>a, <1>16 DEF ConfirmReboot, RemovalPCs
<1>17. CASE StartRuntime
  BY <1>a, <1>17 DEF StartRuntime, RunsRcLocal, RemovalPCs
<1>18. CASE DecideAutostart
  BY <1>a, <1>18 DEF DecideAutostart, RemovalPCs
<1>19. CASE ConfirmMaintenance
  BY <1>a, <1>19 DEF ConfirmMaintenance, AfterConfirm, RemovalPCs
<1>20. CASE MountVolumes
  BY <1>a, <1>20 DEF MountVolumes, Wakes, Mounts, RemovalPCs
<1>21. CASE StopManagerForUninstall
  BY <1>a, <1>21 DEF StopManagerForUninstall, StopsManager, RemovalPCs
<1>22. CASE StopDaemonsForUninstall
  BY <1>a, <1>22 DEF StopDaemonsForUninstall, StopsDaemons, RemovalPCs
<1>23. CASE RemovePayload
  BY <1>a, <1>23 DEF RemovePayload, RemovesPayload, RemovalPCs
<1>24. CASE RemoveFlash
  BY <1>a, <1>24 DEF RemoveFlash, AfterRemoval, RemovesFlash, RemovalPCs
<1>25. CASE ConfirmUninstallReboot
  BY <1>a, <1>25 DEF ConfirmUninstallReboot, RemovalPCs
<1>26. CASE VerifyAbsent
  BY <1>a, <1>26 DEF VerifyAbsent, RemovalPCs
<1>27. CASE ProbeRuntime
  BY <1>a, <1>27 DEF ProbeRuntime, RemovalPCs
<1>28. CASE StopManagerForActivate
  BY <1>a, <1>28 DEF StopManagerForActivate, StopsManager, RemovalPCs
<1>29. CASE RunFsck
  BY <1>a, <1>29 DEF RunFsck, AfterFsck, ChecksDisk, RemovalPCs
<1>30. CASE AskByAcp
  BY <1>a, <1>30 DEF AskByAcp, Asked, AsksReboot, RemovalPCs
<1>31. CASE AskBySsh
  BY <1>a, <1>31 DEF AskBySsh, Asked, AsksReboot, RemovalPCs
<1>32. CASE SeesDown
  BY <1>a, <1>32 DEF SeesDown, RemovalPCs
<1>33. CASE NeverDown
  BY <1>a, <1>33 DEF NeverDown, RemovalPCs
<1>34. CASE SeesUp
  BY <1>a, <1>34 DEF SeesUp, AfterReboot, RemovalPCs
<1>35. CASE NeverUp
  BY <1>a, <1>35 DEF NeverUp, RemovalPCs
<1>36. CASE RuntimeReady
  BY <1>a, <1>36 DEF RuntimeReady, RemovalPCs
<1>37. CASE RuntimeNotReady
  BY <1>a, <1>37 DEF RuntimeNotReady, RemovalPCs
<1> QED
  BY <1>1, <1>2, <1>3, <1>4, <1>5, <1>6, <1>7, <1>8, <1>9, <1>10, <1>11, <1>12, <1>13, <1>14, <1>15, <1>16, <1>17, <1>18, <1>19, <1>20, <1>21, <1>22, <1>23, <1>24, <1>25, <1>26, <1>27, <1>28, <1>29, <1>30, <1>31, <1>32, <1>33, <1>34, <1>35, <1>36, <1>37 DEF HostMoves, DeployStep, MaintainStep, RebootStep

LEMMA QuietStays == TypedInv /\ QuietInv /\ [Next]_vars => QuietInv'
<1> SUFFICES ASSUME TypedInv, QuietInv, [Next]_vars
             PROVE  QuietInv'
  OBVIOUS
<1>1. CASE PlainDeploy \/ Chore
  BY <1>1, BeginsLocated DEF QuietInv, Overwrites
<1>2. CASE DeviceMoves \/ BootEnds
  <2>1. UNCHANGED <<op, pc, run, result>>
    BY <1>2, DeviceAlone DEF hostVars
  <2>2. ASSUME NEW v \in Volumes,
               GoDown \/ PowerCut \/ LinkDrop \/ LinkBack \/ DiskdUnmount(v) \/ ManagerServes(v)
        PROVE  QuietInv'
    BY <2>1, <2>2
       DEF QuietInv, GoDown, PowerCut, LinkDrop, LinkBack, DiskdUnmount, ManagerServes
  <2>3. CASE ComeUp /\ pc \in Waiting
    BY <2>1, <2>3 DEF QuietInv, ComeUp, Waiting, Overwrites
  <2> QED
    BY <1>2, <2>2, <2>3, VolumesAssumption DEF DeviceMoves, DeviceStep, BootEnds
<1>3. CASE HostMoves
  BY <1>3, ActsAreQuiet
<1>4. CASE UNCHANGED vars
  BY <1>4 DEF QuietInv, vars, deviceVars, hostVars
<1> QED
  BY <1>1, <1>2, <1>3, <1>4 DEF Next

LEMMA Quiet == Spec => []QuietInv
<1>1. Init => QuietInv
  BY DEF Init, DeviceInit, HostInit, QuietInv, Overwrites
<1> QED
  BY <1>1, QuietStays, Typed, PTL DEF Spec

\* Which steps change a file.
LEMMA WritersAre ==
    ASSUME TypedInv, HostMoves, payload' # payload \/ flash' # flash
    PROVE  pc \in Overwrites
<1> USE DEF Step, Call, Fails, NoEffect, deviceVars, deviceFiles, Overwrites
<1>1. CASE ConfirmDeploy
  BY <1>1 DEF ConfirmDeploy, NoEffect
<1>2. CASE DiscoverVolumes
  BY <1>2 DEF DiscoverVolumes, NoEffect
<1>3. CASE SelectHome
  BY <1>3 DEF SelectHome, FirstUsable, PassedOver, Mounts
<1>4. CASE StopManagerForDeploy
  BY <1>4 DEF StopManagerForDeploy, StopsManager
<1>5. CASE StopDaemonsForDeploy
  BY <1>5 DEF StopDaemonsForDeploy, StopsDaemons
<1>6. ASSUME NEW flag \in ModeFlags, Prepare(flag) PROVE pc \in Overwrites
  BY <1>6 DEF Prepare, Mounts
<1>7. CASE EnsurePayloadVolume
  BY <1>7 DEF EnsurePayloadVolume, Mounts
<1>8. CASE UploadPayloadFile
  BY <1>8 DEF UploadPayloadFile, AfterPut, PutsPayload, PutStep
<1>9. CASE UploadFlashFile
  BY <1>9 DEF UploadFlashFile, AfterPut, PutsFlash, PutStep
<1>10. CASE CopyMetadata
  BY <1>10 DEF CopyMetadata, CopiesRecords, Mounts, PutStep
<1>11. CASE ApplyPermissions
  BY <1>11 DEF ApplyPermissions, Mounts
<1>12. CASE VerifyUpload
  BY <1>12 DEF VerifyUpload, VerifyPayload, Mounts
<1>13. CASE FlushPayload
  BY <1>13 DEF FlushPayload, Flushes
<1>14. CASE VerifyFlushed
  BY <1>14 DEF VerifyFlushed, VerifyPayload, Mounts
<1>15. CASE CleanupMetadata
  BY <1>15 DEF CleanupMetadata, AfterCleanup, RetiresRecords, Mounts
<1>16. CASE ConfirmReboot
  BY <1>16 DEF ConfirmReboot
<1>17. CASE StartRuntime
  BY <1>17 DEF StartRuntime, RunsRcLocal
<1>18. CASE DecideAutostart
  BY <1>18 DEF DecideAutostart
<1>19. CASE ConfirmMaintenance
  BY <1>19 DEF ConfirmMaintenance, AfterConfirm
<1>20. CASE MountVolumes
  BY <1>20 DEF MountVolumes, Wakes, Mounts
<1>21. CASE StopManagerForUninstall
  BY <1>21 DEF StopManagerForUninstall, StopsManager
<1>22. CASE StopDaemonsForUninstall
  BY <1>22 DEF StopDaemonsForUninstall, StopsDaemons
<1>23. CASE RemovePayload
  BY <1>23 DEF RemovePayload, RemovesPayload
<1>24. CASE RemoveFlash
  BY <1>24 DEF RemoveFlash, AfterRemoval, RemovesFlash
<1>25. CASE ConfirmUninstallReboot
  BY <1>25 DEF ConfirmUninstallReboot
<1>26. CASE VerifyAbsent
  BY <1>26 DEF VerifyAbsent
<1>27. CASE ProbeRuntime
  BY <1>27 DEF ProbeRuntime
<1>28. CASE StopManagerForActivate
  BY <1>28 DEF StopManagerForActivate, StopsManager
<1>29. CASE RunFsck
  BY <1>29 DEF RunFsck, AfterFsck, ChecksDisk
<1>30. CASE AskByAcp
  BY <1>30 DEF AskByAcp, Asked, AsksReboot
<1>31. CASE AskBySsh
  BY <1>31 DEF AskBySsh, Asked, AsksReboot
<1>32. CASE SeesDown
  BY <1>32 DEF SeesDown
<1>33. CASE NeverDown
  BY <1>33 DEF NeverDown
<1>34. CASE SeesUp
  BY <1>34 DEF SeesUp, AfterReboot
<1>35. CASE NeverUp
  BY <1>35 DEF NeverUp
<1>36. CASE RuntimeReady
  BY <1>36 DEF RuntimeReady
<1>37. CASE RuntimeNotReady
  BY <1>37 DEF RuntimeNotReady
<1> QED
  BY <1>1, <1>2, <1>3, <1>4, <1>5, <1>6, <1>7, <1>8, <1>9, <1>10, <1>11, <1>12, <1>13, <1>14, <1>15, <1>16, <1>17, <1>18, <1>19, <1>20, <1>21, <1>22, <1>23, <1>24, <1>25, <1>26, <1>27, <1>28, <1>29, <1>30, <1>31, <1>32, <1>33, <1>34, <1>35, <1>36, <1>37 DEF HostMoves, DeployStep, MaintainStep, RebootStep

\* No file of the payload or of flash is replaced or removed under a manager
\* or an smbd that runs from it, whatever was interrupted before
\* (deploy/planner.py: "Stop runtime supervisors first").
THEOREM WritesQuiet == Spec => WritesAreQuiet
<1> DEFINE Silent == up' /\ (payload' # payload \/ flash' # flash) => manager = "none" /\ smbd = "none"
<1>1. TypedInv /\ QuietInv /\ [Next]_vars => [Silent]_vars
  <2> SUFFICES ASSUME TypedInv, QuietInv, Next
               PROVE  Silent
    OBVIOUS
  <2>1. CASE PlainDeploy \/ Chore
    BY <2>1, BeginsLocated DEF deviceFiles
  <2>2. CASE DeviceMoves \/ BootEnds
    <3>1. ASSUME NEW v \in Volumes,
                 GoDown \/ PowerCut \/ LinkDrop \/ LinkBack \/ DiskdUnmount(v) \/ ManagerServes(v) \/ ComeUp
          PROVE  Silent
      BY <3>1
         DEF GoDown, PowerCut, LinkDrop, LinkBack, DiskdUnmount, ManagerServes, ComeUp, deviceFiles
    <3> QED
      BY <2>2, <3>1, DeviceAlone
  <2>3. CASE HostMoves
    BY <2>3, WritersAre DEF QuietInv
  <2> QED
    BY <2>1, <2>2, <2>3 DEF Next
<1> QED
  BY <1>1, Typed, Quiet, PTL DEF Spec, WritesAreQuiet

-----------------------------------------------------------------------------
(* An uninstalled device stays down.                                       *)

\* An uninstall that goes on after its removals, or ends well, has removed
\* what could start the runtime.
LEMMA ActsLeaveItGone ==
    ASSUME TypedInv, QuietInv, GoneInv, HostMoves
    PROVE  GoneInv'
<1> USE DEF Step, Call, Fails, Goto, Ends, NoEffect, deviceVars, deviceFiles, GoneInv, RuntimeGone
<1>a. /\ pc \in DeployPCs => op = "deploy"
      /\ pc \in {"confirmReboot", "stopDaemons", "ask"} => op \in {"deploy", "uninstall"}
      /\ pc \in {"down", "up"} => op \in {"deploy", "uninstall", "fsck"}
      /\ pc \in {"startRuntime", "verifyRuntime"} => op \in {"deploy", "activate"}
      /\ pc \in RemovalPCs => op = "uninstall"
      /\ pc # "idle" => op # "none" /\ result = NoResult
      /\ pc = "removeFlash" => run.item \in FlashFiles
  BY DEF TypedInv, LaneInv
<1>b. /\ pc \in Overwrites => manager = "none" /\ smbd = "none"
      /\ flash \in [FlashFiles -> Version \ {"torn"}] /\ run \in Runs
  BY DEF QuietInv, TypedInv, TypeOK, DeviceTypeOK, HostTypeOK
<1>c. ASSUME UNCHANGED <<op, result>>, op # "none",
             pc' \notin {"removeFlash", "confirmReboot", "askAcp", "ask", "down", "up", "verifyAbsent"}
      PROVE  GoneInv'
  BY <1>a, <1>c DEF NoResult, TypedInv, LaneInv
<1>d. ASSUME op # "uninstall" \/ RuntimeGone', NEW status \in {"ok", "error", "cancelled"},
             NEW verified \in BOOLEAN, NEW rebooted \in BOOLEAN, Ends(status, verified, rebooted)
      PROVE  GoneInv'
  BY <1>d DEF RemovalPCs
<1>e. ASSUME NEW verified \in BOOLEAN, NEW rebooted \in BOOLEAN, Ends("error", verified, rebooted)
      PROVE  GoneInv'
  BY <1>e DEF RemovalPCs
<1>1. CASE ConfirmDeploy
  BY <1>a, <1>b, <1>1 DEF ConfirmDeploy, NoEffect, RemovalPCs, DeployPCs
<1>2. CASE DiscoverVolumes
  BY <1>a, <1>b, <1>2 DEF DiscoverVolumes, NoEffect, RemovalPCs, DeployPCs
<1>3. CASE SelectHome
  BY <1>a, <1>b, <1>3 DEF SelectHome, FirstUsable, PassedOver, Mounts, RemovalPCs, DeployPCs
<1>4. CASE StopManagerForDeploy
  BY <1>a, <1>b, <1>4 DEF StopManagerForDeploy, StopsManager, RemovalPCs, DeployPCs
<1>5. CASE StopDaemonsForDeploy
  BY <1>a, <1>b, <1>5 DEF StopDaemonsForDeploy, StopsDaemons, RemovalPCs, DeployPCs
<1>6. ASSUME NEW flag \in ModeFlags, Prepare(flag) PROVE GoneInv'
  BY <1>a, <1>b, <1>6 DEF Prepare, Mounts, RemovalPCs, DeployPCs
<1>7. CASE EnsurePayloadVolume
  BY <1>a, <1>b, <1>7 DEF EnsurePayloadVolume, Mounts, RemovalPCs, DeployPCs
<1>8. CASE UploadPayloadFile
  BY <1>a, <1>b, <1>8 DEF UploadPayloadFile, AfterPut, PutsPayload, PutStep, RemovalPCs, DeployPCs
<1>9. CASE UploadFlashFile
  <2>1. \/ UNCHANGED <<op, result>> /\ op # "none" /\ pc' \in {"copy", "permissions", "ensure", "put"}
        \/ Ends("error", FALSE, FALSE)
    <3> HIDE DEF Ends
    <3> QED
      BY <1>9 DEF UploadFlashFile, AfterPut, PutStep
  <2> QED
    BY <1>c, <1>e, <2>1
<1>10. CASE CopyMetadata
  BY <1>a, <1>b, <1>10 DEF CopyMetadata, CopiesRecords, Mounts, PutStep, RemovalPCs, DeployPCs
<1>11. CASE ApplyPermissions
  BY <1>a, <1>b, <1>11 DEF ApplyPermissions, Mounts, RemovalPCs, DeployPCs
<1>12. CASE VerifyUpload
  BY <1>a, <1>b, <1>12 DEF VerifyUpload, VerifyPayload, Mounts, RemovalPCs, DeployPCs
<1>13. CASE FlushPayload
  BY <1>a, <1>b, <1>13 DEF FlushPayload, Flushes, RemovalPCs, DeployPCs
<1>14. CASE VerifyFlushed
  BY <1>a, <1>b, <1>14 DEF VerifyFlushed, VerifyPayload, Mounts, RemovalPCs, DeployPCs
<1>15. CASE CleanupMetadata
  BY <1>a, <1>b, <1>15 DEF CleanupMetadata, AfterCleanup, RetiresRecords, Mounts, RemovalPCs, DeployPCs
<1>16. CASE ConfirmReboot
  BY <1>a, <1>b, <1>16 DEF ConfirmReboot, RemovalPCs, DeployPCs
<1>17. CASE StartRuntime
  <2>1. \/ UNCHANGED <<op, result>> /\ op # "none" /\ pc' = "verifyRuntime"
        \/ Ends("error", FALSE, FALSE)
    <3> HIDE DEF Ends
    <3> QED
      BY <1>17 DEF StartRuntime
  <2> QED
    BY <1>c, <1>e, <2>1
<1>18. CASE DecideAutostart
  BY <1>a, <1>b, <1>18 DEF DecideAutostart, RemovalPCs, DeployPCs
<1>19. CASE ConfirmMaintenance
  BY <1>a, <1>b, <1>19 DEF ConfirmMaintenance, AfterConfirm, RemovalPCs, DeployPCs
<1>20. CASE MountVolumes
  <2>1. \/ UNCHANGED <<op, result>> /\ op # "none" /\ pc' \in {"fsck", "stopManager"}
        \/ Ends("error", FALSE, FALSE)
    <3> HIDE DEF Ends
    <3> QED
      BY <1>20 DEF MountVolumes
  <2> QED
    BY <1>c, <1>e, <2>1
<1>21. CASE StopManagerForUninstall
  BY <1>a, <1>b, <1>21 DEF StopManagerForUninstall, StopsManager, RemovalPCs, DeployPCs
<1>22. CASE StopDaemonsForUninstall
  BY <1>a, <1>b, <1>22 DEF StopDaemonsForUninstall, StopsDaemons, RemovalPCs, DeployPCs
<1>23. CASE RemovePayload
  <2>1. \/ UNCHANGED <<op, result>> /\ pc' = "removePayload"
        \/ UNCHANGED <<op, result>> /\ pc' = "removeFlash" /\ run'.item = "boot"
        \/ Ends("error", FALSE, FALSE)
    <3> HIDE DEF Ends
    <3> QED
      BY <1>b, <1>23 DEF RemovePayload, Runs
  <2>2. op # "none" /\ result = NoResult
    BY <1>a, <1>23 DEF RemovePayload
  <2> QED
    BY <1>c, <1>e, <2>1, <2>2 DEF NoResult
<1>24. CASE RemoveFlash
  <2>1. op = "uninstall" /\ result = NoResult /\ run.item \in FlashFiles /\ manager = "none" /\ smbd = "none"
    BY <1>a, <1>b, <1>24 DEF RemoveFlash, Overwrites
  <2>2. ASSUME RemovesFlash(run.item)
        PROVE  flash'["boot"] = "none" /\ RuntimeGone'
    BY <1>b, <1>24, <2>1, <2>2 DEF RemoveFlash, RemovesFlash, FlashFiles
  <2>3. \/ RemovesFlash(run.item) /\ UNCHANGED <<op, result>>
              /\ pc' \in {"removeFlash", "confirmReboot", "askAcp"}
        \/ RemovesFlash(run.item) /\ Ends("ok", FALSE, FALSE)
        \/ Ends("error", FALSE, FALSE)
    <3> HIDE DEF Ends
    <3> QED
      BY <1>24 DEF RemoveFlash, AfterRemoval
  <2> QED
    BY <1>d, <1>e, <2>1, <2>2, <2>3 DEF NoResult
<1>25. CASE ConfirmUninstallReboot
  BY <1>a, <1>b, <1>25 DEF ConfirmUninstallReboot, RemovalPCs, DeployPCs
<1>26. CASE VerifyAbsent
  BY <1>a, <1>b, <1>26 DEF VerifyAbsent, RemovalPCs, DeployPCs
<1>27. CASE ProbeRuntime
  BY <1>a, <1>b, <1>27 DEF ProbeRuntime, RemovalPCs, DeployPCs
<1>28. CASE StopManagerForActivate
  BY <1>a, <1>b, <1>28 DEF StopManagerForActivate, StopsManager, RemovalPCs, DeployPCs
<1>29. CASE RunFsck
  BY <1>a, <1>b, <1>29 DEF RunFsck, AfterFsck, ChecksDisk, RemovalPCs, DeployPCs
<1>30. CASE AskByAcp
  BY <1>a, <1>b, <1>30 DEF AskByAcp, Asked, AsksReboot, RemovalPCs, DeployPCs
<1>31. CASE AskBySsh
  BY <1>a, <1>b, <1>31 DEF AskBySsh, Asked, AsksReboot, RemovalPCs, DeployPCs
<1>32. CASE SeesDown
  BY <1>a, <1>b, <1>32 DEF SeesDown, RemovalPCs, DeployPCs
<1>33. CASE NeverDown
  BY <1>a, <1>b, <1>33 DEF NeverDown, RemovalPCs, DeployPCs
<1>34. CASE SeesUp
  <2>1. \/ op = "deploy" /\ UNCHANGED <<op, result>> /\ pc' \in {"verifyRuntime", "autostart"}
        \/ op = "uninstall" /\ UNCHANGED <<op, result, manager, smbd, flash>> /\ pc' = "verifyAbsent"
        \/ op = "fsck" /\ Ends("ok", TRUE, TRUE)
    <3> HIDE DEF Ends
    <3> QED
      BY <1>a, <1>34 DEF SeesUp, AfterReboot
  <2>2. op = "uninstall" => RuntimeGone
    BY <1>34 DEF SeesUp
  <2> QED
    BY <1>a, <1>c, <1>d, <2>1, <2>2 DEF NoResult
<1>35. CASE NeverUp
  BY <1>a, <1>b, <1>35 DEF NeverUp, RemovalPCs, DeployPCs
<1>36. CASE RuntimeReady
  <2>1. op # "uninstall" /\ \E rebooted \in BOOLEAN : Ends("ok", TRUE, rebooted)
    <3> HIDE DEF Ends
    <3> QED
      BY <1>a, <1>36 DEF RuntimeReady
  <2> QED
    BY <1>d, <2>1
<1>37. CASE RuntimeNotReady
  BY <1>a, <1>b, <1>37 DEF RuntimeNotReady, RemovalPCs, DeployPCs
<1> QED
  BY <1>1, <1>2, <1>3, <1>4, <1>5, <1>6, <1>7, <1>8, <1>9, <1>10, <1>11, <1>12, <1>13, <1>14, <1>15, <1>16, <1>17, <1>18, <1>19, <1>20, <1>21, <1>22, <1>23, <1>24, <1>25, <1>26, <1>27, <1>28, <1>29, <1>30, <1>31, <1>32, <1>33, <1>34, <1>35, <1>36, <1>37 DEF HostMoves, DeployStep, MaintainStep, RebootStep

LEMMA GoneStays == TypedInv /\ QuietInv /\ GoneInv /\ [Next]_vars => GoneInv'
<1> SUFFICES ASSUME TypedInv, QuietInv, GoneInv, [Next]_vars
             PROVE  GoneInv'
  OBVIOUS
<1>1. CASE PlainDeploy \/ Chore
  BY <1>1, BeginsLocated DEF GoneInv, NoResult
<1>2. CASE DeviceMoves \/ BootEnds
  <2>1. UNCHANGED <<op, pc, run, result>>
    BY <1>2, DeviceAlone DEF hostVars
  <2>2. flash' = flash
    BY <1>2, DeviceAlone
       DEF GoDown, PowerCut, LinkDrop, LinkBack, DiskdUnmount, ManagerServes, ComeUp, deviceFiles
  <2>3. RuntimeGone => RuntimeGone'
    BY <1>2, <2>2, DeviceAlone
       DEF RuntimeGone, GoDown, PowerCut, LinkDrop, LinkBack, DiskdUnmount, ManagerServes, ComeUp, Autostarts
  <2> QED
    BY <2>1, <2>2, <2>3 DEF GoneInv
<1>3. CASE HostMoves
  BY <1>3, ActsLeaveItGone
<1>4. CASE UNCHANGED vars
  BY <1>4 DEF GoneInv, RuntimeGone, vars, deviceVars, deviceFiles, hostVars
<1> QED
  BY <1>1, <1>2, <1>3, <1>4 DEF Next

\* After an uninstall that reported success nothing of the runtime runs and
\* no boot starts it again (deploy/planner.py, build_uninstall_plan).
THEOREM UninstalledDown == Spec => []UninstalledStaysDown
<1>1. Init => GoneInv
  BY DEF Init, HostInit, GoneInv, NoResult
<1>2. GoneInv => UninstalledStaysDown
  BY DEF GoneInv, RuntimeGone, UninstalledStaysDown
<1> QED
  BY <1>1, <1>2, GoneStays, Typed, Quiet, PTL DEF Spec

-----------------------------------------------------------------------------
(* What a deploy retires was copied.                                       *)

\* The roots of a deploy are set by the copy phase alone, to what it copied.
LEMMA ActsKeepRecords ==
    ASSUME TypedInv, RecordsInv, HostMoves
    PROVE  RecordsInv' /\ (op = "deploy" => records \ records' \subseteq native')
<1> USE DEF Step, Call, Fails, Goto, Ends, NoEffect, deviceVars, deviceFiles, RecordsInv
<1>a. /\ pc \in DeployPCs => op = "deploy"
      /\ pc \in RemovalPCs => op = "uninstall"
      /\ pc # "idle" => op # "none"
      /\ run \in Runs /\ records \subseteq Volumes
  BY DEF TypedInv, LaneInv, TypeOK, HostTypeOK, DeviceTypeOK
<1>b. ASSUME UNCHANGED <<records, native>>, op' = "none" \/ (UNCHANGED op /\ run'.roots = run.roots)
      PROVE  RecordsInv' /\ (op = "deploy" => records \ records' \subseteq native')
  BY <1>b
<1>1. CASE ConfirmDeploy
  BY <1>a, <1>1 DEF ConfirmDeploy, NoEffect, RemovalPCs, DeployPCs, NoRun
<1>2. CASE DiscoverVolumes
  BY <1>a, <1>2 DEF DiscoverVolumes, NoEffect, RemovalPCs, DeployPCs, NoRun
<1>3. CASE SelectHome
  <2>1. UNCHANGED <<records, native>>
    BY <1>3 DEF SelectHome, FirstUsable, PassedOver, Mounts
  <2>2. op' = "none" \/ (UNCHANGED op /\ run'.roots = run.roots)
    BY <1>a, <1>3 DEF SelectHome, FirstUsable, PassedOver, Mounts, Runs
  <2> QED
    BY <1>b, <2>1, <2>2
<1>4. CASE StopManagerForDeploy
  BY <1>a, <1>4 DEF StopManagerForDeploy, StopsManager, RemovalPCs, DeployPCs, NoRun
<1>5. CASE StopDaemonsForDeploy
  BY <1>a, <1>5 DEF StopDaemonsForDeploy, StopsDaemons, RemovalPCs, DeployPCs, NoRun
<1>6. ASSUME NEW flag \in ModeFlags, Prepare(flag) PROVE RecordsInv' /\ (op = "deploy" => records \ records' \subseteq native')
  <2>1. UNCHANGED <<records, native>>
    BY <1>6 DEF Prepare, Mounts
  <2>2. op' = "none" \/ (UNCHANGED op /\ run'.roots = run.roots)
    BY <1>a, <1>6 DEF Prepare, Mounts, Runs
  <2> QED
    BY <1>b, <2>1, <2>2
<1>7. CASE EnsurePayloadVolume
  BY <1>a, <1>7 DEF EnsurePayloadVolume, Mounts, RemovalPCs, DeployPCs, NoRun
<1>8. CASE UploadPayloadFile
  <2>1. UNCHANGED <<records, native>>
    BY <1>8 DEF UploadPayloadFile, AfterPut, PutsPayload
  <2>2. op' = "none" \/ (UNCHANGED op /\ run'.roots = run.roots)
    BY <1>a, <1>8 DEF UploadPayloadFile, AfterPut, PutsPayload, Runs
  <2> QED
    BY <1>b, <2>1, <2>2
<1>9. CASE UploadFlashFile
  <2>1. UNCHANGED <<records, native>>
    BY <1>9 DEF UploadFlashFile, AfterPut, PutsFlash
  <2>2. op' = "none" \/ (UNCHANGED op /\ run'.roots = run.roots)
    BY <1>a, <1>9 DEF UploadFlashFile, AfterPut, PutsFlash, Runs
  <2> QED
    BY <1>b, <2>1, <2>2
<1>10. CASE CopyMetadata
  <2>1. records' = records /\ native \subseteq native'
    BY <1>10 DEF CopyMetadata, CopiesRecords, Mounts
  <2>2. \/ op' = "none"
        \/ run'.roots = {}
        \/ \E vols \in SUBSET Volumes : run'.roots = vols /\ CopiesRecords(vols)
    BY <1>a, <1>10 DEF CopyMetadata, Runs
  <2>3. \/ op' = "none"
        \/ run'.roots = {}
        \/ records \intersect run'.roots \subseteq native'
    BY <2>2 DEF CopiesRecords
  <2> QED
    BY <2>1, <2>3
<1>11. CASE ApplyPermissions
  BY <1>a, <1>11 DEF ApplyPermissions, Mounts, RemovalPCs, DeployPCs, NoRun
<1>12. CASE VerifyUpload
  BY <1>a, <1>12 DEF VerifyUpload, VerifyPayload, Mounts, RemovalPCs, DeployPCs, NoRun
<1>13. CASE FlushPayload
  BY <1>a, <1>13 DEF FlushPayload, Flushes, RemovalPCs, DeployPCs, NoRun
<1>14. CASE VerifyFlushed
  BY <1>a, <1>14 DEF VerifyFlushed, VerifyPayload, Mounts, RemovalPCs, DeployPCs, NoRun
<1>15. CASE CleanupMetadata
  BY <1>a, <1>15 DEF CleanupMetadata, AfterCleanup, RetiresRecords, Mounts, RemovalPCs, DeployPCs, NoRun
<1>16. CASE ConfirmReboot
  BY <1>a, <1>16 DEF ConfirmReboot, RemovalPCs, DeployPCs, NoRun
<1>17. CASE StartRuntime
  BY <1>a, <1>17 DEF StartRuntime, RunsRcLocal, RemovalPCs, DeployPCs, NoRun
<1>18. CASE DecideAutostart
  BY <1>a, <1>18 DEF DecideAutostart, RemovalPCs, DeployPCs, NoRun
<1>19. CASE ConfirmMaintenance
  BY <1>a, <1>19 DEF ConfirmMaintenance, AfterConfirm, RemovalPCs, DeployPCs, NoRun
<1>20. CASE MountVolumes
  BY <1>a, <1>20 DEF MountVolumes, Wakes, Mounts, RemovalPCs, DeployPCs, NoRun
<1>21. CASE StopManagerForUninstall
  BY <1>a, <1>21 DEF StopManagerForUninstall, StopsManager, RemovalPCs, DeployPCs, NoRun
<1>22. CASE StopDaemonsForUninstall
  BY <1>a, <1>22 DEF StopDaemonsForUninstall, StopsDaemons, RemovalPCs, DeployPCs, NoRun
<1>23. CASE RemovePayload
  BY <1>a, <1>23 DEF RemovePayload, RemovesPayload, RemovalPCs, DeployPCs, NoRun
<1>24. CASE RemoveFlash
  BY <1>a, <1>24 DEF RemoveFlash, AfterRemoval, RemovesFlash, RemovalPCs, DeployPCs, NoRun
<1>25. CASE ConfirmUninstallReboot
  BY <1>a, <1>25 DEF ConfirmUninstallReboot, RemovalPCs, DeployPCs, NoRun
<1>26. CASE VerifyAbsent
  BY <1>a, <1>26 DEF VerifyAbsent, RemovalPCs, DeployPCs, NoRun
<1>27. CASE ProbeRuntime
  BY <1>a, <1>27 DEF ProbeRuntime, RemovalPCs, DeployPCs, NoRun
<1>28. CASE StopManagerForActivate
  BY <1>a, <1>28 DEF StopManagerForActivate, StopsManager, RemovalPCs, DeployPCs, NoRun
<1>29. CASE RunFsck
  BY <1>a, <1>29 DEF RunFsck, AfterFsck, ChecksDisk, RemovalPCs, DeployPCs, NoRun
<1>30. CASE AskByAcp
  BY <1>a, <1>30 DEF AskByAcp, Asked, AsksReboot, RemovalPCs, DeployPCs, NoRun
<1>31. CASE AskBySsh
  BY <1>a, <1>31 DEF AskBySsh, Asked, AsksReboot, RemovalPCs, DeployPCs, NoRun
<1>32. CASE SeesDown
  BY <1>a, <1>32 DEF SeesDown, RemovalPCs, DeployPCs, NoRun
<1>33. CASE NeverDown
  BY <1>a, <1>33 DEF NeverDown, RemovalPCs, DeployPCs, NoRun
<1>34. CASE SeesUp
  <2>1. UNCHANGED <<records, native>>
    BY <1>34 DEF SeesUp, AfterReboot
  <2>2. op' = "none" \/ (UNCHANGED op /\ run'.roots = run.roots)
    BY <1>a, <1>34 DEF SeesUp, AfterReboot, TypedInv, LaneInv
  <2> QED
    BY <1>b, <2>1, <2>2
<1>35. CASE NeverUp
  BY <1>a, <1>35 DEF NeverUp, RemovalPCs, DeployPCs, NoRun
<1>36. CASE RuntimeReady
  BY <1>a, <1>36 DEF RuntimeReady, RemovalPCs, DeployPCs, NoRun
<1>37. CASE RuntimeNotReady
  BY <1>a, <1>37 DEF RuntimeNotReady, RemovalPCs, DeployPCs, NoRun
<1> QED
  BY <1>1, <1>2, <1>3, <1>4, <1>5, <1>6, <1>7, <1>8, <1>9, <1>10, <1>11, <1>12, <1>13, <1>14, <1>15, <1>16, <1>17, <1>18, <1>19, <1>20, <1>21, <1>22, <1>23, <1>24, <1>25, <1>26, <1>27, <1>28, <1>29, <1>30, <1>31, <1>32, <1>33, <1>34, <1>35, <1>36, <1>37 DEF HostMoves, DeployStep, MaintainStep, RebootStep

\* The device itself retires nothing it has not copied.
LEMMA DeviceKeepsRecords ==
    ASSUME DeviceMoves \/ BootEnds
    PROVE  records' \subseteq records /\ native \subseteq native' /\ records \ records' \subseteq native'
<1>1. ASSUME NEW v \in Volumes,
             GoDown \/ PowerCut \/ LinkDrop \/ LinkBack \/ DiskdUnmount(v) \/ ManagerServes(v) \/ ComeUp
      PROVE  records' \subseteq records /\ native \subseteq native' /\ records \ records' \subseteq native'
  BY <1>1 DEF GoDown, PowerCut, LinkDrop, LinkBack, DiskdUnmount, ManagerServes, ComeUp, deviceFiles
<1> QED
  BY <1>1, DeviceAlone

LEMMA RecordsStay == TypedInv /\ RecordsInv /\ [Next]_vars => RecordsInv'
<1> SUFFICES ASSUME TypedInv, RecordsInv, [Next]_vars
             PROVE  RecordsInv'
  OBVIOUS
<1>1. CASE PlainDeploy \/ Chore
  BY <1>1, BeginsLocated DEF RecordsInv
<1>2. CASE DeviceMoves \/ BootEnds
  BY <1>2, DeviceAlone, DeviceKeepsRecords DEF hostVars, RecordsInv
<1>3. CASE HostMoves
  BY <1>3, ActsKeepRecords
<1>4. CASE UNCHANGED vars
  BY <1>4 DEF RecordsInv, vars, deviceVars, deviceFiles, hostVars
<1> QED
  BY <1>1, <1>2, <1>3, <1>4 DEF Next

\* No record leaves the legacy store during a deploy before it is native,
\* whatever volume came, went or failed between the two phases
\* (deploy/executor.py, migrate_xattr_tdb_to_hfs).
THEOREM RecordsSurvive == Spec => RecordsSurviveDeploys
<1> DEFINE Kept == op = "deploy" => records \ records' \subseteq native'
<1>1. Init => RecordsInv
  BY DEF Init, HostInit, RecordsInv
<1>2. TypedInv /\ RecordsInv /\ [Next]_vars => [Kept]_vars
  <2> SUFFICES ASSUME TypedInv, RecordsInv, Next
               PROVE  Kept
    OBVIOUS
  <2>1. CASE PlainDeploy \/ Chore
    BY <2>1, BeginsLocated DEF deviceFiles
  <2>2. CASE DeviceMoves \/ BootEnds
    BY <2>2, DeviceKeepsRecords
  <2>3. CASE HostMoves
    BY <2>3, ActsKeepRecords
  <2> QED
    BY <2>1, <2>2, <2>3 DEF Next
<1> QED
  BY <1>1, <1>2, RecordsStay, Typed, PTL DEF Spec, RecordsSurviveDeploys

-----------------------------------------------------------------------------
(* A verified deploy is whole.                                             *)

Transfers == {"ensure", "put", "copy"}
Uploaded == {"permissions", "verifyUpload", "flush"}
Flushed == {"verifyFlushed", "cleanup", "confirmReboot", "ask", "down", "up", "autostart",
            "startRuntime", "verifyRuntime"}

\* The ways in which a step of an operation keeps a deploy whole.
LEMMA KeepsWhole ==
    ASSUME TypedInv, WholeInv, Located', op # "none"
    PROVE  /\ \A status, rebooted : Ends(status, FALSE, rebooted) => WholeInv'
           /\ op # "deploy" => \A status, rebooted : Ends(status, TRUE, rebooted) => WholeInv'
           /\ op # "deploy" /\ UNCHANGED <<op, result>> => WholeInv'
           /\ UNCHANGED <<op, result>> /\ pc' \notin Transfers \union Uploaded \union Flushed => WholeInv'
           /\ UNCHANGED <<op, result>> /\ pc' \in Transfers /\ (up' => Placed(run.home, Before[run.item])') => WholeInv'
           /\ UNCHANGED <<op, result>> /\ pc' \in Uploaded /\ (up' => Whole(run.home)') => WholeInv'
           /\ UNCHANGED <<op, result>> /\ pc' \in Flushed /\ Settled(run.home)' => WholeInv'
<1>1. result = NoResult /\ ~NoResult.verified
  BY DEF TypedInv, LaneInv, NoResult
<1>2. pc' \in DeployPCs => op' = "deploy"
  BY DEF Located, LaneInv
<1>3. UNCHANGED <<op, result>> => ~Verified("deploy")'
  BY <1>1 DEF Verified
<1>4. ASSUME NEW status, NEW rebooted, NEW verified \in BOOLEAN, Ends(status, verified, rebooted),
             ~verified \/ op # "deploy"
      PROVE  WholeInv'
  BY <1>4 DEF Ends, WholeInv, Verified
<1>5. op # "deploy" /\ UNCHANGED <<op, result>> => WholeInv'
  BY <1>2, <1>3 DEF WholeInv, DeployPCs
<1>6. UNCHANGED <<op, result>> /\ pc' \notin Transfers \union Uploaded \union Flushed => WholeInv'
  BY <1>3 DEF WholeInv, Transfers, Uploaded, Flushed
<1>7. UNCHANGED <<op, result>> /\ pc' \in Transfers /\ (up' => Placed(run.home, Before[run.item])') => WholeInv'
  BY <1>3 DEF WholeInv, Transfers
<1>8. UNCHANGED <<op, result>> /\ pc' \in Uploaded /\ (up' => Whole(run.home)') => WholeInv'
  BY <1>3 DEF WholeInv, Uploaded
<1>9. UNCHANGED <<op, result>> /\ pc' \in Flushed /\ Settled(run.home)' => WholeInv'
  BY <1>3 DEF WholeInv, Flushed
<1> QED
  BY <1>4, <1>5, <1>6, <1>7, <1>8, <1>9

\* Where a deploy goes after a transfer.
LEMMA AfterPutDoes ==
    ASSUME HostTypeOK, AfterPut, run.item \in PayloadFiles \union FlashFiles
    PROVE  /\ UNCHANGED <<op, result>> /\ run'.item = NextItem[run.item] /\ run'.home = run.home
           /\ run.item # "conf" => pc' \in Transfers
           /\ run.item = "conf" => pc' \in Uploaded
<1>1. NextItem[run.item] \in Files
  BY NextItemIs DEF Files, PayloadFiles, FlashFiles
<1>2. run' = [run EXCEPT !.item = NextItem[run.item]]
  BY DEF AfterPut
<1>3. run'.item = NextItem[run.item] /\ run'.home = run.home
  BY <1>1, <1>2 DEF HostTypeOK, Runs
<1>4. UNCHANGED <<op, result>>
  BY DEF AfterPut, Goto
<1>5. CASE run.item = "conf"
  BY <1>3, <1>4, <1>5 DEF AfterPut, Goto, Uploaded
<1>6. CASE run.item # "conf"
  <2>1. pc' = "copy" \/ pc' = PutStep(NextItem[run.item])
    BY <1>6 DEF AfterPut, Goto
  <2> QED
    BY <1>3, <1>4, <1>6, <2>1 DEF PutStep, Transfers
<1> QED
  BY <1>5, <1>6

\* Every step of a deploy leaves in place what it has put there.
LEMMA ActsKeepWhole ==
    ASSUME TypedInv, WholeInv, HostMoves
    PROVE  WholeInv'
<1> USE DEF Step, Call, Fails, Goto, NoEffect, deviceVars, deviceFiles, Reachable
<1>a. Located'
  BY ActsKeepLane
<1>b. /\ op # "none" =>
            /\ \A status, rebooted : Ends(status, FALSE, rebooted) => WholeInv'
            /\ op # "deploy" => \A status, rebooted : Ends(status, TRUE, rebooted) => WholeInv'
            /\ op # "deploy" /\ UNCHANGED <<op, result>> => WholeInv'
            /\ UNCHANGED <<op, result>> /\ pc' \notin Transfers \union Uploaded \union Flushed => WholeInv'
      /\ pc \in DeployPCs => op = "deploy"
      /\ pc \in RemovalPCs => op = "uninstall"
      /\ pc \in {"confirmReboot", "stopDaemons", "ask"} => op \in {"deploy", "uninstall"}
      /\ pc \in {"down", "up"} => op \in {"deploy", "uninstall", "fsck"}
      /\ pc \in {"startRuntime", "verifyRuntime"} => op \in {"deploy", "activate"}
      /\ pc # "idle" => op # "none"
  BY <1>a, KeepsWhole DEF TypedInv, LaneInv
<1>c. run \in Runs /\ run.home \in Volumes /\ payload \in [Volumes -> [PayloadFiles -> Version]]
      /\ dirty \in [Volumes -> SUBSET PayloadFiles] /\ flash \in [FlashFiles -> Version \ {"torn"}]
  BY DEF TypedInv, TypeOK, HostTypeOK, DeviceTypeOK, Runs
<1>d. ASSUME op = "deploy", UNCHANGED <<op, result, run, payload, flash>>, pc \in Flushed, pc' \in Flushed,
             dirty' = dirty \/ dirty' = Clean
      PROVE  WholeInv'
  <2>1. Settled(run.home)
    BY <1>d DEF WholeInv, Flushed
  <2>2. Settled(run.home)'
    BY <1>c, <1>d, <2>1 DEF Settled, Whole, Placed, Clean
  <2> QED
    BY <1>a, <1>d, <2>2, KeepsWhole
<1>e. ASSUME op = "deploy", UNCHANGED <<op, result, run, payload, flash, up>>, pc \in Uploaded, pc' \in Uploaded
      PROVE  WholeInv'
  <2>1. up => Whole(run.home)
    BY <1>e DEF WholeInv, Uploaded
  <2>2. up' => Whole(run.home)'
    BY <1>e, <2>1 DEF Whole, Placed
  <2> QED
    BY <1>a, <1>e, <2>2, KeepsWhole
<1>f. ASSUME op = "deploy", UNCHANGED <<op, result, payload, flash, up>>, pc \in Transfers, pc' \in Transfers,
             run'.home = run.home, run'.item = run.item
      PROVE  WholeInv'
  <2>1. up => Placed(run.home, Before[run.item])
    BY <1>f DEF WholeInv, Transfers
  <2>2. up' => Placed(run.home, Before[run.item])'
    BY <1>f, <2>1 DEF Placed
  <2> QED
    BY <1>a, <1>f, <2>2, KeepsWhole
<1>g. ASSUME op = "deploy", UNCHANGED <<op, result, up>>, up, pc = "put",
             NEW f \in PayloadFiles \union FlashFiles, run.item = f, run'.item = NextItem[f], run'.home = run.home,
             \A v \in Volumes, g \in PayloadFiles : payload'[v][g] = payload[v][g] \/ payload'[v][g] = "new",
             \A g \in FlashFiles : flash'[g] = flash[g] \/ flash'[g] = "new",
             f \in PayloadFiles => payload'[run.home][f] = "new",
             f \in FlashFiles => flash'[f] = "new",
             f # "conf" => pc' \in Transfers, f = "conf" => pc' \in Uploaded
      PROVE  WholeInv'
  <2>1. Placed(run.home, Before[f])
    BY <1>g DEF WholeInv
  <2>2. \A g \in PayloadFiles \intersect Before[f] : payload'[run.home][g] = "new"
    BY <1>c, <1>g, <2>1 DEF Placed
  <2>3. \A g \in FlashFiles \intersect Before[f] : flash'[g] = "new"
    BY <1>c, <1>g, <2>1 DEF Placed
  <2>4. CASE f # "conf"
    <3>1. Placed(run.home, Before[run.item])'
      BY <1>g, <2>2, <2>3, <2>4, BeforeIs, NextItemIs DEF Placed, PayloadFiles, FlashFiles
    <3> QED
      BY <1>a, <1>g, <2>4, <3>1, KeepsWhole
  <2>5. CASE f = "conf"
    <3>1. Whole(run.home)'
      BY <1>g, <2>2, <2>3, <2>5, BeforeIs DEF Whole, Placed, PayloadFiles, FlashFiles
    <3> QED
      BY <1>a, <1>g, <2>5, <3>1, KeepsWhole
  <2> QED
    BY <2>4, <2>5
<1>1. CASE ConfirmDeploy
  BY <1>b, <1>d, <1>e, <1>f, <1>1 DEF ConfirmDeploy, NoEffect, RemovalPCs, DeployPCs, Transfers, Uploaded, Flushed
<1>2. CASE DiscoverVolumes
  BY <1>b, <1>d, <1>e, <1>f, <1>2 DEF DiscoverVolumes, NoEffect, RemovalPCs, DeployPCs, Transfers, Uploaded, Flushed
<1>3. CASE SelectHome
  <2>1. Ends("error", FALSE, FALSE) \/ (UNCHANGED <<op, result>> /\ pc' = "stopManager")
    BY <1>3 DEF SelectHome
  <2> QED
    BY <1>b, <1>3, <2>1 DEF SelectHome, Transfers, Uploaded, Flushed
<1>4. CASE StopManagerForDeploy
  BY <1>b, <1>d, <1>e, <1>f, <1>4 DEF StopManagerForDeploy, StopsManager, RemovalPCs, DeployPCs, Transfers, Uploaded, Flushed
<1>5. CASE StopDaemonsForDeploy
  BY <1>b, <1>d, <1>e, <1>f, <1>5 DEF StopDaemonsForDeploy, StopsDaemons, RemovalPCs, DeployPCs, Transfers, Uploaded, Flushed
<1>6. ASSUME NEW flag \in ModeFlags, Prepare(flag) PROVE WholeInv'
  <2>1. \/ Ends("error", FALSE, FALSE)
        \/ UNCHANGED <<op, result>> /\ pc' = "ensure" /\ run'.item = "migrator"
    BY <1>c, <1>6 DEF Prepare, Runs
  <2>3. run'.item = "migrator" => Placed(run.home, Before[run.item])'
    BY BeforeIs DEF Placed
  <2> QED
    BY <1>a, <1>b, <1>6, <2>1, <2>3, KeepsWhole DEF Prepare, Transfers
<1>7. CASE EnsurePayloadVolume
  BY <1>b, <1>d, <1>e, <1>f, <1>7 DEF EnsurePayloadVolume, Mounts, RemovalPCs, DeployPCs, Transfers, Uploaded, Flushed
<1>8. CASE UploadPayloadFile
  <2>1. CASE PutsPayload(run.home, run.item, "new") /\ AfterPut /\ up
    <3>1. run.item \in PayloadFiles /\ op = "deploy" /\ pc = "put"
      BY <1>8 DEF UploadPayloadFile
    <3>2. payload' = [payload EXCEPT ![run.home][run.item] = "new"] /\ UNCHANGED <<flash, up>>
      BY <2>1 DEF PutsPayload
    <3>3. /\ UNCHANGED <<op, result>> /\ run'.item = NextItem[run.item] /\ run'.home = run.home
          /\ run.item # "conf" => pc' \in Transfers
          /\ run.item = "conf" => pc' \in Uploaded
      BY <2>1, <3>1, AfterPutDoes DEF TypedInv, TypeOK
    <3>5. /\ \A v \in Volumes, g \in PayloadFiles : payload'[v][g] = payload[v][g] \/ payload'[v][g] = "new"
          /\ payload'[run.home][run.item] = "new"
      BY <1>c, <3>1, <3>2
    <3>6. run.item \notin FlashFiles
      BY <3>1 DEF PayloadFiles, FlashFiles
    <3> QED
      BY <1>g, <2>1, <3>1, <3>2, <3>3, <3>5, <3>6
  <2> QED
    BY <1>b, <1>8, <2>1 DEF UploadPayloadFile
<1>9. CASE UploadFlashFile
  <2>1. CASE PutsFlash(run.item) /\ AfterPut /\ up
    <3>1. run.item \in FlashFiles /\ op = "deploy" /\ pc = "put"
      BY <1>9 DEF UploadFlashFile
    <3>2. flash' = [flash EXCEPT ![run.item] = "new"] /\ UNCHANGED <<payload, up>>
      BY <2>1 DEF PutsFlash
    <3>3. /\ UNCHANGED <<op, result>> /\ run'.item = NextItem[run.item] /\ run'.home = run.home
          /\ run.item # "conf" => pc' \in Transfers
          /\ run.item = "conf" => pc' \in Uploaded
      BY <2>1, <3>1, AfterPutDoes DEF TypedInv, TypeOK
    <3>5. /\ \A g \in FlashFiles : flash'[g] = flash[g] \/ flash'[g] = "new"
          /\ flash'[run.item] = "new"
      BY <1>c, <3>1, <3>2
    <3>6. run.item \notin PayloadFiles
      BY <3>1 DEF PayloadFiles, FlashFiles
    <3> QED
      BY <1>g, <2>1, <3>1, <3>2, <3>3, <3>5, <3>6
  <2> QED
    BY <1>b, <1>9, <2>1 DEF UploadFlashFile
<1>10. CASE CopyMetadata
  <2>1. op = "deploy" /\ pc = "copy"
    BY <1>10 DEF CopyMetadata
  <2>2. \/ Ends("error", FALSE, FALSE)
        \/ /\ UNCHANGED <<op, result, payload, flash, up>> /\ pc' \in Transfers
           /\ run'.home = run.home /\ run'.item = run.item
    BY <1>c, <1>10 DEF CopyMetadata, CopiesRecords, Mounts, PutStep, Transfers, Runs
  <2> QED
    BY <1>b, <1>f, <2>1, <2>2 DEF Transfers
<1>11. CASE ApplyPermissions
  BY <1>b, <1>d, <1>e, <1>f, <1>11 DEF ApplyPermissions, Mounts, RemovalPCs, DeployPCs, Transfers, Uploaded, Flushed
<1>12. CASE VerifyUpload
  BY <1>b, <1>d, <1>e, <1>f, <1>12 DEF VerifyUpload, VerifyPayload, Mounts, RemovalPCs, DeployPCs, Transfers, Uploaded, Flushed
<1>13. CASE FlushPayload
  <2>1. op = "deploy" /\ pc = "flush"
    BY <1>13 DEF FlushPayload
  <2>2. \/ Ends("error", FALSE, FALSE)
        \/ UNCHANGED <<op, result, run, payload, flash, up>> /\ up /\ dirty' = Clean /\ pc' = "verifyFlushed"
    BY <1>13 DEF FlushPayload, Flushes
  <2>3. up => Whole(run.home)
    BY <2>1 DEF WholeInv
  <2>4. CASE UNCHANGED <<op, result, run, payload, flash, up>> /\ up /\ dirty' = Clean /\ pc' = "verifyFlushed"
    <3>1. Settled(run.home)'
      BY <1>c, <2>3, <2>4 DEF Settled, Whole, Placed, Clean
    <3> QED
      BY <1>a, <2>1, <2>4, <3>1, KeepsWhole DEF Flushed
  <2> QED
    BY <1>b, <2>1, <2>2, <2>4
<1>14. CASE VerifyFlushed
  BY <1>b, <1>d, <1>e, <1>f, <1>14 DEF VerifyFlushed, VerifyPayload, Mounts, RemovalPCs, DeployPCs, Transfers, Uploaded, Flushed
<1>15. CASE CleanupMetadata
  BY <1>b, <1>d, <1>e, <1>f, <1>15 DEF CleanupMetadata, AfterCleanup, RetiresRecords, Mounts, RemovalPCs, DeployPCs, Transfers, Uploaded, Flushed
<1>16. CASE ConfirmReboot
  BY <1>b, <1>d, <1>e, <1>f, <1>16 DEF ConfirmReboot, RemovalPCs, DeployPCs, Transfers, Uploaded, Flushed
<1>17. CASE StartRuntime
  BY <1>b, <1>d, <1>e, <1>f, <1>17 DEF StartRuntime, RunsRcLocal, RemovalPCs, DeployPCs, Transfers, Uploaded, Flushed
<1>18. CASE DecideAutostart
  BY <1>b, <1>d, <1>e, <1>f, <1>18 DEF DecideAutostart, RemovalPCs, DeployPCs, Transfers, Uploaded, Flushed
<1>19. CASE ConfirmMaintenance
  BY <1>b, <1>d, <1>e, <1>f, <1>19 DEF ConfirmMaintenance, AfterConfirm, RemovalPCs, DeployPCs, Transfers, Uploaded, Flushed
<1>20. CASE MountVolumes
  BY <1>b, <1>d, <1>e, <1>f, <1>20 DEF MountVolumes, Wakes, Mounts, RemovalPCs, DeployPCs, Transfers, Uploaded, Flushed
<1>21. CASE StopManagerForUninstall
  BY <1>b, <1>d, <1>e, <1>f, <1>21 DEF StopManagerForUninstall, StopsManager, RemovalPCs, DeployPCs, Transfers, Uploaded, Flushed
<1>22. CASE StopDaemonsForUninstall
  BY <1>b, <1>d, <1>e, <1>f, <1>22 DEF StopDaemonsForUninstall, StopsDaemons, RemovalPCs, DeployPCs, Transfers, Uploaded, Flushed
<1>23. CASE RemovePayload
  BY <1>b, <1>d, <1>e, <1>f, <1>23 DEF RemovePayload, RemovesPayload, RemovalPCs, DeployPCs, Transfers, Uploaded, Flushed
<1>24. CASE RemoveFlash
  BY <1>b, <1>d, <1>e, <1>f, <1>24 DEF RemoveFlash, AfterRemoval, RemovesFlash, RemovalPCs, DeployPCs, Transfers, Uploaded, Flushed
<1>25. CASE ConfirmUninstallReboot
  BY <1>b, <1>d, <1>e, <1>f, <1>25 DEF ConfirmUninstallReboot, RemovalPCs, DeployPCs, Transfers, Uploaded, Flushed
<1>26. CASE VerifyAbsent
  BY <1>b, <1>d, <1>e, <1>f, <1>26 DEF VerifyAbsent, RemovalPCs, DeployPCs, Transfers, Uploaded, Flushed
<1>27. CASE ProbeRuntime
  BY <1>b, <1>d, <1>e, <1>f, <1>27 DEF ProbeRuntime, RemovalPCs, DeployPCs, Transfers, Uploaded, Flushed
<1>28. CASE StopManagerForActivate
  BY <1>b, <1>d, <1>e, <1>f, <1>28 DEF StopManagerForActivate, StopsManager, RemovalPCs, DeployPCs, Transfers, Uploaded, Flushed
<1>29. CASE RunFsck
  BY <1>b, <1>d, <1>e, <1>f, <1>29 DEF RunFsck, AfterFsck, ChecksDisk, RemovalPCs, DeployPCs, Transfers, Uploaded, Flushed
<1>30. CASE AskByAcp
  BY <1>b, <1>d, <1>e, <1>f, <1>30 DEF AskByAcp, Asked, AsksReboot, RemovalPCs, DeployPCs, Transfers, Uploaded, Flushed
<1>31. CASE AskBySsh
  BY <1>b, <1>d, <1>e, <1>f, <1>31 DEF AskBySsh, Asked, AsksReboot, RemovalPCs, DeployPCs, Transfers, Uploaded, Flushed
<1>32. CASE SeesDown
  BY <1>b, <1>d, <1>e, <1>f, <1>32 DEF SeesDown, RemovalPCs, DeployPCs, Transfers, Uploaded, Flushed
<1>33. CASE NeverDown
  BY <1>b, <1>d, <1>e, <1>f, <1>33 DEF NeverDown, RemovalPCs, DeployPCs, Transfers, Uploaded, Flushed
<1>34. CASE SeesUp
  BY <1>b, <1>d, <1>e, <1>f, <1>34 DEF SeesUp, AfterReboot, RemovalPCs, DeployPCs, Transfers, Uploaded, Flushed
<1>35. CASE NeverUp
  BY <1>b, <1>d, <1>e, <1>f, <1>35 DEF NeverUp, RemovalPCs, DeployPCs, Transfers, Uploaded, Flushed
<1>36. CASE RuntimeReady
  <2>1. Ends("ok", TRUE, op = "deploy" /\ ~run.noReboot) /\ pc = "verifyRuntime"
        /\ UNCHANGED <<payload, flash, dirty>>
    BY <1>36 DEF RuntimeReady
  <2>2. CASE op = "deploy"
    <3>1. Settled(run.home)
      BY <2>1, <2>2 DEF WholeInv
    <3>2. op' = "none" /\ pc' = "idle" /\ result'.home = run.home
      BY <2>1 DEF Ends
    <3>3. Settled(result.home)'
      BY <2>1, <3>1, <3>2 DEF Settled, Whole, Placed
    <3> QED
      BY <3>2, <3>3 DEF WholeInv
  <2> QED
    BY <1>b, <2>1, <2>2
<1>37. CASE RuntimeNotReady
  BY <1>b, <1>d, <1>e, <1>f, <1>37 DEF RuntimeNotReady, RemovalPCs, DeployPCs, Transfers, Uploaded, Flushed
<1> QED
  BY <1>1, <1>2, <1>3, <1>4, <1>5, <1>6, <1>7, <1>8, <1>9, <1>10, <1>11, <1>12, <1>13, <1>14, <1>15, <1>16, <1>17, <1>18, <1>19, <1>20, <1>21, <1>22, <1>23, <1>24, <1>25, <1>26, <1>27, <1>28, <1>29, <1>30, <1>31, <1>32, <1>33, <1>34, <1>35, <1>36, <1>37 DEF HostMoves, DeployStep, MaintainStep, RebootStep

\* What the device does by itself takes nothing from a deploy that has
\* flushed, and before that it stops the deploy.
LEMMA DeviceKeepsWhole ==
    ASSUME TypedInv, WholeInv, UNCHANGED hostVars, NEW v \in Volumes,
           GoDown \/ PowerCut \/ LinkDrop \/ LinkBack \/ DiskdUnmount(v) \/ ManagerServes(v)
              \/ (ComeUp /\ pc \in Waiting)
    PROVE  WholeInv'
<1>a. /\ payload \in [Volumes -> [PayloadFiles -> Version]] /\ dirty \in [Volumes -> SUBSET PayloadFiles]
      /\ run.home \in Volumes /\ result.home \in Volumes
  BY DEF TypedInv, TypeOK, DeviceTypeOK, HostTypeOK, Runs, Results
<1>b. ASSUME NEW w \in Volumes, Settled(w)
      PROVE  payload'[w] = payload[w] /\ dirty'[w] = {} /\ flash' = flash
  <2>1. CASE GoDown
    BY <1>a, <1>b, <2>1 DEF GoDown, Clean
  <2>2. CASE PowerCut
    <3>1. PICK lost \in [Volumes -> SUBSET PayloadFiles] :
             /\ \A u \in Volumes : lost[u] \subseteq dirty[u]
             /\ payload' = [u \in Volumes |-> [f \in PayloadFiles |->
                               IF f \in lost[u] THEN "torn" ELSE payload[u][f]]]
      BY <2>2 DEF PowerCut
    <3>2. lost[w] = {}
      BY <1>b, <3>1 DEF Settled
    <3>3. payload'[w] = payload[w]
      BY <1>a, <3>1, <3>2
    <3> QED
      BY <2>2, <3>3 DEF PowerCut, Clean
  <2>3. CASE LinkDrop \/ LinkBack \/ DiskdUnmount(v) \/ ManagerServes(v) \/ ComeUp
    BY <1>b, <2>3 DEF LinkDrop, LinkBack, DiskdUnmount, ManagerServes, ComeUp, deviceFiles, Settled
  <2> QED
    BY <2>1, <2>2, <2>3
<1>c. ASSUME NEW w \in Volumes, Settled(w)
      PROVE  Settled(w)'
  BY <1>b, <1>c DEF Settled, Whole, Placed
<1>1. pc = pc' /\ op' = op /\ run' = run /\ result' = result
  BY DEF hostVars
<1>2. up' /\ pc \in Transfers \union Uploaded => up /\ UNCHANGED <<payload, flash>>
  BY DEF GoDown, PowerCut, LinkDrop, LinkBack, DiskdUnmount, ManagerServes, ComeUp, deviceFiles,
         Transfers, Uploaded, Waiting
<1>3. up' /\ pc \in Transfers => Placed(run.home, Before[run.item])'
  BY <1>1, <1>2 DEF WholeInv, Transfers, Placed
<1>4. up' /\ pc \in Uploaded => Whole(run.home)'
  BY <1>1, <1>2 DEF WholeInv, Uploaded, Whole, Placed
<1>5. op = "deploy" /\ pc \in Flushed => Settled(run.home)'
  <2>1. op = "deploy" /\ pc \in Flushed => Settled(run.home)
    BY DEF WholeInv, Flushed
  <2>2. Settled(run.home) => \A w \in Volumes : w = run'.home => Settled(w)'
    BY <1>1, <1>c
  <2>3. (\A w \in Volumes : w = run'.home => Settled(w)') => Settled(run.home)'
    BY <1>a, <1>1 DEF Settled, Whole, Placed
  <2> QED
    BY <2>1, <2>2, <2>3
<1>6. Verified("deploy")' => Settled(result.home)'
  <2>1. Verified("deploy")' => Settled(result.home)
    BY <1>1 DEF WholeInv, Verified
  <2>2. Settled(result.home) => \A w \in Volumes : w = result'.home => Settled(w)'
    BY <1>1, <1>c
  <2>3. (\A w \in Volumes : w = result'.home => Settled(w)') => Settled(result.home)'
    BY <1>a, <1>1 DEF Settled, Whole, Placed
  <2> QED
    BY <2>1, <2>2, <2>3
<1> QED
  BY <1>1, <1>3, <1>4, <1>5, <1>6 DEF WholeInv, Transfers, Uploaded, Flushed

LEMMA WholeStays == TypedInv /\ WholeInv /\ [Next]_vars => WholeInv'
<1> SUFFICES ASSUME TypedInv, WholeInv, [Next]_vars
             PROVE  WholeInv'
  OBVIOUS
<1>1. CASE PlainDeploy \/ Chore
  BY <1>1, BeginsLocated DEF WholeInv, Verified, NoResult
<1>2. CASE DeviceMoves
  BY <1>2, DeviceKeepsWhole, VolumesAssumption DEF DeviceMoves, DeviceStep
<1>3. CASE BootEnds
  BY <1>3, DeviceKeepsWhole, VolumesAssumption DEF BootEnds
<1>4. CASE HostMoves
  BY <1>4, ActsKeepWhole
<1>5. CASE UNCHANGED vars
  BY <1>5 DEF WholeInv, Verified, Settled, Whole, Placed, vars, deviceVars, deviceFiles, hostVars
<1> QED
  BY <1>1, <1>2, <1>3, <1>4, <1>5 DEF Next

\* After a deploy that reports a verified runtime every file of the release is
\* on the payload home and on flash, and a power cut takes none of it back
\* (services/deploy.py, complete_deployment_after_upload).
THEOREM DeployedWhole == Spec => []DeployedIsWhole
<1>1. Init => WholeInv
  BY DEF Init, HostInit, WholeInv, Verified, NoResult
<1>2. WholeInv => DeployedIsWhole
  BY DEF WholeInv, DeployedIsWhole, Settled, Whole, Placed
<1> QED
  BY <1>1, <1>2, WholeStays, Typed, PTL DEF Spec

=============================================================================
