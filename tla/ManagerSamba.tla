---------------------------- MODULE ManagerSamba ----------------------------
(***************************************************************************)
(* The Samba lane of the on-device runtime manager (manager.sh) and the    *)
(* scheduler that runs it.  Every pass takes what the disk lane published; *)
(* a full service pass then refreshes the device's names, stages the       *)
(* payload's binaries in RAM, follows the network address, renders         *)
(* smb.conf and starts, reloads or restarts smbd; a bind pass only follows *)
(* the address.  The manager decides by signatures it remembers, while     *)
(* disks, addresses, names and smbd itself change between any two steps.   *)
(*                                                                         *)
(* A runtime is what the disk lane publishes: payload directory and share  *)
(* rows.  A payload's binaries are named after it.  A configuration is the *)
(* signature tc_manager_samba_config_signature prints, and smb.conf is the *)
(* configuration it was rendered from.                                     *)
(***************************************************************************)
EXTENDS Integers

CONSTANTS
    Runtimes,      \* the runtimes the disk lane may publish
    Payloads,      \* the payload directories
    PayloadOf,     \* PayloadOf[r]: the payload directory of r
    Addresses,     \* the bind interfaces the network may have
    Names,         \* the device's names
    None,          \* no runtime, address, name, file or signature
    DiskPoll,      \* MANAGER_DISK_POLL_SECONDS
    BindPoll,      \* MANAGER_BIND_POLL_SECONDS
    ServicePoll,   \* MANAGER_SERVICE_POLL_SECONDS
    MayFail,       \* the calls that may fail
    MaxFaults,     \* how many calls fail in one behaviour
    MaxEnv,        \* how many changes the surroundings go through
    EnvAt          \* the manager's steps before which they may change

Calls == {"disk", "identity", "stage", "reset", "probe", "validateBind", "validate", "render",
          "stop", "reload", "start", "others"}

\* The calls that validate, signal, stop and start smbd, and those whose failure
\* ends a pass between staging a binary and stopping smbd for it.
SmbdCalls == {"validate", "reload", "stop", "start"}
BeforeStopCalls == {"reset", "probe", "validateBind", "render", "stop"}

PCs == {"idle", "identity", "noPayload", "stage", "bind", "render", "apply",
        "start", "others"}

Statuses == {"skipped", "ok", "failed", "no_payload"}

Configs == [runtime : Runtimes, bind : Addresses, name : Names]

ASSUME ManagerSambaAssumption ==
    /\ PayloadOf \in [Runtimes -> Payloads]
    /\ None \notin Runtimes \cup Payloads \cup Addresses \cup Names \cup Configs
    /\ DiskPoll \in Nat \ {0} /\ BindPoll \in Nat \ {0} /\ ServicePoll \in Nat \ {0}
    /\ MayFail \subseteq Calls
    /\ MaxFaults \in Nat
    /\ MaxEnv \in Nat
    /\ EnvAt \subseteq PCs

VARIABLES
    disk,          \* what the disk lane finds
    address,       \* the usable addresses, None while there are none
    sysName,       \* the name the device is configured with
    env,           \* changes so far
    faults,        \* failed calls so far
    smbdFailed,    \* one of SmbdCalls has failed (a history: no step reads it)
    stopFailed,    \* one of BeforeStopCalls has failed (a history, too)
    pc,            \* where the pass is
    full,          \* it is a full service pass
    failed,        \* service_step_status
    sambaStatus,   \* manager_samba_status
    serviceDue,    \* manager_service_seconds_until_due
    bindDue,       \* manager_bind_seconds_until_due
    runtime,       \* the published runtime, None without a payload
    name,          \* MDNS_INSTANCE_NAME, SMB_NETBIOS_NAME, ...
    knownName,     \* TC_MANAGER_LAST_IDENTITY_SIGNATURE
    staged,        \* TC_MANAGER_RUNTIME_STAGED
    lastBinary,    \* TC_MANAGER_LAST_BINARY_SIGNATURE
    lastConfig,    \* TC_MANAGER_LAST_CONFIG_SIGNATURE
    pending,       \* TC_MANAGER_PENDING_CONFIG_SIGNATURE
    restart,       \* TC_MANAGER_SMBD_RESTART_REQUIRED
    reload,        \* TC_MANAGER_SMBD_RELOAD_REQUIRED
    bind,          \* TC_SMB_BIND_INTERFACES
    bindChanged,   \* TC_MANAGER_SMB_BIND_CHANGED
    previousBind,  \* TC_MANAGER_SMB_BIND_PREVIOUS
    binary,        \* the binary at TC_SMBD_BIN in RAM
    conf,          \* the configuration in TC_SMBD_CONF in RAM
    up,            \* smbd is running
    bound,         \* its TCP 445 listeners are there
    smbdBinary,    \* the binary it was started from
    smbdBind,      \* the interfaces it bound when it started
    smbdConf       \* the configuration it last loaded

world     == <<disk, address, sysName>>
failures  == <<faults, smbdFailed, stopFailed>>
bounds    == <<env, failures>>
schedule  == <<full, serviceDue, bindDue>>
status    == <<failed, sambaStatus>>
identity == <<name, knownName>>
staging   == <<staged, lastBinary, binary>>
flags     == <<restart, reload>>
binding   == <<bind, bindChanged, previousBind>>
smbd      == <<up, bound, smbdBinary, smbdBind, smbdConf>>
vars == <<world, bounds, pc, schedule, status, runtime, identity, staging, lastConfig,
          pending, flags, binding, conf, smbd>>

OrNone(S) == S \cup {None}

WorldType ==
    /\ disk \in OrNone(Runtimes)
    /\ address \in OrNone(Addresses)
    /\ sysName \in Names
    /\ env \in 0 .. MaxEnv
    /\ faults \in 0 .. MaxFaults

HistoryType == smbdFailed \in BOOLEAN /\ stopFailed \in BOOLEAN

PassType ==
    /\ pc \in PCs
    /\ full \in BOOLEAN /\ failed \in BOOLEAN /\ staged \in BOOLEAN
    /\ restart \in BOOLEAN /\ reload \in BOOLEAN /\ bindChanged \in BOOLEAN
    /\ sambaStatus \in Statuses
    /\ serviceDue \in Nat /\ bindDue \in Nat

ManagerType ==
    /\ runtime \in OrNone(Runtimes)
    /\ name \in Names /\ knownName \in OrNone(Names)
    /\ lastBinary \in OrNone(Payloads)
    /\ lastConfig \in OrNone(Configs) /\ pending \in OrNone(Configs)
    /\ bind \in OrNone(Addresses) /\ previousBind \in OrNone(Addresses)

RuntimeType ==
    /\ binary \in OrNone(Payloads) /\ conf \in OrNone(Configs)
    /\ up \in BOOLEAN /\ bound \in BOOLEAN
    /\ smbdBinary \in OrNone(Payloads)
    /\ smbdBind \in OrNone(Addresses)
    /\ smbdConf \in OrNone(Configs)

TypeOK == WorldType /\ HistoryType /\ PassType /\ ManagerType /\ RuntimeType

Init ==
    /\ disk \in OrNone(Runtimes)
    /\ address \in OrNone(Addresses)
    /\ sysName \in Names
    /\ env = 0 /\ faults = 0 /\ smbdFailed = FALSE /\ stopFailed = FALSE
    /\ pc = "idle" /\ full = FALSE
    /\ failed = FALSE /\ sambaStatus = "skipped"
    /\ serviceDue = 0 /\ bindDue = 0
    /\ runtime = None
    /\ name = sysName /\ knownName = None
    /\ staged = FALSE /\ lastBinary = None /\ lastConfig = None /\ pending = None
    /\ restart = FALSE /\ reload = FALSE
    /\ bind = None /\ bindChanged = FALSE /\ previousBind = None
    /\ binary = None /\ conf = None
    /\ up = FALSE /\ bound = FALSE
    /\ smbdBinary = None /\ smbdBind = None /\ smbdConf = None

-----------------------------------------------------------------------------
(* The surroundings: the disk lane's findings, DHCP, the owner who renames *)
(* the device, and smbd, which may die or lose its listeners.              *)

EnvStep ==
    /\ pc \in EnvAt
    /\ env < MaxEnv
    /\ env' = env + 1
    /\ UNCHANGED <<failures, pc, schedule, status, runtime, identity, staging, lastConfig,
                   pending, flags, binding, conf>>

DiskChanges(r) ==
    /\ r # disk
    /\ disk' = r
    /\ UNCHANGED <<address, sysName, smbd>>
    /\ EnvStep

AddressChanges(a) ==
    /\ a # address
    /\ address' = a
    /\ UNCHANGED <<disk, sysName, smbd>>
    /\ EnvStep

NameChanges(n) ==
    /\ n # sysName
    /\ sysName' = n
    /\ UNCHANGED <<disk, address, smbd>>
    /\ EnvStep

SmbdIsDown ==
    /\ up' = FALSE /\ bound' = FALSE
    /\ smbdBinary' = None /\ smbdBind' = None /\ smbdConf' = None

SmbdDies ==
    /\ up
    /\ SmbdIsDown
    /\ UNCHANGED world
    /\ EnvStep

SmbdLosesListeners ==
    /\ bound
    /\ bound' = FALSE
    /\ UNCHANGED <<world, up, smbdBinary, smbdBind, smbdConf>>
    /\ EnvStep

Environment ==
    \/ \E r \in OrNone(Runtimes) : DiskChanges(r)
    \/ \E a \in OrNone(Addresses) : AddressChanges(a)
    \/ \E n \in Names : NameChanges(n)
    \/ SmbdDies
    \/ SmbdLosesListeners

-----------------------------------------------------------------------------
(* Calls that may fail: the bound MaxFaults keeps failures finite.         *)

Fails(call) ==
    /\ call \in MayFail
    /\ faults < MaxFaults
    /\ faults' = faults + 1
    /\ smbdFailed' = (smbdFailed \/ call \in SmbdCalls)
    /\ stopFailed' = (stopFailed \/ call \in BeforeStopCalls)

BothFail(first, second) ==
    /\ {first, second} \subseteq MayFail
    /\ faults + 1 < MaxFaults
    /\ faults' = faults + 2
    /\ smbdFailed' = (smbdFailed \/ first \in SmbdCalls \/ second \in SmbdCalls)
    /\ stopFailed' = (stopFailed \/ first \in BeforeStopCalls \/ second \in BeforeStopCalls)

Succeeds == UNCHANGED failures

\* stop_runtime_process_by_ucomm: TERM, then KILL, then give up.
StopSmbd == Succeeds /\ SmbdIsDown

-----------------------------------------------------------------------------
(* The scheduler: the main loop.                                           *)

Later_Unclamped(seconds) == seconds - DiskPoll
Later(seconds) == IF seconds > DiskPoll THEN seconds - DiskPoll ELSE 0

Sleep(service, bindTime) ==
    /\ pc' = "idle"
    /\ serviceDue' = Later(service)
    /\ bindDue' = Later(bindTime)

SambaRuntimeReady == staged /\ binary # None /\ conf # None

\* The disk step's outcome: an unchanged runtime may have been rebuilt all the
\* same, and a failed ADISK write leaves new share rows unannounced.
DiskStep ==
    /\ pc = "idle"
    /\ failed' = FALSE
    /\ sambaStatus' = "skipped"
    /\ \E changed \in BOOLEAN :
         /\ \/ /\ Succeeds
               /\ runtime' = disk
               /\ disk # runtime => changed
            \/ /\ Fails("disk")
               /\ ~changed
               /\ runtime' \in {runtime, disk}
               /\ runtime' = None => runtime = None
         /\ \/ /\ \/ serviceDue = 0
                  \/ changed
                  \/ bindDue = 0 /\ runtime' # None /\ ~SambaRuntimeReady
               /\ full' = TRUE
               /\ pc' = "identity"
               /\ UNCHANGED <<serviceDue, bindDue, pending, flags>>
            \/ /\ serviceDue > 0 /\ ~changed /\ bindDue = 0
               /\ runtime' # None /\ SambaRuntimeReady
               /\ full' = FALSE
               /\ restart' = FALSE /\ reload' = FALSE /\ pending' = None
               /\ pc' = "bind"
               /\ UNCHANGED <<serviceDue, bindDue>>
            \/ /\ serviceDue > 0 /\ ~changed /\ bindDue = 0
               /\ runtime' = None
               /\ full' = FALSE
               /\ restart' = FALSE /\ reload' = FALSE /\ pending' = None
               /\ Sleep(serviceDue, BindPoll)
            \/ /\ serviceDue > 0 /\ ~changed /\ bindDue > 0
               /\ full' = FALSE
               /\ Sleep(serviceDue, bindDue)
               /\ UNCHANGED <<pending, flags>>
    /\ UNCHANGED <<world, env, identity, staging, lastConfig, binding, conf, smbd>>

\* A step of the lane failed: a full pass goes on with its other services, a
\* bind pass is over and due again at once.
StepFails ==
    IF full
    THEN /\ failed' = TRUE /\ sambaStatus' = "failed"
         /\ pc' = "others"
         /\ UNCHANGED <<serviceDue, bindDue>>
    ELSE /\ UNCHANGED status
         /\ Sleep(serviceDue, 0)

StepsDone ==
    IF full
    THEN /\ sambaStatus' = "ok"
         /\ pc' = "others"
         /\ UNCHANGED <<failed, serviceDue, bindDue>>
    ELSE /\ UNCHANGED status
         /\ Sleep(serviceDue, BindPoll)

\* rsync, NBNS and mDNS: only whether they failed matters to the schedule.
OtherServices ==
    /\ pc = "others"
    /\ \/ Succeeds /\ failed' = failed
       \/ Fails("others") /\ failed' = TRUE
    /\ Sleep(IF failed' THEN 0 ELSE ServicePoll, BindPoll)
    /\ UNCHANGED <<world, env, full, sambaStatus, runtime, identity, staging, lastConfig,
                   pending, flags, binding, conf, smbd>>

-----------------------------------------------------------------------------
(* The device's names: tc_manager_run_identity_step.  A change rewrites    *)
(* smb.conf and signals smbd before the Samba step runs.                   *)

Signature(r, b, n) == [runtime |-> r, bind |-> b, name |-> n]

AfterIdentity == pc' = IF runtime = None THEN "noPayload" ELSE "stage"

\* The names may be refreshed by then when the refresh is given up.
Identity ==
    /\ pc = "identity"
    /\ AfterIdentity
    /\ \/ /\ Fails("identity")
          /\ failed' = TRUE
          /\ name' \in {name, sysName}
          /\ UNCHANGED <<knownName, lastConfig, conf, smbdConf>>
       \/ /\ \/ knownName \in {None, sysName}
             \/ runtime = None \/ conf = None
          /\ name' = sysName
          /\ knownName' = sysName
          /\ Succeeds
          /\ UNCHANGED <<failed, lastConfig, conf, smbdConf>>
       \/ /\ knownName \notin {None, sysName}
          /\ runtime # None /\ conf # None
          /\ name' = sysName
          /\ \/ /\ Fails("render")
                /\ failed' = TRUE
                /\ UNCHANGED <<knownName, lastConfig, conf, smbdConf>>
             \/ /\ up /\ Fails("reload")
                /\ failed' = TRUE
                /\ conf' = Signature(runtime, bind, sysName)
                /\ UNCHANGED <<knownName, lastConfig, smbdConf>>
             \/ /\ Succeeds
                /\ conf' = Signature(runtime, bind, sysName)
                /\ lastConfig' = conf'
                /\ smbdConf' = IF up THEN conf' ELSE smbdConf
                /\ knownName' = sysName
                /\ UNCHANGED failed
    /\ UNCHANGED <<world, env, schedule, sambaStatus, runtime, staging, pending, flags,
                   binding, up, bound, smbdBinary, smbdBind>>

NoPayload ==
    /\ pc = "noPayload"
    /\ staged' = FALSE /\ lastBinary' = None /\ lastConfig' = None
    /\ pending' = None /\ restart' = FALSE /\ reload' = FALSE
    /\ \/ /\ StopSmbd
          /\ sambaStatus' = "no_payload"
          /\ UNCHANGED failed
       \/ /\ up /\ Fails("stop")
          /\ failed' = TRUE /\ sambaStatus' = "failed"
          /\ UNCHANGED smbd
    /\ pc' = "others"
    /\ UNCHANGED <<world, env, schedule, runtime, identity, binary, binding, conf>>

-----------------------------------------------------------------------------
(* Staging: tc_manager_stage_samba_runtime_files_if_needed.                *)

BinaryChanged == staged /\ PayloadOf[runtime] # lastBinary

StageNeeded == ~staged \/ PayloadOf[runtime] # lastBinary \/ binary = None

StageUnchanged ==
    /\ ~StageNeeded
    /\ restart' = FALSE /\ reload' = FALSE /\ pending' = None
    /\ pc' = "bind"
    /\ Succeeds
    /\ UNCHANGED <<status, staging, lastConfig, conf, smbd>>

\* The new binary is recorded before smbd runs it.
StageCopies_ReloadOnly ==
    /\ StageNeeded
    /\ binary' = PayloadOf[runtime] /\ lastBinary' = PayloadOf[runtime] /\ staged' = TRUE
    /\ restart' = FALSE
    /\ reload' = up
    /\ pending' = None
    /\ pc' = "bind"
    /\ Succeeds
    /\ UNCHANGED <<status, lastConfig, conf, smbd>>
StageCopies ==
    /\ StageNeeded
    /\ binary' = PayloadOf[runtime] /\ lastBinary' = PayloadOf[runtime] /\ staged' = TRUE
    /\ restart' = (up /\ BinaryChanged)
    /\ reload' = (up /\ ~BinaryChanged)
    /\ pending' = None
    /\ pc' = "bind"
    /\ Succeeds
    /\ UNCHANGED <<status, lastConfig, conf, smbd>>

\* Without an smbd in the payload directory nothing is staged; a failed copy
\* deletes the RAM runtime once its processes are stopped.
StageFails ==
    /\ \/ /\ Fails("stage")
          /\ UNCHANGED <<staging, lastConfig, conf, smbd>>
       \/ /\ StageNeeded
          /\ Fails("stage")
          /\ staged' = FALSE /\ lastBinary' = None /\ lastConfig' = None
          /\ binary' = None /\ conf' = None
          /\ SmbdIsDown
       \/ /\ StageNeeded
          /\ BothFail("stage", "reset")
          /\ \/ /\ UNCHANGED <<conf, smbd>>
                /\ binary' \in {binary, PayloadOf[runtime]}
             \/ /\ SmbdIsDown
                /\ conf' \in {conf, None}
                /\ binary' \in {binary, PayloadOf[runtime], None}
          /\ UNCHANGED <<staged, lastBinary, lastConfig>>
    /\ restart' = FALSE /\ reload' = FALSE /\ pending' = None
    /\ failed' = TRUE /\ sambaStatus' = "failed"
    /\ pc' = "others"

Stage ==
    /\ pc = "stage"
    /\ StageUnchanged \/ StageCopies \/ StageFails
    /\ UNCHANGED <<world, env, schedule, runtime, identity, binding>>

-----------------------------------------------------------------------------
(* The bind interfaces: tc_manager_reconcile_smb_bind_interfaces.          *)

\* Without a change there is nothing left to do in a bind pass.
BindUnchanged ==
    /\ address \in {None, bind}
    /\ bindChanged' = FALSE /\ previousBind' = None
    /\ Succeeds
    /\ UNCHANGED <<bind, restart>>
    /\ IF full
       THEN pc' = "render" /\ UNCHANGED <<status, serviceDue, bindDue>>
       ELSE Sleep(serviceDue, BindPoll) /\ UNCHANGED status

BindChanges ==
    /\ address \notin {None, bind}
    /\ bind' = address
    /\ bindChanged' = TRUE /\ previousBind' = bind
    /\ restart' = TRUE
    /\ pc' = "render"
    /\ Succeeds
    /\ UNCHANGED <<status, serviceDue, bindDue>>

\* The probe fails, or the shares turn out not to be mounted: the old
\* interfaces stay.
BindFails ==
    /\ \/ Fails("probe")
       \/ bind # None /\ address \notin {None, bind} /\ Fails("validateBind")
    /\ bindChanged' = FALSE /\ previousBind' = None
    /\ UNCHANGED <<bind, restart>>
    /\ StepFails

Bind ==
    /\ pc = "bind"
    /\ BindUnchanged \/ BindChanges \/ BindFails
    /\ UNCHANGED <<world, env, full, runtime, identity, staging, lastConfig, pending,
                   reload, conf, smbd>>

-----------------------------------------------------------------------------
(* smb.conf: tc_manager_render_smb_conf_if_needed.                         *)

Wanted == Signature(runtime, bind, name)

RenderNeeded_MissingOnly == conf = None
RenderNeeded == Wanted # lastConfig \/ conf = None

RenderUnchanged ==
    /\ ~RenderNeeded
    /\ pc' = "apply"
    /\ Succeeds
    /\ UNCHANGED <<status, serviceDue, bindDue, pending, flags, binding, conf>>

RenderWrites_NoReload ==
    /\ RenderNeeded
    /\ bind # None
    /\ conf' = Wanted
    /\ pending' = Wanted
    /\ pc' = "apply"
    /\ Succeeds
    /\ UNCHANGED <<status, serviceDue, bindDue, flags, binding>>
RenderWrites_Restart ==
    /\ RenderNeeded
    /\ bind # None
    /\ conf' = Wanted
    /\ pending' = Wanted
    /\ restart' = (restart \/ up)
    /\ pc' = "apply"
    /\ Succeeds
    /\ UNCHANGED <<status, serviceDue, bindDue, reload, binding>>
RenderWrites ==
    /\ RenderNeeded
    /\ bind # None
    /\ conf' = Wanted
    /\ pending' = Wanted
    /\ reload' = (reload \/ up)
    /\ pc' = "apply"
    /\ Succeeds
    /\ UNCHANGED <<status, serviceDue, bindDue, restart, binding>>

\* tc_manager_restore_smb_bind_after_config_failure: a bind change that could
\* not be rendered has to be found again.
RestoreBind_Kept == bindChanged' = FALSE /\ previousBind' = None /\ UNCHANGED bind
RestoreBind ==
    IF bindChanged
    THEN bind' = previousBind /\ bindChanged' = FALSE /\ previousBind' = None
    ELSE UNCHANGED binding

\* Without interfaces there is nothing to render, at no fault of a call.
RenderFails ==
    /\ RenderNeeded
    /\ IF bind = None THEN Succeeds ELSE Fails("render")
    /\ RestoreBind
    /\ StepFails
    /\ UNCHANGED <<pending, flags, conf>>

Render ==
    /\ pc = "render"
    /\ RenderUnchanged \/ RenderWrites \/ RenderFails
    /\ UNCHANGED <<world, env, full, runtime, identity, staging, lastConfig, smbd>>

-----------------------------------------------------------------------------
(* smbd: tc_manager_apply_smbd_runtime_changes and                         *)
(* tc_manager_start_smbd_if_needed.                                        *)

Commit ==
    /\ lastConfig' = IF pending = None THEN lastConfig ELSE pending
    /\ pending' = None
    /\ restart' = FALSE /\ reload' = FALSE

\* Restarting: smbd is stopped first and started by the next step.
ApplyRestart ==
    /\ restart
    /\ \/ /\ StopSmbd
          /\ reload' = FALSE
          /\ pc' = "start"
          /\ UNCHANGED <<status, serviceDue, bindDue>>
       \/ /\ up /\ Fails("stop")
          /\ StepFails
          /\ UNCHANGED <<reload, smbd>>
    /\ UNCHANGED <<lastConfig, pending, restart>>

\* The parent smbd loads smb.conf again on SIGHUP and keeps its sockets.
ApplyReload ==
    /\ ~restart /\ reload /\ up /\ bound
    /\ \/ /\ Succeeds
          /\ smbdConf' = conf
          /\ UNCHANGED <<up, bound, smbdBinary, smbdBind>>
          /\ Commit
          /\ StepsDone
       \/ /\ Fails("reload")
          /\ SmbdIsDown
          /\ reload' = FALSE
          /\ pc' = "start"
          /\ UNCHANGED <<status, serviceDue, bindDue, lastConfig, pending, restart>>
       \/ /\ BothFail("reload", "stop")
          /\ StepFails
          /\ UNCHANGED <<lastConfig, pending, flags, smbd>>

ApplyStart ==
    /\ ~restart
    /\ ~(reload /\ up /\ bound)
    /\ pc' = "start"
    /\ Succeeds
    /\ UNCHANGED <<status, serviceDue, bindDue, lastConfig, pending, flags, smbd>>

Apply ==
    /\ pc = "apply"
    /\ ApplyRestart \/ ApplyReload \/ ApplyStart
    /\ UNCHANGED <<world, env, full, runtime, identity, staging, binding, conf>>

AlreadyServing_AnySmbd ==
    /\ up \/ binary = None \/ conf = None
    /\ Commit
    /\ StepsDone
    /\ Succeeds
    /\ UNCHANGED <<name, smbd>>
AlreadyServing ==
    /\ \/ up /\ bound
       \/ ~up /\ (binary = None \/ conf = None)
    /\ Commit
    /\ StepsDone
    /\ Succeeds
    /\ UNCHANGED <<name, smbd>>

\* smbd runs without its listeners: it is stopped, then started again.
StopUnbound ==
    /\ up /\ ~bound
    /\ \/ /\ StopSmbd
          /\ UNCHANGED <<pc, status, serviceDue, bindDue>>
       \/ /\ Fails("stop")
          /\ StepFails
          /\ UNCHANGED smbd
    /\ UNCHANGED <<lastConfig, pending, flags, name>>

\* A bind pass has not refreshed the names yet
\* (tc_manager_refresh_runtime_identity_for_recovery).
LaunchSmbd ==
    /\ ~up /\ binary # None /\ conf # None
    /\ name' = IF full THEN name ELSE sysName
    /\ \/ /\ Succeeds
          /\ up' = TRUE /\ bound' = TRUE
          /\ smbdBinary' = binary /\ smbdBind' = conf.bind /\ smbdConf' = conf
          /\ Commit
          /\ StepsDone
       \/ /\ Fails("validate") \/ Fails("start")
          /\ StepFails
          /\ UNCHANGED <<lastConfig, pending, flags, smbd>>
       \/ /\ BothFail("start", "stop")
          /\ up' = TRUE /\ bound' = FALSE
          /\ smbdBinary' = binary /\ smbdBind' = conf.bind /\ smbdConf' = conf
          /\ StepFails
          /\ UNCHANGED <<lastConfig, pending, flags>>

Start ==
    /\ pc = "start"
    /\ AlreadyServing \/ StopUnbound \/ LaunchSmbd
    /\ UNCHANGED <<world, env, full, runtime, knownName, staging, binding, conf>>

-----------------------------------------------------------------------------
Manager ==
    \/ DiskStep \/ Identity \/ NoPayload \/ Stage \/ Bind \/ Render \/ Apply \/ Start
    \/ OtherServices

Next == Manager \/ Environment

Spec == Init /\ [][Next]_vars

FairSpec == Spec /\ WF_vars(Manager)

-----------------------------------------------------------------------------
(* Safety.                                                                 *)

\* Whenever the manager records a configuration as applied while smbd runs,
\* smbd has loaded just that one.  A signature recorded too early would make
\* every later pass skip the change.
CommitsAreLoaded ==
    [][lastConfig' \notin {lastConfig, None} /\ up' => smbdConf' = lastConfig']_vars

\* The interfaces the manager believes in were rendered: those of smb.conf, or
\* of the configuration it last applied.  If they were neither, the next pass
\* would see no change and never restart smbd on them.
BindIsRendered ==
    pc = "idle" /\ conf # None /\ lastConfig # None
        => bind \in {conf.bind, lastConfig.bind}

\* A full pass that reports Samba ok has applied the configuration of the
\* published runtime, the current interfaces and the current names.
OkIsCommitted == sambaStatus = "ok" => lastConfig = Wanted

\* And the smbd that runs after it listens on those interfaces with that
\* configuration loaded, whatever failed in this or any earlier pass, as long as
\* smbd itself could be validated, signalled, stopped and started (a validation
\* that fails loses more: manager.sh:1183).
OkServesConfig ==
    sambaStatus = "ok" /\ up /\ ~smbdFailed => smbdConf = Wanted /\ smbdBind = bind

\* And it runs the payload's binary, whatever failed, as long as no pass was cut
\* short between recording a new binary and stopping smbd for it (RestartsForBinary
\* is about those that are).
OkServesBinary ==
    sambaStatus = "ok" /\ up /\ ~stopFailed => smbdBinary = PayloadOf[runtime]

\* "Config-only Samba changes normally use a parent-only SIGHUP so active
\* sessions can survive": no step of the manager stops an smbd that listens, on
\* the interfaces and from the binary it should, unless a call failed or the
\* payload is gone.
SessionsSurvive ==
    [][up /\ bound /\ ~up' /\ env' = env /\ faults' = faults /\ runtime # None
        => smbdBinary # PayloadOf[runtime] \/ smbdBind # bind]_vars

-----------------------------------------------------------------------------
(* Liveness.                                                               *)

Serving ==
    /\ up /\ bound
    /\ smbdConf = Signature(disk, address, sysName)
    /\ smbdBind = address
    /\ smbdBinary = PayloadOf[disk]

\* Once the surroundings settle, smbd serves what they are, or nothing at all
\* without a payload.
ServesEventually ==
    <>[](IF disk = None THEN ~up ELSE address # None => Serving)

\* "smbd is restarted when its binary or bind interfaces change" (DETAIL.md),
\* by the pass that sees the change or, if that one fails, by a later one.
RestartsForBinary ==
    <>[](up /\ disk # None => smbdBinary = PayloadOf[disk])

-----------------------------------------------------------------------------
(* The inductive invariant behind the safety properties.                   *)

\* A pass is in the Samba lane only with a payload, and stops smbd only without.
PayloadInv ==
    /\ pc \in {"stage", "bind", "render", "apply", "start"} => runtime # None
    /\ pc = "noPayload" => runtime = None

\* smb.conf was rendered for some interfaces, so the manager has interfaces; a
\* first set that is given up again was never rendered.
InterfacesInv ==
    /\ conf # None => bind # None
    /\ pc = "render" /\ bindChanged /\ previousBind = None => conf = None

\* What is about to be applied is what this pass wants, rendered now or before.
PendingInv ==
    /\ pc \in {"bind", "render"} => pending = None
    /\ pc \in {"apply", "start"} =>
         \/ pending = None /\ lastConfig = Wanted
         \/ pending = Wanted /\ conf = Wanted /\ conf # None

\* A running smbd is signalled, stopped or not listening before a pending
\* configuration is committed.
LoadInv ==
    /\ pc = "apply" /\ pending # None /\ up => reload
    /\ pc = "start" /\ pending # None => ~(up /\ bound)

\* BindIsRendered, also in the middle of a pass: a change that is not rendered
\* yet replaces interfaces that were.
RenderedInv ==
    conf # None /\ lastConfig # None =>
        (IF pc = "render" /\ bindChanged THEN previousBind ELSE bind)
            \in {conf.bind, lastConfig.bind}

OkInv == sambaStatus = "ok" => pc \in {"others", "idle"} /\ lastConfig = Wanted /\ runtime # None

\* smb.conf holds the configuration last applied, or one that this pass will
\* find wanting and render again.
ConfIsApplied == conf = None \/ lastConfig = None \/ conf = lastConfig

ConfInv ==
    /\ pc \in {"identity", "stage"} => full
    /\ conf # None /\ ~(pc = "render" /\ bindChanged) => conf.bind = bind
    /\ pc \in {"apply", "start"} => conf = Wanted
    /\ pc \in {"idle", "others", "identity"} => ConfIsApplied
    /\ pc \in {"bind", "render"} /\ ~full => ConfIsApplied
    /\ pc \in {"stage", "bind", "render"} =>
         ConfIsApplied \/ lastConfig.runtime # runtime \/ lastConfig.name # name

\* The binary in RAM is the one staged last; from the staging on, this payload's.
BinaryInv ==
    /\ staged => binary = lastBinary
    /\ pc \in {"bind", "render", "apply", "start"} => staged /\ (full => binary = PayloadOf[runtime])
    /\ sambaStatus = "ok" => binary = PayloadOf[runtime]

\* A running smbd is the binary in RAM, on the manager's interfaces and with
\* smb.conf loaded, or this pass is about to restart or to signal it; and it
\* restarts none that is right.
SmbdInv ==
    /\ up => staged /\ conf # None /\ lastConfig # None
    /\ pc = "bind" /\ ~full => ~restart
    /\ up /\ smbdBinary # binary => restart /\ pc \in {"bind", "render", "apply"}
    /\ up /\ smbdBind # bind => restart /\ pc \in {"render", "apply"}
    /\ up /\ smbdConf # conf => \/ pc \in {"stage", "bind", "render"} /\ conf # lastConfig
                                \/ pc = "apply" /\ pending # None
                                \/ pc = "start" /\ pending # None /\ ~bound
    /\ up /\ restart /\ pc \in {"bind", "render", "apply"} =>
         smbdBinary # PayloadOf[runtime] \/ smbdBind # bind

\* The three hold as long as no call fails between requiring a restart and
\* starting smbd.
ServedInv == ConfInv /\ BinaryInv /\ SmbdInv

RestartsGoThrough == MayFail \subseteq {"disk", "identity", "reload", "others"}

\* Behind OkServesConfig, until one of SmbdCalls fails: outside apply and start
\* smb.conf is the configuration applied last, and a running smbd has it loaded,
\* on the interfaces that a failed rendering would put back.
KeptBind == IF pc = "render" /\ bindChanged THEN previousBind ELSE bind

ConfigServedInv ==
    /\ IF pc \in {"apply", "start"} THEN conf = Wanted ELSE ConfIsApplied
    /\ conf # None => conf.bind = KeptBind
    /\ up => conf # None
    /\ pc = "render" /\ bindChanged => restart
    /\ up /\ smbdBind # KeptBind => restart /\ pc = "apply"
    /\ up /\ smbdConf # conf =>
         pending # None /\ (pc = "apply" \/ (pc = "start" /\ ~bound))

\* Behind OkServesBinary, until one of BeforeStopCalls fails: a running smbd was
\* started from the binary in RAM, or this pass is about to restart it.
BinaryServedInv ==
    /\ BinaryInv
    /\ pc \in {"identity", "stage"} => full
    /\ up => staged /\ conf # None
    /\ pc = "bind" /\ ~full => ~restart
    /\ up /\ smbdBinary # binary => restart /\ pc \in {"bind", "render", "apply"}

Inv == TypeOK /\ PayloadInv /\ InterfacesInv /\ PendingInv /\ LoadInv /\ RenderedInv /\ OkInv

=============================================================================
