# TimeCapsuleSMB: TLA+ models and proofs

TimeCapsuleSMB (the CappagePatch repository) puts a current Samba on an Apple
AirPort Time Capsule and keeps it running there. This directory models the parts of it
that run unattended on the device and the operations a host carries out on it, checks them
with TLC and proves with TLAPS every safety property that the passing runs check. All paths below are relative to the repository.

## 1. The system

| Part | Where | State it keeps | What it does |
|---|---|---|---|
| Boot | `src/timecapsulesmb/assets/boot/samba4/{rc.local,boot.sh}` | none of its own | stops the old runtime, prepares the RAM disk, starts the manager once |
| Runtime manager | `.../manager.sh`, `.../common.d/*.sh` | shell variables of one long-lived process; files under `/mnt/Memory/samba4` | a loop of passes; see below |
| Metadata migrator | `.../migrate.sh`, `build/patches/samba4x/0038-*.patch` (`tc_xattr_hfs_migrate.c`) | the legacy `xattr.tdb`, native HFS attributes | two-phase copy / cleanup, run by deploy and by the manager |
| mDNS advertiser | `build/native/mdns` | responder state, announced records | announces SMB, AFP, ADISK, printer records |
| NBNS responder | `build/native/nbns` | sockets | answers NetBIOS names |
| Service helper, telemetry | `build/native/{service,telemetry}` | lock files, a debug child | socket and process probes; signed telemetry and debug jobs |
| Samba patches | `build/patches/samba4x` | smbd | native HFS metadata, bounded `aio_fork` children, memory limits |
| Host application | `src/timecapsulesmb` (Python) | configuration, run directories, device over SSH / ACP | deploy, activate, reboot, flash, doctor, uninstall |
| macOS application | `macos/TimeCapsuleSMB` (Swift) | profiles, operation coordinator, helper process | drives the Python helper, one operation at a time per lane |

### 1.1 The manager's pass

Every 10 s `manager.sh` runs one pass, as a single sequential process:

1. *disk step* (`tc_manager_run_disk_step`): read Apple's `MaSt` volume table; when its
   signature is new, or a volume still to be migrated is mounted, or diskd dropped a
   shared volume, rebuild: claim the volumes, resolve the payload, migrate legacy
   metadata, build the share rows, write `adisk.tsv`;
2. *printer step*: debounce the USB printer signature;
3. *full services* every 30 s, or at once after a change or a failure: identity, Samba
   (stage binaries, probe bind addresses, render `smb.conf`, reload or restart smbd), rsync,
   NBNS, mDNS, NBNS readiness; without a payload the Samba lane is stopped instead;
4. otherwise *bind only* every 10 s: bind addresses, config, smbd.

Everything else happens between two of its steps: disks are attached, idled, mounted late
or ejected; network addresses change; smbd or the advertiser dies; a call fails; the
device reboots or a deploy kills the manager. The components share state only through
the manager's variables, the RAM disk's files, process presence and sockets.

### 1.2 The host's operations

The Python application runs one operation at a time against a device, from a terminal
(`cli/`) or for the macOS app (`app/ops/`, one request each, with confirmations between
requests). Everything it knows of the device comes from single SSH commands, ACP
requests and connection attempts, each of which can fail before or after it took effect:

* *maintenance* (deploy, uninstall, activate, fsck) stops the device's runtime, replaces or
  removes its files, reboots it and waits for what the boot starts;
* *flash* reads both firmware banks of a NetBSD 4 device into a backup directory, plans a
  patch or a restore from the files, and writes a bank in a later request;
* *access* (configure, update, set-ssh, reachability) opens or closes SSH by a persisted
  flag and a reboot, and keeps target, password and settings in one `.env` file;
* *doctor* looks at the device step by step and says what is wrong, telling a device that
  is starting up from one that is broken.

They share the device, its `.env` file, the reboot and its observation, and the transport.

### 1.3 What is hard here

* A pass takes from seconds to hours (a migration), and reads the world several times.
* A failed step is retried only because some variable still says there is work to do.
  Flags of one pass (`TC_MANAGER_DISK_STATE_CHANGED`, `TC_MANAGER_SMBD_RESTART_REQUIRED`)
  are lost with the pass; signatures survive it. A fact recorded too early is a lost retry,
  a fact never recorded is endless work.
* Serving the wrong thing is worse than serving nothing: a share of a volume whose metadata
  was not migrated yet, an advertised share that does not exist, a config for a volume that
  is gone.
* The host decides on what it saw and acts on what is there by then: a port that answers
  may belong to a device that is about to reboot, a backup may be older than the firmware,
  a confirmation may have been given for another device, a mounted volume may be gone.
* A lost answer leaves open whether the request was carried out; every operation can be
  killed anywhere and must be repeatable.
* Doctor must neither alarm about a device that is booting nor excuse a fault as a boot.

### 1.4 Every component: state, hazards, what makes it correct

| Component | Operations | Hard behaviour | Correct when |
|---|---|---|---|
| Manager, disk lane | read MaSt, wake, claim, resolve, migrate, publish, advertise | disks change between any two calls; partial failures; restarts | nothing unmigrated is shared, what is published is whole and belongs to the confirmed topology, memory of migrations is true, the lane comes to rest |
| Manager, Samba lane and scheduler | stage, probe, render, reload or restart, start, reset, recover | signatures of a pass against flags of a pass; smbd dies; addresses and names change | remembered signatures describe smb.conf and the running smbd; sessions are not torn down without need; in the end smbd serves the current state |
| Manager, other lanes | identity, printer, mDNS, NBNS, rsync, telemetry | one-pass flags, no address yet, helpers that die | a change is announced once and in the end; a failure is retried |
| Boot, cleanup | stop, unmount, prepare, start | a manager that does not stop | one manager, one runtime |
| Metadata migrator and wrapper | copy, verify, retire, report by signal | crash between two writes; late signal | a record is retired only once its native copy is durable; migrating twice is harmless |
| Samba, bounded `aio_fork` | send, schedule, answer, free, sweep | re-entrant scheduling, dying workers, descriptor reuse | counters exact, queue served in order, an answer reaches its own request only |
| Samba, durable handles and metadata | reconnect, resume key, streams | version skew between stored and live state | a reconnect sees the file it left |
| mDNS / NBNS responders | probe, announce, goodbye, rebind | links come and go while announcing | records match the links; no reply for an address that is gone |
| Telemetry daemon and shell | heartbeat, debug job, cleanup | a child that outlives its parent; lock inheritance | one job at a time; no file is removed under a job |
| Host deploy, activation, uninstall | stop, upload, migrate, verify, switch, reboot | any remote call may be the last one | the device boots either the old or the new payload, with all its metadata |
| Host reboot and reachability | request, wait down, wait up | network loss looks like a reboot | a deploy that reports a verified runtime has one |
| Host flash | back up, compare, write, read back | a cut write, a stale backup | a write leaves a bank that boots, and is the one confirmed |
| Host access: configure, update, set-ssh | probe, enable, sign in, save, disable, verify | a device that reboots between two looks, confirmations over several requests | no reboot without consent, what is saved works, reports are true |
| Host doctor | some fifty checks with retries, second backends, tunnel, grace | the device boots or loses parts under the checks | no false alarm, no fault missed, "wait" only where waiting helps (which it breaks, section 4.1) |
| Host discovery, xattr repair | merge answers, walk a tree | stale answers | order of answers does not matter |
| macOS coordinator, client, helper | run, event, confirm, cancel, clear | events and completion interleave with user actions | one operation per device; a run ends exactly once |
| macOS profiles and registry | stage, commit, roll back | three stores written in turn | password, config and registry agree |

## 2. Plan

In this order; what is done is marked.

1. **`ManagerDisk`** (done): the disk lane and the disks it depends on.
2. **`ManagerSamba`** (done): the Samba lane and the scheduler.
3. **`AioService`, `AioFork`** (done): what the pool promises, and the pool that implements it.
4. **`HostDevice`, `HostReboot`, `HostDeploy`, `HostMaintain`, `Host`** (done): the maintenance
   operations against a device that boots, blinks and loses volumes.
5. **`FlashImages`, `FlashBanks`** (done): what is concluded from two banks, and the
   operations over them.
6. **`DoctorDevice`, `DoctorNetwork`, `Doctor`** (done): a run of doctor.
7. **`AccessDevice`, `EnvFile`, `SshAccess`, `SetSsh`, `Configure`, `Access`** (done).
8. **Proofs about 1 to 7** (done): every safety property of every passing run is a theorem.
9. `OperationCoordinator` with `BackendRun` (Swift: lanes, client, runner, helper): the
   abstract specification is one operation at a time per device, each ending once.
10. The manager's remaining lanes (printer, NBNS, rsync), the migrator per record with
    crashes at every write, and the native daemons' schedules.

Bounds stay small enough for minutes: two disks, payloads, addresses, workers, devices, backup
directories; a handful of changes and failures.

## 3. Modules and the code

| Module | Models | Checked by | Proved in |
|---|---|---|---|
| `ManagerDisk` | `manager.sh` (disk step), `40-storage-discovery.sh` | `MCManagerDisk` | `ManagerDiskProofs` |
| `ManagerSamba` | `manager.sh` (Samba lane, main loop), `45-`, `50-`, `70-`, `80-*.sh` | `MCManagerSamba` | `ManagerSambaProofs` |
| `AioService` | what callers of the pool rely on | as a property of `AioFork` | with `AioFork` |
| `AioFork` | patches 0031 and 0034 of Samba's `vfs_aio_fork` | `MCAioFork` | `AioForkProofs` |
| `HostDevice` | the device under maintenance: files, runtime, mounts, records, SSH (`deploy/`, `device/`, `transport/ssh.py`, `rc.local`) | `MCHost` | `HostProofs` |
| `HostReboot` | `services/reboot.py`, `services/runtime_verification.py`: the run, reboot and result all operations share | `MCHost` | `HostProofs` |
| `HostDeploy` | `services/deploy.py`, `deploy/planner.py`, `deploy/executor.py`, the payload-home selection of `device/storage.py` | `MCHost` | `HostProofs` |
| `HostMaintain` | `services/maintenance.py`, `services/activation.py`, `app/ops/maintenance.py`, their commands | `MCHost` | `HostProofs` |
| `Host` | one operation after another; specification and properties | `MCHost` | `HostProofs` |
| `FlashImages` | `flash.py`, `flash_workflow.py`, `flash_payloads.py`, `apple_firmware.py`, as operators | with `FlashBanks` | with `FlashBanks` |
| `FlashBanks` | `services/flash.py`, `app/ops/flash.py`, `cli/flash.py` | `MCFlash` | `FlashProofs` |
| `DoctorDevice` | the device as `device/probe.py` reports it, as operators | with `Doctor` | with `Doctor` |
| `DoctorNetwork` | `checks/network_plan.py`, `checks/smb.py`, snapshot evaluation, as operators | with `Doctor` | with `Doctor` |
| `Doctor` | `checks/doctor.py`, `checks/doctor_steps.py` | `MCDoctor` | `DoctorProofs` |
| `AccessDevice` | ports, dbug flag, password of a device (external) | with `Access` | with `Access` |
| `EnvFile` | `core/config.py`, `core/smb_policy.py`, the merge in `services/configure.py` | with `Access` | with `Access` |
| `SshAccess` | the command in progress, confirmations, `services/acp_ssh.py`, `integrations/acp.py` | with `Access` | with `Access` |
| `SetSsh` | `services/set_ssh.py` and its front ends | with `Access` | with `Access` |
| `Configure` | `services/configure.py` and its front ends | with `Access` | with `Access` |
| `Access` | `services/reachability.py`; specification and properties | `MCAccess` | `AccessProofs` |

Definitions named `Something_Variant` next to a definition `Something` are mutations of it:
what a plausible bug would make of it. No specification uses them; each shows that a
property is able to fail (section 4).

### 3.1 `ManagerDisk`

*State.* The disks (`plugged` = rows of MaSt, `mounted`, `claimed`), what is on them
(`records[p]`: volumes with unretired records in `p`'s `xattr.tdb`), the manager's variables
under their own names where TLA+ allows it (the declarations name the others), the
advertiser and the ADISK rows it was launched with, and `pc`, the step of the pass.

*Steps.* `ReadMast` and `Debounce` are `tc_manager_reconcile_disk_state`'s two reads and its
decision; `CheckActiveMastUsers` wakes shared volumes whose users were dropped;
`ActivateTopology` .. `BuildShareState` are `tc_manager_apply_runtime_from_topology`, split
exactly where the code calls something slow and reads the disks anew; `RunServices` is the rest of
the pass as far as it concerns the advertiser. `Environment` changes the disks, kills the
advertiser or restarts the manager.

*Abstractions.* A volume is a MaSt row; its device, name and UUID do not change separately.
Share rows and ADISK rows always list the same volumes and are one set. The 30 s service
timer is a choice: it may be due in any pass. Waking and claiming one volume after the other
is one step with any subset succeeding.

### 3.2 `ManagerSamba`

*State.* What the disk lane publishes (`runtime`), the network's address and the device's
name, two histories of failed calls that no step reads (`smbdFailed`, `stopFailed`), the manager's signatures and one-pass flags, the two RAM files that matter
(`binary`, `conf`), and smbd: running, listening, and the binary, interfaces and
configuration it really has.

*Steps.* One per step of the pass: `DiskStep`, `Identity`, `NoPayload`, `Stage`, `Bind`,
`Render`, `Apply`, `Start`, `OtherServices`; the scheduler's choice of disk-only, bind-only
or full pass and its poll counters are in the first and the last of them. `Identity` may fail
where `manager.sh:1519` and `1522` do: the pass goes on, the names refreshed by then or not. A third return,
at `1548`, is not modelled because it cannot fail: `tc_manager_write_identity_signature` assigns a
variable and returns 0 (`80-manager-reconcile.sh:46-49`).

*Abstractions.* A configuration is the signature the manager computes (runtime, interfaces,
name): two configurations that differ elsewhere are the same here. A binary is named after
its payload. `DiskStep` changes `runtime` freely, as `ManagerDisk` may, and sets the
disk-changed flag when it does; that flag also stands for a changed printer and for a
rebuild that changed nothing. The 445 check passes whenever smbd listens at all, as in the
code: Samba ignores interfaces it could not bind and the loopback listener satisfies the
probe.

### 3.3 `AioService` and `AioFork`

*State.* smbd's worker list and its two counters, the FIFO of waiting requests, each
request's state, the read event registered per descriptor (`watch`), and each worker
process with what is in its socket, both ways. Descriptors are reused as the kernel does.

*Steps.* smbd runs one handler at a time: `pc` is the event loop, the scheduling loop, or a
caller's callback run from inside it (`tevent_req_done` of a request run at once).
`aio_fork_schedule_pending` calls itself through a worker's destructor; the nested call
stops where the outer one would, so one loop stands for both. `Send` is `aio_fork_send` with
its four ends; `ScheduleDispatch`, `ScheduleSync`, `ScheduleStops` the scheduling loop;
`DoneAnswer`, `DoneFailed` are `aio_fork_done`; `FreeQueued`, `FreeActive` the request's
destructor; `Sweep` the cleanup timer's two rounds; `Work` and `Die` the worker process.

*Abstractions.* Data, offsets and the shared mapping are one value: a request's own result,
another's, or an error. Not modelled: an allocation failure of the cleanup timer, the share
being disconnected with requests under way, a callback that frees other requests while the
queue is being scheduled, and the erratic testing mode.

### 3.4 `HostDevice` .. `Host`

*State.* Per volume: mounted or not, the payload's files (`none`, `old`, `new`, `torn`), which
of them a power cut would lose (`dirty`), legacy metadata records and their native copies;
flash files; the manager and smbd with the files they were started from; the link; and the host's run:
operation, step, options, what it resolved, what is left to do, and the last result shown.

*Steps.* `Remote(Effect)` is one call of `transport/ssh.py`: it does `Effect` and goes on, fails
before it, or fails after it. Each operation is its sequence of such calls in the code's
order, `UploadPayloadFile` one file at a time behind its mount guard, `CopyMetadata` and
`CleanupMetadata` volume by volume. `HostReboot` has the request over ACP with its fall back to SSH and
the observation of down and up. The device moves on its own: it boots,
the manager starts and serves, diskd takes mounts back, power and link fail.

*Abstractions.* A file is its version. A wait sees what is there whenever it looks, and
gives up whenever it is not. One assumption on time: a boot outlasts two host steps that
follow one another within seconds, so it ends only while the host waits for it or for its
user (`Waiting`, `BootEnds`). The firmware decides whether a boot starts the runtime by itself.
Not modelled: two hosts at once; the contents of rendered files.

*What the model also reaches, and no property excludes*: a deploy to an external disk
with an old payload left on the internal one, which the manager then prefers
(`manager.sh:388`); a disk check of a volume that is still mounted because it could not be
unmounted (`maintenance.py:130`); a user who declines the reboot after a deploy is left with a
stopped runtime; a payload on a volume that stays unmounted survives a verified uninstall
(`device/probe.py:2482`); the command line migrates with the mode `stream` although the configuration
says `netatalk` (`services/deploy.py:816`, against `FAQ.md:320`).

### 3.5 `FlashImages`, `FlashBanks`

*State.* The device's two banks (an image, an unreadable or a torn content), its ACP
checksums, the image it runs; backup directories with two raw files and a manifest; the
template cache and catalog; the command in progress with its plan; the app's approved
confirmation. One history variable, `stale`: whether a write has begun since a directory was saved,
from that directory or from another.

*Steps.* `FlashImages` is pure: which bank is valid, which runs, what a patch or restore would
write and whether it is needed. The payload of a patch is made of the bank's own image, and has
its version (`bank.patch.target_bank`, `flash_payloads.py:153`); the Apple template gives the
headers, and must match the bank before. `FlashBanks` has backup (two raw files, then the manifest),
planning, confirmation, validation of the live bank (the app only, as in the code), `RecordAttempt`
before `AcpWrite`, read-back, checksum, and the manifest's final status, which is recorded in
the same step as the checksum is read.

*Abstractions.* An image is an Apple version and its LOGIN script. One command at a time;
reading both banks, checksums and LOGIN is one step; the default backup directory is a fresh one,
an explicit one is overwritten (`Dirs` allows both). Booting, power and Apple's own upgrade are
external. Left out: `download_only`, an explicit template or version. A backup in another directory made before a
write defeats the freshness check of the code, which is why `FreshWritesKeepABank` speaks of
directories that hold the device's latest state, and of writes that were not forced.

### 3.6 `DoctorDevice`, `DoctorNetwork`, `Doctor`

*State.* What of the device works now (`up`) and would work once it is fully up (`full`), the
options and the set-up of client and device, mishaps left, and the run: its step, what it holds
(age, processes, configuration, plan, families reached) and the failed results with whether
startup grace may mask them.

*Steps.* One per check in the order of `run_doctor_checks`, each with the early return and the
fall backs of the code: retries of the listing, the native Bonjour backend, the
second family, the SSH tunnel, the clean-up after a failed file operation, the final masking
(`Grace`).

*Abstractions.* Checks that only inform or warn, NBNS, locking profiles and log tails are left out.
A transport error in three of the readiness probes ends the run by an exception, as in the code.
The other records of the advertiser's instance, `_airport` and `_device-info`, are one part
(`infoRecords`): a missing `_adisk` record fails only where they are seen and share names are
active (`AdiskLacks`, `AdiskFails`, `doctor_steps.py:639-733`). A device that lastingly lacks both them and
its `_adisk` records is therefore found healthy as far as these go, and `NothingMissed` does not ask
for them (`Watched`).

### 3.7 `AccessDevice` .. `Access`

*State.* Per device: phase, open ports, the persisted dbug flag, an accepted reboot that has not
begun (`owes`), the password, whether it is of a supported kind; the `.env` file; the command in
progress; what the app has asked its user. Ghosts: `calm` (the command began on a
settled device and nothing failed since), `unverified`, `rekeyed`.

*Steps.* One per remote call or look: the device closes and opens its ports one by one in
between. `Confirm` is `require_confirmation`: a request without the answer ends with the
question; a later one carries an answer to any question asked so far.

The reachability check takes its device from the request or else from the file, asks for SMB at
both, skips port 22 when SSH goes through a proxy, and takes any exit code of the sign-in but 0
for a refusal.

*Abstractions.* A confirmation names operation, action and device; its further parameters are
left out, so answers here serve more requests. Settings are three switches; resolving
names and link-local addresses, discovery and SSH algorithms are left out. `syAP` kept from an earlier record is not modelled. One command runs
at a time: the app has one lane, a terminal usually its own file.

*What the model also reaches*: `set-ssh` decides by one look at port 22, which cannot tell that a
reboot is pending (`services/set_ssh.py:126`, after `--no-wait`); a moment of silence on port
22 makes configure reboot a healthy device (`services/configure.py:240`); a kill
between the two ACP requests (`integrations/acp.py:443`) leaves the flag set and no reboot asked
for; the wait for the device's return is over when any of its ports answers, also one that the
shutdown has yet to close, so that "Device successfully rebooted" (`services/set_ssh.py:264`) and "disabled"
may be said in the middle of that shutdown, by a device that closes port 22 before its last port.
`ReportsAreTrue` is therefore about devices that were settled when the command began,
except for "disabled", which holds always in what it says of SSH: the flag is gone and no sshd runs.

## 4. What the runs check

Every property of a passing run has a mutation of the modelled code that breaks it under
the run's own configuration.

| Run | Question | Result |
|---|---|---|
| `disk_lane` | Do disks, failures and restarts ever leave memory, published state and announcements inconsistent? Once the disks are still, does the lane finish its work? | `PublishedIsWhole`, `PublishedIsConfirmed`, `AdvertisedIsPublished` hold; a share whose records are still in the TDB is never remembered as done (`SharedStayPending`) and is migrated in the end (`PendingIsMigrated`); `RefreshesEnd` holds |
| `disk_unmigrated_share` | Is a volume migrated before it is shared? | no: not one that is mounted during another's migration |
| `samba_lane` | Do the remembered signatures stay true whatever fails? Does ok mean that smbd has the current configuration, interfaces and binary? | `CommitsAreLoaded`, `BindIsRendered`, `OkIsCommitted` hold; `OkServesConfig` and `OkServesBinary` hold until one of the calls that they name has failed |
| `samba_settles` | When nothing fails once a restart is decided: do sessions survive, does smbd serve the current state in the end? | `SessionsSurvive`, `ServesEventually` hold |
| `samba_lost_restart` | Is the new binary always started in the end? | not after one failed rendering |
| `aio_pool` | Are requests ever lost, mixed up, counted wrongly or left waiting? | all properties hold |
| `aio_capacity` | Does the pool do what `AioService` promises when more requests come than it holds? | `ImplementsService` holds |
| `host_operations` | Is what a deploy or an uninstall reports what the device holds, are files only replaced under a stopped runtime, do records survive? Can a failure leave a device that a deploy cannot recover? | `DeployedIsWhole`, `UninstalledStaysDown`, `WritesAreQuiet`, `RecordsSurviveDeploys` and `DeployGetsThrough` hold |
| `flash_banks` | Is a write planned from a fresh backup of a state the device no longer has, without force? Is one written that was not confirmed, or recorded as validated that is not on the device? Does one backup serve two writes? | no: all four properties hold. Of backups in other directories, and of forced writes, the first says nothing |
| `doctor` | Does doctor alarm without reason or miss a fault? | no: all three properties hold |
| `doctor_wait_in_vain` | Is the advice to wait given only where waiting helps? | no: one lasting fault is enough |
| `access` | Are reboots agreed to, saved targets good, settings kept, reports true? | all properties hold |

### 4.1 Findings and divergences

Three are runs that TLC is expected to refute; `PROJECT.json` quotes the line of the
documentation that each contradicts:

* *Publishing race* (`manager.sh:480`, run `disk_unmigrated_share`): mountedness is tested again
  after the migration, so a volume that was skipped because it was not mounted is shared with its
  records still in the TDB. `SharedStayPending` is what remains true, and the next pass migrates it
  under the share.
* *Lost restart* (`manager.sh:1586`, `samba_lost_restart`): the restart flag belongs to the
  pass, the binary's signature is recorded before the restart. `OkServesBinary` speaks of
  behaviours in which no call between the two has failed (`stopFailed`).
* *Waiting in vain* (`doctor_steps.py:2045`, `doctor_wait_in_vain`): failures are masked by what they look
  like, so a smbd binary that is gone for good, on a device that has finished starting, ends with
  the advice to wait. The other properties of doctor hold with the masking.

Met while modelling, reached by the models and kept as text. The last sentence of each says what the
runs and the theorems leave out because of it:

* *Forgotten volume* (`manager.sh:706`): an absent TDB is taken for
  nothing to migrate, also when the payload volume went away after it was resolved; the volumes are
  remembered as done and keep their records unread (line 708: "These volumes have nothing to migrate").
  The runs keep the disks still before that lookup (`MCNotAtSelect`); the theorem `MigratedTrue` states
  the same hypothesis.
* *Lost refresh* (`manager.sh:824`): a failed `adisk.tsv` write leaves new share
  rows without the flag that would replace the advertiser, against `DETAIL.md:513`. The runs leave out this
  failure, and that of stopping the advertiser (`MCQuietCalls`).
* *No retry* (`manager.sh:853`): the diskless state confirms the signature; nothing looks at the payload
  volume again when it has nothing to migrate, until MaSt changes, against `DETAIL.md:507` ("retries
  later"). `PendingIsMigrated` and `RefreshesEnd` ask for a payload in use.
* *Stale interfaces* (`manager.sh:1183`): the rendering is skipped by comparing
  with the last configuration that was *applied*, while `smb.conf` may hold a later one after
  a failed validation: when the address then changes back, smbd is started on the abandoned
  interfaces and stays there (`DETAIL.md:502`: "keeps it bound to the current interfaces").
  `OkServesConfig` speaks of behaviours in which no call that validates, signals, stops or starts
  smbd has failed (`smbdFailed`).
* *Churn* (`manager.sh:798`): without a payload no volume is ever remembered as having nothing to
  migrate, so each pass finds it newly available and replaces the advertiser. `RefreshesEnd` asks
  for a payload.
* A comment in patch 0031 speaks of one waiting request per allowed worker, while the limit is a
  constant 16 and the device is configured for 8 workers.
* Those of the host's operations are in sections 3.4 to 3.7.

### 4.2 Bounds

* `ManagerDisk`: two volumes, one internal, one external; that is enough for one to be
  migrated, lost or mounted while the other is in use. Three disk changes in one behaviour: plug, mount, and
  one change that interferes; one failed call, which is what a change can interfere with
  (853 thousand states). `EnvAt` names the steps before which the disks may change: all but the TDB lookup
  (`MCNotAtSelect`). `MCQuietCalls` leaves out the two calls whose
  failure `AdvertisedIsPublished` does not survive (the lost refresh, and an advertiser that
  cannot be stopped). `disk_unmigrated_share` needs no failed call.
* `ManagerSamba`: two payload directories, one with two sets of share rows, two addresses,
  two names; three changes and two failures, one for the pass that goes wrong and one for a later one.
  Poll periods are 10, 10 and 20 instead of
  10, 10 and 30: a full pass is still preceded by a bind-only pass. Which calls may fail differs:
  all in `samba_lane` (1.9 million states), where two history variables remember which kind of call has
  failed so that `OkServesConfig` and `OkServesBinary` can say what they depend on; those before a
  restart is required, the reload and the other services in `samba_settles` (`MCReloadCalls`, 600 thousand
  states): with any of the others failing a session is cut or the lost restart is met.
* `AioFork`: two workers, two queue places, four requests (`aio_pool`) or five
  (`aio_capacity`, where requests are interchangeable and symmetry is used; the
  property there is a safety property); so that the queue holds two, one waits for a worker that
  dies, and one more is done at once. The theorems hold for every limit, zero (no limit)
  included.
* `Host`: an internal and an external volume; deploys without limit, one other operation among
  them (an uninstall, activation, disk check, a deploy that does not reboot or does not wait), one fault
  (a call that fails, the link, power, a volume) at any step, after which the user keeps deploying (273
  thousand states). The safety theorems hold for any number of faults.
* `FlashBanks`: two backup directories, two Apple versions of which one's patch does not fit,
  three commands, two faults: backup, write, and a second write from either directory
  (705 thousand states).
* `Doctor`: two troubles out of lasting faults, options and mishaps, at most one of them a mishap;
  a device that has got as far as its second tier of services when doctor starts, or that is
  fully up (`Starts`). Pairs are enough for a fall back and what it falls back from (2.4 million
  states). `doctor_wait_in_vain` needs one lasting fault, no mishap and a device that is up.
* `Access`: two devices that share a password, two commands, one fault, one prompt: a question
  answered for the wrong device needs two commands and two devices (836 thousand states). The
  theorems lift all of these bounds.

### 4.3 Fairness

* Both manager modules assume `WF_vars(Manager)`: the manager is one sequential loop in which
  every external call returns (they have timeouts or are local) and whose errors end a step,
  never the loop. Nothing is assumed of disks, network or smbd; the bounds make their
  changes finitely many, and liveness is about what follows the last one.
* `AioFork`: weak fairness of scheduling and of the callback's return (a handler runs to
  its end), strong fairness of handling a readable socket (other handlers may disable it for
  a while, but `epoll` comes around to every descriptor), weak fairness of a live worker
  answering its command. Callers may send and free for ever, workers may die at any time.

* `Host`: weak fairness of the host's steps (every call ends, by its timeout at the latest), of a
  shutdown that was asked for, of the link's return and of the manager starting to serve; strong
  fairness of the boot's end (the host's next attempt may come in between) and of the user, who
  goes on deploying and saying yes. It is the hypothesis "the user keeps trying", not a
  promise of the code.
* The other specifications are safety only.

## 5. What is proved

Every invariant and every action property of a passing run, and the refinement of `AioService`, for
every value of the constants that satisfies the module's `ASSUME`: with no bound on the number
of volumes, runtimes, requests, workers, devices, backup directories, lasting faults, changes
or failures.

| Theorem | Statement | Needs |
|---|---|---|
| `ManagerDiskProofs!TypeCorrect` | `Spec => []TypeOK` | |
| `PublishedWhole` | `Spec => []PublishedIsWhole` | |
| `PublishedConfirmed` | `Spec => []PublishedIsConfirmed` | `adisk.tsv` can be written |
| `AdvertisedPublished` | `Spec => []AdvertisedIsPublished` | and the advertiser can be stopped |
| `MigratedTrue` | `Spec => []MigratedIsTrue` | disks hold still at the TDB lookup |
| `SharedPending` | `Spec => []SharedStayPending` | the same |
| `ManagerSambaProofs!TypeCorrect` | `Spec => []TypeOK` | |
| `CommitsLoaded` | `Spec => CommitsAreLoaded` | |
| `BindRendered` | `Spec => []BindIsRendered` | |
| `OkCommitted` | `Spec => []OkIsCommitted` | |
| `ConfigServed` | `Spec => []OkServesConfig` | |
| `BinaryServed` | `Spec => []OkServesBinary` | |
| `SessionsKept` | `Spec => SessionsSurvive` | no failure between requiring a restart and the start |
| `AioForkProofs!TypeCorrect` | `Spec => []TypeOK` | |
| `CountersAreExact` | `Spec => []CountersExact` | finitely many workers |
| `NoneWaits` | `Spec => []NoneWaitsForIdle` | |
| `QueueExact` | `Spec => []QueueIsQueued` | |
| `OneToOne`, `Watched`, `AnswersAreOwn` | `WorkersOwned`, `ActiveIsWatched`, `OwnAnswers` | |
| `Refines` | `Spec => ImplementsService` | |
| `HostProofs!TypeCorrect` | `Spec => []TypeOK` | |
| `WritesQuiet` | `Spec => WritesAreQuiet` | |
| `UninstalledDown` | `Spec => []UninstalledStaysDown` | |
| `RecordsSurvive` | `Spec => RecordsSurviveDeploys` | |
| `DeployedWhole` | `Spec => []DeployedIsWhole` | |
| `FlashProofs!TypeCorrect` | `Spec => []TypeOK` | |
| `OneWrite` | `Spec => []OneWritePerBackup` | |
| `ValidatedWritten` | `Spec => ValidatedIsWritten` | |
| `ConfirmedIsWritten` | `Spec => WritesTheConfirmed` | |
| `ABankIsKept` | `Spec => []FreshWritesKeepABank` | |
| `DoctorProofs!CleanReport` | `Spec => []CleanReportHasWritten` | |
| `FaultsReported` | `Spec => []NothingMissed` | |
| `WellIsClean` | `Spec => []NoFalseAlarm` | |
| `AccessProofs!TypeCorrect` | `Spec => []TypeOK` | |
| `NoRebootWithoutConsent` | `Spec => RebootsAreAgreed` | |
| `SettingsKept` | `Spec => SettingsAreKept` | |
| `SavedTargetsWork` | `Spec => []SavedTargetWorks` | |
| `ReportsTrue` | `Spec => []ReportsAreTrue` | |

The entries of the third column are hypotheses of the theorems, about which calls fail or when
the disks change; section 4.1 says what happens without them. `ConfigServed` and `BinaryServed` need none: every
call may fail, and the properties speak of the states before the first failure of a kind: of a call that
validates, signals, stops or starts smbd (`smbdFailed`), after which `smb.conf` may hold what was never
applied; or of a call that ends a pass after a new binary was recorded and before smbd is stopped
(`stopFailed`). `RestartsGoThrough` (`SessionsKept`) allows the disk pass, the name refresh, the reload
and the other services to fail. `MigratedTrue`, `QueueExact` and `Watched` state invariants that no run
checks by name, and that others rest on.

### 5.1 The arguments

Each property is too weak to be preserved by a step on its own. What has to be added:

* `ManagerDisk`. The properties speak of the manager between
  passes, while a rebuild changes rows, payload and signature one after the other. `WholeInv`
  says of a rebuild in progress that the old shares belong to `previousRows`, which is what a
  failed migration puts back, and that the resolved payload is among the rows. `ConfirmedInv`
  adds which signature each reason for a rebuild starts from: it is what makes it right that
  a rebuild for a newly mounted volume records none. `AdvertsInv` says that stale
  announcements are always covered by the disk-changed flag of the current pass. `MigratedInv`
  relates `migrated` to the TDB it is about, and says that the payload's volume stays mounted from its
  resolution to the lookup of that TDB.
  `PendingInv` says which TDB that is: outside the building of the share rows, a list that is not
  empty speaks of the payload in use, because resolving another one drops it.
* `ManagerSamba`. `PendingInv` ties a pending signature to what `smb.conf` holds, `LoadInv`
  says at which step smbd is known to have loaded it, `RenderedInv` that the remembered
  interfaces were rendered or the pass still owes it, `OkInv` that a pass heading for `ok` has
  nothing pending. `ConfigServedInv` follows `smb.conf` and what a
  running smbd has of it: outside apply and start the file is the configuration applied last,
  and smbd is on the interfaces that a failed rendering would put back (`KeptBind`), until one of the
  calls in `SmbdCalls` has failed.
  `BinaryServedInv`: a running smbd was started from the binary in RAM, or this pass is about to restart
  it, and the binary in RAM is the one recorded as staged (`BinaryInv`). `ServedInv`, for `SessionsKept`, has `ConfInv`,
  `BinaryInv` and `SmbdInv` together: an smbd that is not right is before the step
  that restarts or signals it, and none that is right is stopped.
* `AioFork`. `TypedInv` includes that counters are integers, that listed workers have a
  descriptor and that active requests have a worker; `ChildrenInv` gives the counter as a
  cardinality; `QueueInv` makes queue and queued requests one another's images; `OwnInv` is the
  conjunction that holds together: one request per busy worker, distinct descriptors, the
  descriptor's event belonging to its request, and nothing in a kept worker's socket that is not
  its own request's.
* `Refines`. A request's step is `Accept`, `Complete` or `Free` of that request, everything
  else a stutter; `ResultInv` says that a result is there exactly from the answer to the end, which
  makes starting a queued request, the end of a handler and freeing in two steps invisible. The
  capacity is counted: active requests inject into the busy workers (`ActiveCount`), the queue
  maps onto the queued ones (`QueuedCount`), and an offered worker, or a free place in the queue of a saturated
  pool, leaves room for one more (`RoomLeft`). Without a limit, nothing is ever queued and the
  processes themselves are the capacity.
* `Host`. `LaneInv` says which operation may be at which step and with which item. `QuietInv`:
  from the moment the daemons are stopped until the next boot or start nothing runs, which needs that
  a device that is down runs nothing and that a boot does not end between two quick steps.
  `GoneInv`: the boot hook goes first and nothing puts it back. `WholeInv`, about the file under
  transfer and those before it in the order of the plan (`Before`): a device that went down
  during the transfer cannot come up before the deploy has failed, so whatever is placed
  while it is up is still there, and is durable after the flush. `RecordsInv`: a record that is legacy and in the resolved
  roots is native, from before the copy's end to the cleanup.
* `FlashBanks`. `CommandInv` says which steps have a plan. `UsedInv`: a directory a write began from is
  marked in its manifest, already when the ACP command is sent. `ApprovedInv`: at the last look, what is
  approved is what this command would write. `FreshInv`, the hard one: a bank that is intact in a
  fresh backup is intact on the device, where freshness is lost with any write, and the view of a
  command under way is one it read while that was so; an unforced plan was made from intact
  banks. `NoWorse` is preserved by all that happens to a device but a write (`Mends`). `WrittenInv`, between the
  comparison of the bank and that of its checksum: the bank still is the payload, or an upgrade has
  changed image and checksum together, which the checksum tells (`DeviceTells`).
* `Access`. `LaneInv`, part of the typed invariant, says which kind of command may be at which
  step. `Shape` and `CommandGoesOn` say once what a step can do to the command in progress, so that the
  invariants below need not go through all actions again. `AgreedInv`: whatever is at a
  working step has been agreed to, which needs that answers a request carries were shown to the
  user, and that `Confirm` compares with the very question of this command, not with one
  of an earlier command on another device. `SettingsInv`: the settings a command carries are
  the file's with its changes, still when it comes to write, because nothing else writes
  meanwhile. `TargetInv`: what is in the file, or about to be written, works or is
  marked; `DevicesKeep` says that no power cut, reboot or lost call changes that. `KnowsInv`
  (of `ReportsTrue`) says what a command knows of its device at each step: a device with the flag
  whose reboot has been asked for opens port 22 once and keeps it open (`Rising`, `Risen`), what was
  seen on a settled device stays so (`Looks`), and a report made of it stays true after the
  command has ended (`Tells`). `NotEnabled` needs no calm: once port 22 was seen closed after the flag was
  removed, no sshd runs and none will be started (`Gone`), through power cuts and all.
* `Doctor`. `DeviceInv`: what works at any moment would work after a full boot, which makes an
  observation at one moment say something about every later one; it rests on two lemmas:
  `WorkingIs` unfolds the six rounds of the recursive function that follows dependencies, and
  `WorkingKeeps` says that what works of a set of parts is among them and has every subset
  that needs nothing outside itself. `SeenInv`, by stage of the run, lists the parts that a run without
  a failed result has seen, through each fall back: a part not seen has left a result.
  `TogetherInv` says that the advertiser's records come and go together, so that a listing without
  the related records lacks nothing that would work later. `MissingInv`
  and `WrittenInv`: no listing is clean that nobody made, and the test directory exists just
  between the first file operation and the eighth. `LuckInv` and `CalmInv`:
  mishaps that are used up do not come back, and a run on a device that is well and stays well
  has nothing to report at any of its steps.

### 5.2 How the models were written for it

A few definitions have the form they have because of the proofs: `CheckApple` looks at the
two banks by composing two steps, in the order of the code, instead of folding over a set;
`Groups` of `DoctorNetwork` concatenates the groups of the two families instead of
filtering a sequence; `Verdict` of `Access` has alternatives that exclude one
another. `ShippedAssumption` (the shipped firmware is made of images) and `BoundsAssumption` (the
bounds of `Doctor` are numbers) are assumptions TLC evaluates.

### 5.3 Only model-checked

Liveness: `Completes`, `PendingIsMigrated`, `RefreshesEnd`, `ServesEventually`,
`DeployGetsThrough` (the prover does not reason about fairness or `ENABLED`). No module here
declares a recursive operator. What a recursive definition computes for every input, by induction, is
not proved anywhere: the proofs about `Doctor` unfold the rounds of its recursive function,
whose number is fixed. `Doctor!TypeOK` documents the state and is left to a later step: the invariants
of the three theorems carry what they need of it (`FieldsInv`, `LuckInv`).

## 6. What is not modelled, and why

`PROJECT.json` lists every component with its status and every hazard with the properties
that cover it, or a note. In short:

* The Swift application (coordinator, client, stores, registry) is the next module; the
  hazard at `OperationCoordinator.swift:220` waits for it.
* The manager's printer, NBNS and rsync lanes appear as one step that succeeds or fails.
* The migrator's order of writes per record and the native daemons' schedules: C code inside
  patches or of its own, next on the plan; the models use what they promise.
* Samba's durable handles, streams and metadata conversion: changes inside code that is not in
  this repository, or sequential conversions.
* Wire formats, rendering and parsing are conversions that no property here depends on; argument
  parsing, views and presentation keep no state of their own; build scripts and vendored cryptography are not this project's logic.
