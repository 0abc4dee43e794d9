------------------------------ MODULE FlashBanks ------------------------------
(***************************************************************************)
(* Firmware backup, planning and writing, from the app helper              *)
(* (app/ops/flash.py) and from the command line (cli/flash.py), against a  *)
(* NetBSD 4 device with two firmware banks.  The host keeps backup         *)
(* directories (two raw files and a manifest that are saved one after the  *)
(* other) and a cache of Apple templates; one command runs at a time and   *)
(* may die between any two steps.  The device can lose power, also in the  *)
(* middle of a write, and Apple's own tool can replace a bank.             *)
(***************************************************************************)
EXTENDS FlashImages

CONSTANTS Dirs,       \* backup directories in use
          Shipped,    \* what may be in the two banks at the start
          MaxOps,     \* bound: commands started
          MaxFaults   \* bound: crashes, power cuts, failed writes and upgrades

(* At first both banks hold an image: an Apple version, with some LOGIN.   *)
ASSUME ShippedAssumption == Shipped \subseteq [Banks -> Images]

VARIABLES dev,        \* banks, ACP checksums, and the image that runs (Blank: off)
          disk,       \* disk[d]: the raw files and the manifest of directory d
          cache,      \* cached Apple templates
          catalog,    \* is Apple's catalog cached
          op,         \* the command that runs, where it is and what it holds
          approved,   \* the write the app's user has confirmed
          stale,      \* history: has a write begun since d was saved: from d, or another
          budget      \* commands and faults left

vars == <<dev, disk, cache, catalog, op, approved, stale, budget>>

NoView == [bank |-> [b \in Banks |-> Whole(Blank)], cks |-> [b \in Banks |-> Blank],
           release |-> "none", live |-> [b \in Banks |-> "unknown"]]
Manifest(view) == [view |-> view, status |-> "none", used |-> FALSE, apple |-> "not_checked"]
NoManifest == Manifest(NoView)
NoContext == [dir |-> "none", kind |-> "none", force |-> FALSE, bank |-> "none", base |-> Whole(Blank)]
Idle == [ui |-> "none", kind |-> "none", dir |-> "none", force |-> FALSE, pc |-> "idle",
         view |-> NoView, plan |-> NoPlan]

(* What a backup reads from the live device.                               *)
LiveView ==
    [bank |-> dev.bank, cks |-> dev.cks, release |-> Release[dev.run.v],
     live |-> [b \in Banks |-> IF Intact(dev.bank[b]) THEN LiveMatch(dev.bank[b].img, dev.run.login)
                               ELSE "unknown"]]

(* What a plan reads from a directory: the raw files and the rest of the   *)
(* manifest; a LOGIN match counts only for the very bank it was saved with. *)
SavedView(d) ==
    LET m == disk[d].manifest.view
    IN  [m EXCEPT !.bank = disk[d].raw,
                  !.live = [b \in Banks |-> IF m.bank[b] = disk[d].raw[b] THEN m.live[b] ELSE "unknown"]]

On == dev.run # Blank
Has(d) == disk[d].manifest # NoManifest
At(ui, pc) == op.ui \in ui /\ op.pc = pc
GoTo(pc) == op' = [op EXCEPT !.pc = pc]
Done == op' = Idle

Record(status, used) ==
    disk' = [disk EXCEPT ![op.dir].manifest.status = status, ![op.dir].manifest.used = used]

Fault == budget.faults > 0 /\ budget' = [budget EXCEPT !.faults = @ - 1]

(* The image a running device booted from some bank it could boot.         *)
Booted(bank) == {bank[b].img : b \in {x \in Banks : Intact(bank[x])}}

-----------------------------------------------------------------------------
Init ==
    /\ \E i \in Shipped :
          dev = [bank |-> [b \in Banks |-> Whole(i[b])], cks |-> i, run |-> i["primary"]]
    /\ disk = [d \in Dirs |-> [raw |-> [b \in Banks |-> Whole(Blank)], manifest |-> NoManifest]]
    /\ \E state \in {"absent", "bad"} : cache = [v \in Versions |-> state]
    /\ catalog = (\E v \in Versions : cache[v] # "absent")
    /\ op = Idle /\ approved = NoContext
    /\ stale = [d \in Dirs |-> "fresh"]
    /\ budget = [ops |-> MaxOps, faults |-> MaxFaults]

Start(ui, kind, d, force, pc) ==
    /\ op = Idle /\ budget.ops > 0
    /\ op' = [Idle EXCEPT !.ui = ui, !.kind = kind, !.dir = d, !.force = force, !.pc = pc]
    /\ budget' = [budget EXCEPT !.ops = @ - 1]
    /\ UNCHANGED <<dev, disk, cache, catalog, approved, stale>>

StartBackup(d) == Start("app", "backup", d, FALSE, "read")
StartWrite(kind, d, force) == Has(d) /\ Start("app", kind, d, force, "plan")
StartCli(kind, d, force) == Start("cli", kind, d, force, "read")

(* read_flash_inputs.                                                      *)
ReadFlash ==
    /\ op.pc = "read" /\ On
    /\ op' = [op EXCEPT !.view = LiveView, !.pc = "save_primary"]
    /\ UNCHANGED <<dev, disk, cache, catalog, approved, stale, budget>>

(* save_flash_banks: one file after the other.                             *)
SaveRaw(b) ==
    /\ op.pc = (IF b = "primary" THEN "save_primary" ELSE "save_secondary")
    /\ disk' = [disk EXCEPT ![op.dir].raw[b] = op.view.bank[b]]
    /\ GoTo(IF b = "primary" THEN "save_secondary" ELSE IF op.ui = "app" THEN "save" ELSE "plan")
    /\ UNCHANGED <<dev, cache, catalog, approved, stale, budget>>

(* save_flash_manifest after a backup, or after the command line's plan.   *)
SaveManifest ==
    /\ op.pc = "save"
    /\ disk' = [disk EXCEPT ![op.dir].manifest = Manifest(op.view)]
    /\ IF op.plan = NoPlan THEN Done ELSE GoTo("confirm")
    /\ stale' = [stale EXCEPT ![op.dir] = "fresh"]
    /\ UNCHANGED <<dev, cache, catalog, approved, budget>>

-----------------------------------------------------------------------------
(* The plans that view v admits, with the templates to be had.             *)
Building(kind, c) ==
    {x \in Versions : IF kind = "patch" THEN PatchBuilds(c, x) ELSE RestoreBuilds(c, x)}

PlanVersions(kind, c, online) ==
    IF online \/ catalog THEN Found(cache, online, "any", Building(kind, c)) ELSE {}

PlansFor(kind, v, force, online) ==
    IF kind = "patch"
    THEN PatchPlan(v, force, PlanVersions(kind, v.bank["primary"], online))
    ELSE UNION {RestorePlan(v, b, PlanVersions(kind, v.bank[b], online)) : b \in RestoreTarget(v)}

(* A bank that is searched for updates the cache, found or not.            *)
Searched(kind, v, force) ==
    IF kind = "patch" THEN {"primary"} \cap {b \in Banks : PatchReady(v, force) /\ v.bank[b].img.login = "stock"}
    ELSE RestoreTarget(v)

CacheAfterPlan(kind, v, force, online) ==
    LET after(b) == CacheAfter(cache, online, "any", Building(kind, v.bank[b]))
    IN  IF Searched(kind, v, force) = {} THEN cache
        ELSE after(CHOOSE b \in Searched(kind, v, force) : TRUE)

Plan(v, online) ==
    LET plans == PlansFor(op.kind, v, op.force, online)
    IN  /\ cache' = CacheAfterPlan(op.kind, v, op.force, online)
        /\ catalog' = (catalog \/ (online /\ Searched(op.kind, v, op.force) # {}))
        /\ op' = IF plans # {} THEN [op EXCEPT !.view = v, !.plan = CHOOSE p \in plans : TRUE,
                                               !.pc = IF op.ui = "app" THEN "confirm" ELSE "save"]
                 ELSE IF op.ui = "app" THEN Idle ELSE [op EXCEPT !.pc = "save"]

(* The command line plans from what it just read.                          *)
PlanCli(online) ==
    /\ At({"cli"}, "plan") /\ Plan(op.view, online)
    /\ UNCHANGED <<dev, disk, approved, stale, budget>>

(* Mutant: a backup that was used for a write is planned from again.       *)
PlanFromBackup_Reuses(online) ==
    /\ At({"app"}, "plan") /\ Plan(SavedView(op.dir), online)
    /\ disk' = IF op'.pc = "confirm"
               THEN [disk EXCEPT ![op.dir].manifest.view = SavedView(op.dir)] ELSE disk
    /\ UNCHANGED <<dev, approved, stale, budget>>

(* plan_flash_from_backup: a backup that was used for a write is refused;   *)
(* the inspection it makes is saved over the manifest's.                   *)
PlanFromBackup(online) ==
    /\ At({"app"}, "plan")
    /\ IF disk[op.dir].manifest.used
       THEN Done /\ UNCHANGED <<disk, cache, catalog>>
       ELSE /\ Plan(SavedView(op.dir), online)
            /\ disk' = IF op'.pc = "confirm"
                       THEN [disk EXCEPT ![op.dir].manifest.view = SavedView(op.dir)] ELSE disk
    /\ UNCHANGED <<dev, approved, stale, budget>>

(* check_apple from a backup: the candidates' matches are only recorded.   *)
CheckApple(d, online) ==
    LET v == SavedView(d)
        matches == [b \in Candidates(v) |-> MatchFor(cache, online, v.bank[b])]
        after(b, c) == IF b \in Candidates(v) THEN CacheAfter(c, online, "any", Matching(v.bank[b])) ELSE c
    IN  /\ op = Idle /\ Has(d) /\ budget.ops > 0
        /\ budget' = [budget EXCEPT !.ops = @ - 1]
        /\ ~disk[d].manifest.used /\ Candidates(v) # {} /\ (online \/ catalog)
        /\ catalog' = TRUE
        /\ cache' = after("secondary", after("primary", cache))
        /\ IF \E b \in Candidates(v) : matches[b] = "error" THEN UNCHANGED disk
           ELSE disk' = [disk EXCEPT ![d].manifest.view = v, ![d].manifest.apple = MatchStatus(matches)]
        /\ UNCHANGED <<dev, op, approved, stale>>

-----------------------------------------------------------------------------

(* Nothing to write: already patched, or already Apple's image.            *)
NotNeeded ==
    /\ op.pc = "confirm" /\ op.plan.satisfied
    /\ Record("not_needed", FALSE) /\ Done
    /\ UNCHANGED <<dev, cache, catalog, approved, stale, budget>>

(* What the confirmation of a write is computed from.                      *)
Context == [dir |-> op.dir, kind |-> op.kind, force |-> op.force,
            bank |-> op.plan.target, base |-> op.view.bank[op.plan.target]]

(* The helper answers an unconfirmed write with the confirmation to show;   *)
(* the user accepts it and the client repeats the request.                 *)
ConfirmApp ==
    /\ At({"app"}, "confirm") /\ ~op.plan.satisfied /\ On
    /\ IF approved = Context THEN GoTo("validate") /\ UNCHANGED approved
       ELSE Done /\ approved' = Context
    /\ UNCHANGED <<dev, disk, cache, catalog, stale, budget>>

ConfirmCli ==
    /\ At({"cli"}, "confirm") /\ ~op.plan.satisfied
    /\ \/ GoTo("record") /\ UNCHANGED disk
       \/ Record("cancelled", FALSE) /\ Done
    /\ UNCHANGED <<dev, cache, catalog, approved, stale, budget>>

(* Mutant: the live bank is read and not compared.                         *)
ValidateLive_Reads ==
    /\ op.pc = "validate" /\ On /\ GoTo("record")
    /\ UNCHANGED <<dev, disk, cache, catalog, approved, stale, budget>>

(* validate_live_target_matches_backup.                                    *)
ValidateLive ==
    /\ op.pc = "validate" /\ On
    /\ IF dev.bank[op.plan.target] = op.view.bank[op.plan.target] THEN GoTo("record") ELSE Done
    /\ UNCHANGED <<dev, disk, cache, catalog, approved, stale, budget>>

RecordAttempt ==
    /\ op.pc = "record"
    /\ Record("attempting", TRUE) /\ GoTo("acp")
    /\ UNCHANGED <<dev, cache, catalog, approved, stale, budget>>

-----------------------------------------------------------------------------
Torn == [img |-> Blank, footer |-> Blank]
Garbled == [img |-> Blank, footer |-> op.plan.payload]
Failed == IF op.ui = "cli" THEN GoTo("failed") ELSE Done
Began == stale' = [d \in Dirs |-> IF d = op.dir \/ stale[d] = "own" THEN "own" ELSE "other"]
Bank(c) == dev' = [dev EXCEPT !.bank[op.plan.target] = c]
BankAndCks(c) == dev' = [dev EXCEPT !.bank[op.plan.target] = c, !.cks[op.plan.target] = c.footer]

(* flash_firmware_bank as the device carries it out (external): it goes    *)
(* through; or the bank, the bytes before its footer or the checksum come  *)
(* out wrong, or it fails before or after the write, or power goes while   *)
(* it writes.                                                              *)
AcpWrite ==
    /\ op.pc = "acp" /\ On /\ Began
    /\ \/ BankAndCks(Whole(op.plan.payload)) /\ GoTo("readback") /\ UNCHANGED budget
       \/ Fault /\ (Bank(Torn) \/ Bank(Whole(op.plan.payload)) \/ BankAndCks(Garbled)) /\ GoTo("readback")
       \/ Fault /\ (UNCHANGED dev \/ BankAndCks(Whole(op.plan.payload))) /\ Failed
       \/ Fault /\ dev' = [dev EXCEPT !.bank[op.plan.target] = Torn, !.run = Blank] /\ Failed
    /\ UNCHANGED <<disk, cache, catalog, approved>>

(* Mutant: only the footer is compared.                                    *)
ReadBack_Footer ==
    /\ op.pc = "readback" /\ On
    /\ IF dev.bank[op.plan.target].footer = op.plan.payload THEN GoTo("cks") ELSE Failed
    /\ UNCHANGED <<dev, disk, cache, catalog, approved, stale, budget>>

(* The whole bank is read back and compared, and then the checksum.        *)
ReadBack ==
    /\ op.pc = "readback" /\ On
    /\ IF dev.bank[op.plan.target] = Whole(op.plan.payload) THEN GoTo("cks") ELSE Failed
    /\ UNCHANGED <<dev, disk, cache, catalog, approved, stale, budget>>

CheckCks ==
    /\ op.pc = "cks" /\ On
    /\ IF dev.cks[op.plan.target] = op.plan.payload
       THEN Record("validated", TRUE) /\ GoTo("finish")
       ELSE UNCHANGED disk /\ Failed
    /\ UNCHANGED <<dev, cache, catalog, approved, stale, budget>>

(* Only the command line records that a write failed.                      *)
RecordFailed ==
    /\ op.pc = "failed"
    /\ Record("failed", TRUE) /\ Done
    /\ UNCHANGED <<dev, cache, catalog, approved, stale, budget>>

Boot(bank) ==
    \E image \in Booted(bank) \union (IF Booted(bank) = {} THEN {Blank} ELSE {}) :
        dev' = [bank |-> bank, cks |-> [b \in Banks |-> bank[b].footer], run |-> image]

(* A patch is left for the owner to power cycle; a restore may reboot.     *)
Finish ==
    /\ op.pc = "finish" /\ Done
    /\ \/ UNCHANGED dev
       \/ op.kind = "restore" /\ On /\ Boot(dev.bank)
    /\ UNCHANGED <<disk, cache, catalog, approved, stale, budget>>

-----------------------------------------------------------------------------
(* SSH or ACP is not answered where a step needs the device.               *)
Unreachable ==
    /\ op.pc \in {"read", "validate", "acp", "readback", "cks"} \/ At({"app"}, "confirm")
    /\ ~On
    /\ IF op.pc \in {"acp", "readback", "cks"} THEN Failed ELSE Done
    /\ UNCHANGED <<dev, disk, cache, catalog, approved, stale, budget>>

HostCrash ==
    /\ op # Idle /\ Fault /\ Done
    /\ UNCHANGED <<dev, disk, cache, catalog, approved, stale>>

PowerCycle ==
    /\ Fault /\ Boot(dev.bank)
    /\ UNCHANGED <<disk, cache, catalog, op, approved, stale>>

PowerOn ==
    /\ ~On /\ Booted(dev.bank) # {} /\ Boot(dev.bank)
    /\ UNCHANGED <<disk, cache, catalog, op, approved, stale, budget>>

(* AirPort Utility puts another version in a bank and reboots.             *)
AppleUpgrade(b, v) ==
    /\ On /\ Fault /\ dev.bank[b] # Whole(Stock(v))
    /\ Boot([dev.bank EXCEPT ![b] = Whole(Stock(v))])
    /\ UNCHANGED <<disk, cache, catalog, op, approved, stale>>

Device == PowerCycle \/ PowerOn \/ (\E b \in Banks, v \in Versions : AppleUpgrade(b, v))

Next ==
    \/ \E d \in Dirs : \/ StartBackup(d)
                       \/ \E kind \in {"patch", "restore"}, force \in BOOLEAN :
                             (kind = "patch" \/ ~force) /\ (StartWrite(kind, d, force) \/ StartCli(kind, d, force))
    \/ ReadFlash \/ (\E b \in Banks : SaveRaw(b)) \/ SaveManifest
    \/ \E online \in BOOLEAN : PlanCli(online) \/ PlanFromBackup(online)
                              \/ (\E d \in Dirs : CheckApple(d, online))
    \/ NotNeeded \/ ConfirmApp \/ ConfirmCli \/ ValidateLive \/ RecordAttempt
    \/ AcpWrite \/ ReadBack \/ CheckCks \/ RecordFailed \/ Finish
    \/ Unreachable \/ HostCrash \/ Device

Spec == Init /\ [][Next]_vars

-----------------------------------------------------------------------------
(* State stays in range: every bank, backup, plan and confirmation is one  *)
(* the code could produce.                                                 *)
TypeOK ==
    /\ dev \in [bank : [Banks -> Contents], cks : [Banks -> Images \union {Blank}],
                run : Images \union {Blank}]
    /\ \A d \in Dirs :
          /\ disk[d].raw \in [Banks -> Contents]
          /\ Has(d) => /\ disk[d].manifest.view \in View
                       /\ disk[d].manifest.used \in BOOLEAN
                       /\ disk[d].manifest.status \in {"none", "not_needed", "cancelled", "attempting",
                                                       "validated", "failed"}
    /\ cache \in [Versions -> CacheStates] /\ catalog \in BOOLEAN
    /\ op.plan.payload \in Images \union {Blank}
    /\ op.view \in View
    /\ stale \in [Dirs -> {"fresh", "own", "other"}]

Writing == op.pc = "acp"
Target == op.plan.target

(* An unforced write planned from the device's latest state leaves a bank  *)
(* that boots: when the ACP command is sent, the bank it does not touch is *)
(* intact now, not only in the files the plan was made from                *)
(* (require_primary_patch_ready, require_restore_target_bank).             *)
FreshWritesKeepABank ==
    Writing /\ stale[op.dir] = "fresh" /\ ~op.force => Intact(dev.bank[Other[Target]])

(* A backup serves one write: once a write from it has begun its manifest  *)
(* says so, and no other write begins from it, through crashes of the host *)
(* and whatever the first write came to (require_backup_fresh_for_plan).   *)
OneWritePerBackup ==
    Writing => disk[op.dir].manifest.used /\ stale[op.dir] # "own"

(* The app writes what was confirmed: the last look at the device before a *)
(* write finds in the target bank what it held when the user was asked,    *)
(* though the backup was read, planned and confirmed in separate requests. *)
WritesTheConfirmed ==
    [][op.pc = "validate" /\ op'.pc = "record" => dev.bank[Target] = approved.base]_vars

(* A write that is recorded as validated is on the device: the bank holds  *)
(* the payload, every byte of it, when the record is made, though the bank *)
(* and its checksum are read one after the other and the device may be     *)
(* power cycled or upgraded in between (write_and_validate_plan).          *)
ValidatedIsWritten ==
    [][\A d \in Dirs :
          disk'[d].manifest.status = "validated" /\ disk[d].manifest.status # "validated"
             => d = op.dir /\ dev.bank[Target] = Whole(op.plan.payload)]_vars

=============================================================================
