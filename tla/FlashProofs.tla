------------------------------ MODULE FlashProofs ------------------------------
(***************************************************************************)
(* Proofs about FlashBanks, for any versions, catalog, sizes, directories  *)
(* and bounds.                                                             *)
(***************************************************************************)
EXTENDS FlashBanks, TLAPS

-----------------------------------------------------------------------------
(* What every command, directory and confirmation is made of.              *)

Devices == [bank : [Banks -> Contents], cks : [Banks -> Images \union {Blank}],
            run : Images \union {Blank}]
Statuses == {"none", "not_needed", "cancelled", "attempting", "validated", "failed"}
Matches == {"not_checked", "all_candidates_match", "some_candidates_match", "no_candidates_match"}
Manifests == [view : View, status : Statuses, used : BOOLEAN, apple : Matches]
Directories == [raw : [Banks -> Contents], manifest : Manifests]
Plans == [mode : {"none", "patch", "restore"}, target : Banks \union {"none"},
          payload : Images \union {Blank}, satisfied : BOOLEAN]
Steps == {"idle", "read", "save_primary", "save_secondary", "plan", "save", "confirm", "validate",
          "record", "acp", "readback", "cks", "failed", "finish"}
Commands == [ui : {"none", "app", "cli"}, kind : {"none", "backup", "patch", "restore"},
             dir : Dirs \union {"none"}, force : BOOLEAN, pc : Steps, view : View, plan : Plans]

(* Steps before there is a plan, and steps that follow one.                *)
Reading == {"read", "save_primary", "save_secondary", "plan"}
Planned == {"confirm", "validate", "record", "acp", "readback", "cks", "failed", "finish"}
Unwritten == {"confirm", "validate", "record", "acp"}

CommandInv ==
    /\ op # Idle => op.dir \in Dirs /\ op.pc # "idle"
    /\ op.pc \in Reading => op.plan = NoPlan
    /\ op.pc \in Planned => op.plan # NoPlan
    /\ op.plan # NoPlan => op.plan.mode # "none" /\ op.plan.target \in Banks

TypedInv ==
    /\ dev \in Devices /\ disk \in [Dirs -> Directories] /\ op \in Commands
    /\ cache \in [Versions -> CacheStates] /\ catalog \in BOOLEAN
    /\ stale \in [Dirs -> {"fresh", "own", "other"}]
    /\ CommandInv

(* A directory that a write began from says so until it is saved anew.     *)
UsedInv ==
    /\ \A d \in Dirs : stale[d] = "own" => disk[d].manifest.used
    /\ op.pc \in Unwritten => stale[op.dir] # "own"
    /\ op.pc = "acp" => disk[op.dir].manifest.used

(* What a fresh backup shows as intact is intact: only a write tears a     *)
(* bank, and no write falls between the reading of a backup and its saving. *)
NoWorse(bank) == \A b \in Banks : Intact(bank[b]) => Intact(dev.bank[b])

JustRead == op.pc \in {"save_primary", "save_secondary", "save"} \/ At({"cli"}, "plan")

FreshInv ==
    /\ \A d \in Dirs : stale[d] = "fresh" => NoWorse(disk[d].raw)
    /\ JustRead => NoWorse(op.view.bank)
    /\ op.pc = "save_secondary" => disk[op.dir].raw["primary"] = op.view.bank["primary"]
    /\ op.pc = "save" \/ At({"cli"}, "plan") => disk[op.dir].raw = op.view.bank
    /\ op.pc \in Unwritten /\ stale[op.dir] = "fresh" => NoWorse(op.view.bank)
    /\ op.plan # NoPlan /\ ~op.force => \A b \in Banks : Intact(op.view.bank[b])

(* The last look is at what was confirmed.                                 *)
ApprovedInv == op.pc = "validate" => approved = Context

-----------------------------------------------------------------------------
(* Views and plans.                                                        *)

\* An erased bank is not an image.
LEMMA BlankIsNoImage == Blank \notin Images
BY CatalogAssumption DEF Blank, Images

\* An intact bank holds an image.
LEMMA IntactHolds ==
    ASSUME NEW c \in Contents, Intact(c)
    PROVE  c.img \in Images /\ c.img.v \in Versions /\ c.footer = c.img
BY DEF Intact, Contents, Images

\* A command or a manifest that has read nothing is typed.
LEMMA NothingTyped ==
    /\ NoView \in View /\ NoPlan \in Plans /\ NoPlan.mode = "none" /\ NoManifest \in Manifests
    /\ Idle \in Commands /\ Idle.pc = "idle" /\ Idle.plan = NoPlan /\ Idle.dir = "none"
<1>1. NoView \in View
  BY DEF NoView, View, Contents, Whole, Banks
<1>2. NoPlan \in Plans /\ NoPlan.mode = "none"
  BY DEF NoPlan, Plans
<1>3. NoManifest \in Manifests
  BY <1>1 DEF NoManifest, Manifest, Manifests, Statuses, Matches
<1> QED
  BY <1>1, <1>2, <1>3 DEF Idle, Commands, Steps

\* What is read from a device that runs is a view.
LEMMA LiveViewTyped ==
    ASSUME dev \in Devices, dev.run # Blank
    PROVE  LiveView \in View /\ LiveView.bank = dev.bank
<1>1. dev.run \in Images /\ Release[dev.run.v] \in {Release[x] : x \in Versions}
  BY DEF Devices, Images
<1> QED
  BY <1>1 DEF LiveView, View, Devices, LiveMatch

\* What is read from a directory is a view of its raw files.
LEMMA SavedViewTyped ==
    ASSUME disk \in [Dirs -> Directories], NEW d \in Dirs
    PROVE  SavedView(d) \in View /\ SavedView(d).bank = disk[d].raw
<1>1. disk[d].manifest.view \in View /\ disk[d].raw \in [Banks -> Contents]
  BY DEF Directories, Manifests
<1> QED
  BY <1>1 DEF SavedView, View

\* A search finds a version that builds.
LEMMA FoundBuilds ==
    ASSUME NEW online, NEW kind, NEW c, NEW x \in PlanVersions(kind, c, online)
    PROVE  x \in Building(kind, c)
BY DEF PlanVersions, Found, Works

\* What a plan is: it names a bank and what to write there; unforced, it was
\* made from two intact banks.
LEMMA PlansAre ==
    ASSUME NEW v \in View, NEW kind, NEW force \in BOOLEAN, NEW online,
           NEW p \in PlansFor(kind, v, force, online)
    PROVE  /\ p \in Plans /\ p # NoPlan /\ p.mode # "none" /\ p.target \in Banks
           /\ ~force => \A b \in Banks : Intact(v.bank[b])
<1>a. "primary" \in Banks
  BY DEF Banks
<1>1. CASE kind = "patch"
  <2> DEFINE image == v.bank["primary"].img
  <2>1. PatchReady(v, force)
    BY <1>1 DEF PlansFor, PatchPlan
  <2>2. ~force => \A b \in Banks : Intact(v.bank[b])
    BY <2>1 DEF PatchReady, BothValid, BackupValid
  <2>3. \/ p = [mode |-> "patch", target |-> "primary", payload |-> Blank, satisfied |-> TRUE]
        \/ p = [mode |-> "patch", target |-> "primary", payload |-> Patched(image.v), satisfied |-> FALSE]
    BY <1>1, <2>1 DEF PlansFor, PatchPlan
  <2>4. Patched(image.v) \in Images
    <3>1. image \in Images
      BY <1>a, <2>1, IntactHolds DEF PatchReady, View
    <3> QED
      BY <3>1 DEF Patched, Images
  <2> HIDE DEF image
  <2>5. p.payload \in Images \union {Blank} /\ p.target = "primary" /\ p.mode = "patch" /\ p.satisfied \in BOOLEAN
    <3>1. CASE p = [mode |-> "patch", target |-> "primary", payload |-> Blank, satisfied |-> TRUE]
      BY <3>1
    <3>2. CASE p = [mode |-> "patch", target |-> "primary", payload |-> Patched(image.v), satisfied |-> FALSE]
      BY <2>4, <3>2
    <3> QED
      BY <2>3, <3>1, <3>2
  <2> QED
    BY <1>a, <2>2, <2>3, <2>5 DEF Plans, NoPlan
<1>2. CASE kind # "patch"
  <2>1. PICK b \in RestoreTarget(v) : p \in RestorePlan(v, b, PlanVersions(kind, v.bank[b], online))
    BY <1>2 DEF PlansFor
  <2>2. b \in Banks /\ \A x \in Banks : Intact(v.bank[x])
    BY <2>1 DEF RestoreTarget, Selected, Candidates, BothValid, BackupValid
  <2>3. PICK x \in PlanVersions(kind, v.bank[b], online) :
           p = [mode |-> "restore", target |-> b, payload |-> Stock(x), satisfied |-> v.bank[b].img = Stock(x)]
    BY <2>1 DEF RestorePlan
  <2>4. x \in Versions
    <3>1. x \in Building(kind, v.bank[b])
      BY <2>3, FoundBuilds
    <3> QED
      BY <3>1 DEF Building
  <2>5. Stock(x) \in Images
    BY <2>4 DEF Stock, Images
  <2> QED
    BY <2>2, <2>3, <2>5 DEF Plans, NoPlan
<1> QED
  BY <1>1, <1>2

\* A search leaves templates and nothing else in the cache.
LEMMA CacheAfterTyped ==
    ASSUME NEW c \in [Versions -> CacheStates], NEW online, NEW building
    PROVE  CacheAfter(c, online, "any", building) \in [Versions -> CacheStates]
BY DEF CacheAfter, CacheStates

\* Where planning leads: to an end, on without a plan, or on with one that
\* the view admits.
LEMMA PlanLeads ==
    ASSUME op \in Commands, NEW v \in View, NEW online, Plan(v, online)
    PROVE  \/ op' = Idle /\ op.ui = "app"
           \/ op' = [op EXCEPT !.pc = "save"] /\ op.ui # "app"
           \/ \E p \in PlansFor(op.kind, v, op.force, online) :
                 op' = [op EXCEPT !.view = v, !.plan = p, !.pc = IF op.ui = "app" THEN "confirm" ELSE "save"]
<1> DEFINE plans == PlansFor(op.kind, v, op.force, online)
<1>1. plans # {} => (CHOOSE p \in plans : TRUE) \in plans
  OBVIOUS
<1> HIDE DEF plans
<1>2. \/ op' = Idle /\ op.ui = "app"
      \/ op' = [op EXCEPT !.pc = "save"] /\ op.ui # "app"
      \/ plans # {} /\ op' = [op EXCEPT !.view = v, !.plan = CHOOSE p \in plans : TRUE,
                                        !.pc = IF op.ui = "app" THEN "confirm" ELSE "save"]
  BY DEF Plan, plans
<1> QED
  BY <1>1, <1>2 DEF plans

-----------------------------------------------------------------------------
(* Types.                                                                  *)

\* A command that goes on keeps all it holds.
LEMMA GoToDoes ==
    ASSUME op \in Commands, NEW pc \in Steps, GoTo(pc)
    PROVE  /\ op' \in Commands /\ op'.pc = pc /\ op'.view = op.view /\ op'.plan = op.plan
           /\ op'.dir = op.dir /\ op'.ui = op.ui /\ op'.kind = op.kind /\ op'.force = op.force
BY DEF GoTo, Commands

\* A command that has a plan, or needs none, keeps its lane as it goes on.
LEMMA GoesOn ==
    ASSUME op \in Commands, CommandInv, op.pc # "idle", NEW pc \in Steps \ {"idle"}, GoTo(pc),
           pc \in Reading => op.plan = NoPlan, pc \in Planned => op.plan # NoPlan
    PROVE  op' \in Commands /\ CommandInv'
<1>1. op # Idle
  BY NothingTyped
<1>2. /\ op' \in Commands /\ op'.pc = pc /\ op'.plan = op.plan /\ op'.dir = op.dir
  BY GoToDoes
<1> QED
  BY <1>1, <1>2 DEF CommandInv

LEMMA EndsWell ==
    ASSUME Done
    PROVE  op' \in Commands /\ CommandInv' /\ op'.pc = "idle" /\ op'.plan = NoPlan
BY NothingTyped DEF Done, CommandInv, Reading, Planned

\* Recording an outcome touches the manifest's status and mark, of one
\* directory.
LEMMA RecordDoes ==
    ASSUME disk \in [Dirs -> Directories], op.dir \in Dirs, NEW status \in Statuses, NEW used \in BOOLEAN,
           Record(status, used)
    PROVE  /\ disk' \in [Dirs -> Directories]
           /\ \A d \in Dirs : disk'[d].raw = disk[d].raw
           /\ \A d \in Dirs \ {op.dir} : disk'[d] = disk[d]
           /\ disk'[op.dir].manifest.used = used
<1> DEFINE marked == [disk EXCEPT ![op.dir].manifest.status = status]
<1>1. /\ marked \in [Dirs -> Directories]
      /\ \A d \in Dirs : marked[d].raw = disk[d].raw
      /\ \A d \in Dirs \ {op.dir} : marked[d] = disk[d]
  BY DEF Directories, Manifests
<1>2. disk' = [marked EXCEPT ![op.dir].manifest.used = used]
  BY DEF Record
<1> HIDE DEF marked
<1>3. disk' \in [Dirs -> Directories]
  <2>1. marked[op.dir].manifest \in Manifests
    BY <1>1 DEF Directories
  <2>2. [marked[op.dir].manifest EXCEPT !.used = used] \in Manifests
    BY <2>1 DEF Manifests
  <2>3. disk' = [marked EXCEPT ![op.dir].manifest = [marked[op.dir].manifest EXCEPT !.used = used]]
    BY <1>1, <1>2, <2>1 DEF Directories
  <2> QED
    BY <1>1, <2>2, <2>3 DEF Directories
<1>4. (\A d \in Dirs : disk'[d].raw = marked[d].raw) /\ (\A d \in Dirs \ {op.dir} : disk'[d] = marked[d])
  BY <1>1, <1>2 DEF Directories
<1>5. disk'[op.dir].manifest.used = used
  BY <1>1, <1>2 DEF Directories, Manifests
<1> QED
  BY <1>1, <1>3, <1>4, <1>5

\* A boot leaves the banks as they are given.
LEMMA BootDoes ==
    ASSUME NEW bank \in [Banks -> Contents], Boot(bank)
    PROVE  dev' \in Devices /\ dev'.bank = bank
<1>1. \A image \in Booted(bank) : image \in Images \union {Blank}
  BY DEF Booted, Contents
<1>2. PICK image \in Images \union {Blank} :
         dev' = [bank |-> bank, cks |-> [b \in Banks |-> bank[b].footer], run |-> image]
  BY <1>1 DEF Boot
<1> QED
  BY <1>2 DEF Devices, Contents

\* A command of the firmware tool: the target's bank changes, or no bank.
LEMMA WriteDoes ==
    ASSUME TypedInv, AcpWrite
    PROVE  dev' \in Devices
<1>1. op.plan.target \in Banks /\ op.plan.payload \in Images \union {Blank}
  <2>1. op.plan # NoPlan /\ op.plan \in Plans
    BY DEF TypedInv, CommandInv, AcpWrite, Planned, Commands
  <2> QED
    BY <2>1 DEF Plans, TypedInv, CommandInv
<1>2. Torn \in Contents /\ Whole(op.plan.payload) \in Contents /\ Garbled \in Contents
  BY <1>1 DEF Torn, Whole, Garbled, Contents
<1>3. dev \in Devices
  BY DEF TypedInv
<1>4. Bank(Torn) \/ Bank(Whole(op.plan.payload)) => dev' \in Devices
  BY <1>1, <1>2, <1>3 DEF Bank, Devices
<1>a. ASSUME NEW c \in Contents, NEW cks \in Images \union {Blank}
      PROVE  /\ [dev.bank EXCEPT ![op.plan.target] = c] \in [Banks -> Contents]
             /\ [dev.cks EXCEPT ![op.plan.target] = cks] \in [Banks -> Images \union {Blank}]
  BY <1>1, <1>3 DEF Devices
<1>5. ASSUME NEW c \in Contents, BankAndCks(c)
      PROVE  dev' \in Devices
  <2>1. dev' = [bank |-> [dev.bank EXCEPT ![op.plan.target] = c],
                cks |-> [dev.cks EXCEPT ![op.plan.target] = c.footer], run |-> dev.run]
    BY <1>3, <1>5 DEF BankAndCks, Devices
  <2>2. c.footer \in Images \union {Blank}
    BY DEF Contents
  <2> QED
    BY <1>a, <1>3, <2>1, <2>2 DEF Devices
<1>6. ASSUME dev' = [dev EXCEPT !.bank[op.plan.target] = Torn, !.run = Blank]
      PROVE  dev' \in Devices
  <2>1. dev' = [bank |-> [dev.bank EXCEPT ![op.plan.target] = Torn], cks |-> dev.cks, run |-> Blank]
    BY <1>3, <1>6 DEF Devices
  <2> QED
    BY <1>a, <1>2, <1>3, <2>1 DEF Devices
<1> QED
  BY <1>2, <1>3, <1>4, <1>5, <1>6 DEF AcpWrite

\* How commands start.
LEMMA StartsAre ==
    ASSUME NEW d \in Dirs, NEW kind \in {"patch", "restore"}, NEW force \in BOOLEAN,
           StartBackup(d) \/ StartWrite(kind, d, force) \/ StartCli(kind, d, force)
    PROVE  \E ui \in {"app", "cli"}, what \in {"backup", "patch", "restore"}, f \in BOOLEAN, pc \in {"read", "plan"} :
              Start(ui, what, d, f, pc) /\ (pc = "plan" => ui = "app")
BY DEF StartBackup, StartWrite, StartCli

LEMMA StartDoes ==
    ASSUME NEW ui \in {"app", "cli"}, NEW kind \in {"backup", "patch", "restore"}, NEW d \in Dirs,
           NEW force \in BOOLEAN, NEW pc \in {"read", "plan"}, Start(ui, kind, d, force, pc)
    PROVE  /\ op' \in Commands /\ CommandInv' /\ op'.pc = pc /\ op'.ui = ui /\ op'.dir = d /\ op'.plan = NoPlan
           /\ UNCHANGED <<dev, disk, cache, catalog, approved, stale>>
<1>1. op' = [Idle EXCEPT !.ui = ui, !.kind = kind, !.dir = d, !.force = force, !.pc = pc]
  BY DEF Start
<1>2. op' \in Commands /\ op'.pc = pc /\ op'.ui = ui /\ op'.dir = d /\ op'.plan = NoPlan
  BY <1>1, NothingTyped DEF Commands, Steps
<1> QED
  BY <1>2 DEF Start, CommandInv, Reading, Planned

\* Reading the device leaves the command with a view of it.
LEMMA ReadDoes ==
    ASSUME TypedInv, ReadFlash
    PROVE  /\ op' \in Commands /\ CommandInv' /\ op'.pc = "save_primary" /\ op'.view.bank = dev.bank
           /\ op'.dir = op.dir /\ op'.plan = op.plan
<1>1. LiveView \in View /\ LiveView.bank = dev.bank
  BY LiveViewTyped DEF TypedInv, ReadFlash, On
<1>2. op' = [op EXCEPT !.view = LiveView, !.pc = "save_primary"] /\ op \in Commands
  BY DEF ReadFlash, TypedInv
<1>3. op' \in Commands /\ op'.pc = "save_primary" /\ op'.view = LiveView /\ op'.dir = op.dir /\ op'.plan = op.plan
  BY <1>1, <1>2 DEF Commands, Steps
<1>4. op.dir \in Dirs /\ op.plan = NoPlan
  BY NothingTyped DEF ReadFlash, TypedInv, CommandInv, Reading
<1> QED
  BY <1>1, <1>3, <1>4 DEF CommandInv, Reading, Planned

\* Planning leaves the command idle, without a plan, or with one.
LEMMA PlanDoes ==
    ASSUME TypedInv, op.pc = "plan", NEW v \in View, NEW online, Plan(v, online)
    PROVE  /\ op' \in Commands /\ CommandInv' /\ cache' \in [Versions -> CacheStates] /\ catalog' \in BOOLEAN
           /\ op'.pc \in {"idle", "save", "confirm"}
           /\ op'.pc # "idle" => op'.dir = op.dir /\ op'.force = op.force /\ op'.ui = op.ui
           /\ op'.pc = "save" => op.ui # "app" /\ op'.view \in {op.view, v}
           /\ op'.pc = "confirm" => op.ui = "app" /\ op'.view = v /\ op'.plan # NoPlan
           /\ op'.plan # NoPlan => op'.view = v /\ op'.plan \in PlansFor(op.kind, v, op.force, online)
<1>a. op \in Commands /\ op.dir \in Dirs /\ op.plan = NoPlan
  BY NothingTyped DEF TypedInv, CommandInv, Reading
<1>1. cache' \in [Versions -> CacheStates]
  BY CacheAfterTyped DEF Plan, CacheAfterPlan, TypedInv
<1>2. catalog' \in BOOLEAN
  BY DEF Plan
<1>3. CASE op' = Idle
  BY <1>1, <1>2, <1>3, NothingTyped DEF CommandInv, Reading, Planned
<1>4. CASE op' = [op EXCEPT !.pc = "save"] /\ op.ui # "app"
  <2>1. /\ op' \in Commands /\ op'.pc = "save" /\ op'.plan = NoPlan /\ op'.view = op.view
        /\ op'.dir = op.dir /\ op'.force = op.force /\ op'.ui = op.ui
    BY <1>a, <1>4 DEF Commands, Steps
  <2> QED
    BY <1>a, <1>1, <1>2, <1>4, <2>1 DEF CommandInv, Reading, Planned
<1>5. ASSUME NEW p \in PlansFor(op.kind, v, op.force, online),
             op' = [op EXCEPT !.view = v, !.plan = p, !.pc = IF op.ui = "app" THEN "confirm" ELSE "save"]
      PROVE  /\ op' \in Commands /\ CommandInv' /\ op'.view = v /\ op'.plan = p /\ p # NoPlan
             /\ op'.dir = op.dir /\ op'.force = op.force /\ op'.ui = op.ui
             /\ op'.pc \in {"save", "confirm"} /\ (op'.pc = "confirm" <=> op.ui = "app")
  <2>1. p \in Plans /\ p # NoPlan /\ p.mode # "none" /\ p.target \in Banks
    BY <1>a, PlansAre DEF Commands
  <2>2. /\ op' \in Commands /\ op'.view = v /\ op'.plan = p
        /\ op'.dir = op.dir /\ op'.force = op.force /\ op'.ui = op.ui
        /\ op'.pc \in {"save", "confirm"} /\ (op'.pc = "confirm" <=> op.ui = "app")
    BY <1>a, <1>5, <2>1 DEF Commands, Steps
  <2> QED
    BY <1>a, <2>1, <2>2 DEF CommandInv, Reading, Planned
<1>6. CASE \E p \in PlansFor(op.kind, v, op.force, online) :
              op' = [op EXCEPT !.view = v, !.plan = p, !.pc = IF op.ui = "app" THEN "confirm" ELSE "save"]
  <2>1. PICK p \in PlansFor(op.kind, v, op.force, online) :
              op' = [op EXCEPT !.view = v, !.plan = p, !.pc = IF op.ui = "app" THEN "confirm" ELSE "save"]
    BY <1>6
  <2>2. /\ op' \in Commands /\ CommandInv' /\ op'.view = v /\ op'.plan = p /\ p # NoPlan
        /\ op'.dir = op.dir /\ op'.force = op.force /\ op'.ui = op.ui
        /\ op'.pc \in {"save", "confirm"} /\ (op'.pc = "confirm" <=> op.ui = "app")
    BY <1>5, <2>1
  <2> QED
    BY <1>1, <1>2, <2>2
<1> QED
  BY <1>a, <1>3, <1>4, <1>6, PlanLeads

\* Saving a file or the manifest keeps the directories typed.
LEMMA SaveDoes ==
    ASSUME TypedInv, op.dir \in Dirs
    PROVE  /\ \A b \in Banks, c \in Contents :
                 [disk EXCEPT ![op.dir].raw[b] = c] \in [Dirs -> Directories]
           /\ [disk EXCEPT ![op.dir].manifest = Manifest(op.view)] \in [Dirs -> Directories]
<1>a. disk \in [Dirs -> Directories] /\ op.view \in View
  BY DEF TypedInv, Commands
<1>1. Manifest(op.view) \in Manifests
  BY <1>a DEF Manifest, Manifests, Statuses, Matches
<1> QED
  BY <1>a, <1>1 DEF Directories

\* So does noting an inspection and its matches.
LEMMA NoteDoes ==
    ASSUME disk \in [Dirs -> Directories], NEW d \in Dirs, NEW v \in View, NEW match \in Matches
    PROVE  /\ [disk EXCEPT ![d].manifest.view = v] \in [Dirs -> Directories]
           /\ [disk EXCEPT ![d].manifest.view = v, ![d].manifest.apple = match] \in [Dirs -> Directories]
<1> DEFINE seen == [disk EXCEPT ![d].manifest.view = v]
<1>1. seen \in [Dirs -> Directories]
  BY DEF Directories, Manifests
<1>2. [disk EXCEPT ![d].manifest.view = v, ![d].manifest.apple = match]
         = [seen EXCEPT ![d].manifest.apple = match]
  OBVIOUS
<1> HIDE DEF seen
<1>3. [seen EXCEPT ![d].manifest.apple = match] \in [Dirs -> Directories]
  BY <1>1 DEF Directories, Manifests
<1> QED
  BY <1>1, <1>2, <1>3 DEF seen

\* A check against the templates keeps everything typed.
LEMMA CheckDoes ==
    ASSUME TypedInv, NEW d \in Dirs, NEW online, CheckApple(d, online)
    PROVE  /\ disk' \in [Dirs -> Directories] /\ cache' \in [Versions -> CacheStates]
           /\ catalog' \in BOOLEAN
           /\ \A e \in Dirs : disk'[e].raw = disk[e].raw /\ disk'[e].manifest.used = disk[e].manifest.used
           /\ UNCHANGED <<dev, op, approved, stale>>
<1> DEFINE v == SavedView(d)
           matches == [b \in Candidates(v) |-> MatchFor(cache, online, v.bank[b])]
           after(b, c) == IF b \in Candidates(v) THEN CacheAfter(c, online, "any", Matching(v.bank[b])) ELSE c
<1>a. v \in View /\ disk \in [Dirs -> Directories] /\ cache \in [Versions -> CacheStates]
  BY SavedViewTyped DEF TypedInv
<1>b. MatchStatus(matches) \in Matches
  BY DEF MatchStatus, Matches
<1>1. cache' = after("secondary", after("primary", cache))
  BY DEF CheckApple
<1>2. \A b, c : c \in [Versions -> CacheStates] => after(b, c) \in [Versions -> CacheStates]
  BY CacheAfterTyped
<1>3. cache' \in [Versions -> CacheStates]
  <2> HIDE DEF after
  <2> QED
    BY <1>a, <1>1, <1>2
<1>4. \/ UNCHANGED disk
      \/ disk' = [disk EXCEPT ![d].manifest.view = v, ![d].manifest.apple = MatchStatus(matches)]
  BY DEF CheckApple
<1>5. UNCHANGED <<dev, op, approved, stale>> /\ catalog' \in BOOLEAN
  BY DEF CheckApple
<1> HIDE DEF v, matches
<1>6. disk' \in [Dirs -> Directories]
  <2> DEFINE match == MatchStatus(matches)
  <2> HIDE DEF match
  <2>1. match \in Matches
    BY <1>b DEF match
  <2>2. [disk EXCEPT ![d].manifest.view = v, ![d].manifest.apple = match] \in [Dirs -> Directories]
    BY <1>a, <2>1, NoteDoes
  <2> QED
    BY <1>a, <1>4, <2>2 DEF match
<1>7. \A e \in Dirs : disk'[e].raw = disk[e].raw /\ disk'[e].manifest.used = disk[e].manifest.used
  BY <1>a, <1>4 DEF Directories, Manifests
<1> QED
  BY <1>3, <1>5, <1>6, <1>7

\* Every step keeps every variable typed and every command in its lane.
LEMMA ActsTyped == TypedInv /\ Next => TypedInv'
<1> SUFFICES ASSUME TypedInv, Next
             PROVE  TypedInv'
  OBVIOUS
<1> DEFINE Rest == dev' \in Devices /\ disk' \in [Dirs -> Directories]
                   /\ cache' \in [Versions -> CacheStates] /\ catalog' \in BOOLEAN
                   /\ stale' \in [Dirs -> {"fresh", "own", "other"}]
           Command == op' \in Commands /\ CommandInv'
<1>a. /\ dev \in Devices /\ disk \in [Dirs -> Directories] /\ op \in Commands /\ CommandInv
      /\ cache \in [Versions -> CacheStates] /\ catalog \in BOOLEAN
      /\ stale \in [Dirs -> {"fresh", "own", "other"}]
  BY DEF TypedInv
<1>b. /\ op.pc # "idle" => op.dir \in Dirs
      /\ op.pc \in Planned => op.plan # NoPlan
      /\ op.pc \in Reading => op.plan = NoPlan
  BY NothingTyped DEF TypedInv, CommandInv
<1>c. Done => Command
  BY EndsWell
<1>d. ASSUME NEW pc \in Planned, op.pc \in Planned, GoTo(pc)
      PROVE  Command
  BY <1>a, <1>b, <1>d, GoesOn DEF Planned, Reading, Steps
<1>e. op.pc \in Planned /\ Failed => Command
  BY <1>c, <1>d DEF Failed, Planned
<1>f. UNCHANGED op => Command
  BY <1>a DEF CommandInv
<1>g. Command /\ Rest => TypedInv'
  BY DEF TypedInv
<1> HIDE DEF Command
<1>1. ASSUME NEW d \in Dirs, NEW kind \in {"patch", "restore"}, NEW force \in BOOLEAN,
             StartBackup(d) \/ StartWrite(kind, d, force) \/ StartCli(kind, d, force)
      PROVE  TypedInv'
  <2>1. PICK ui \in {"app", "cli"}, what \in {"backup", "patch", "restore"}, f \in BOOLEAN, pc \in {"read", "plan"} :
           Start(ui, what, d, f, pc)
    BY <1>1, StartsAre
  <2> QED
    BY <1>a, <1>g, <2>1, StartDoes DEF Command
<1>2. CASE ReadFlash
  BY <1>a, <1>g, <1>2, ReadDoes DEF ReadFlash, Command
<1>3. ASSUME NEW b \in Banks, SaveRaw(b)
      PROVE  TypedInv'
  <2>1. op.dir \in Dirs /\ op.view.bank[b] \in Contents /\ op.plan = NoPlan /\ op.pc # "idle"
    BY <1>a, <1>b, <1>3 DEF SaveRaw, Commands, View, Reading
  <2>2. disk' \in [Dirs -> Directories]
    BY <1>3, <2>1, SaveDoes DEF SaveRaw
  <2>3. PICK pc \in {"save_secondary", "save", "plan"} : GoTo(pc)
    BY <1>3 DEF SaveRaw
  <2>4. Command
    BY <1>a, <2>1, <2>3, GoesOn DEF Command, Steps, Planned
  <2> QED
    BY <1>a, <1>3, <1>g, <2>2, <2>4 DEF SaveRaw
<1>4. CASE SaveManifest
  <2>1. op.dir \in Dirs /\ op.pc # "idle"
    BY <1>b, <1>4 DEF SaveManifest
  <2>2. disk' \in [Dirs -> Directories]
    BY <1>4, <2>1, SaveDoes DEF SaveManifest
  <2>3. Command
    BY <1>a, <1>c, <1>4, <2>1, GoesOn DEF SaveManifest, Command, Steps, Reading
  <2>4. stale' \in [Dirs -> {"fresh", "own", "other"}]
    BY <1>a, <1>4 DEF SaveManifest
  <2> QED
    BY <1>a, <1>4, <1>g, <2>2, <2>3, <2>4 DEF SaveManifest
<1>5. ASSUME NEW online \in BOOLEAN, PlanCli(online)
      PROVE  TypedInv'
  <2>1. Plan(op.view, online) /\ op.pc = "plan" /\ op.view \in View
    BY <1>a, <1>5 DEF PlanCli, At, Commands
  <2>2. Command /\ cache' \in [Versions -> CacheStates] /\ catalog' \in BOOLEAN
    BY <2>1, PlanDoes DEF Command
  <2> QED
    BY <1>a, <1>5, <1>g, <2>2 DEF PlanCli
<1>6. ASSUME NEW online \in BOOLEAN, PlanFromBackup(online)
      PROVE  TypedInv'
  <2>1. op.pc = "plan" /\ op.dir \in Dirs
    BY <1>b, <1>6 DEF PlanFromBackup, At
  <2>2. CASE disk[op.dir].manifest.used
    BY <1>a, <1>c, <1>6, <1>g, <2>2 DEF PlanFromBackup
  <2>3. CASE ~disk[op.dir].manifest.used
    <3>1. Plan(SavedView(op.dir), online) /\ SavedView(op.dir) \in View
      BY <1>a, <1>6, <2>1, <2>3, SavedViewTyped DEF PlanFromBackup
    <3>2. Command /\ cache' \in [Versions -> CacheStates] /\ catalog' \in BOOLEAN
      BY <2>1, <3>1, PlanDoes DEF Command
    <3>3. UNCHANGED disk \/ disk' = [disk EXCEPT ![op.dir].manifest.view = SavedView(op.dir)]
      BY <1>6, <2>3 DEF PlanFromBackup
    <3>4. [disk EXCEPT ![op.dir].manifest.view = SavedView(op.dir)] \in [Dirs -> Directories]
      BY <1>a, <2>1, <3>1, NoteDoes DEF Matches
    <3> QED
      BY <1>a, <1>6, <1>g, <3>2, <3>3, <3>4 DEF PlanFromBackup
  <2> QED
    BY <2>2, <2>3
<1>7. ASSUME NEW online \in BOOLEAN, NEW d \in Dirs, CheckApple(d, online)
      PROVE  TypedInv'
  BY <1>a, <1>f, <1>7, <1>g, CheckDoes
<1>8. CASE NotNeeded
  BY <1>a, <1>b, <1>c, <1>8, <1>g, RecordDoes DEF NotNeeded, Statuses
<1>9. CASE ConfirmApp
  BY <1>a, <1>c, <1>d, <1>9, <1>g DEF ConfirmApp, At, Planned
<1>10. CASE ConfirmCli
  <2>1. op.pc = "confirm" /\ op.dir \in Dirs
    BY <1>b, <1>10 DEF ConfirmCli, At
  <2>2. Command
    BY <1>c, <1>d, <1>10, <2>1 DEF ConfirmCli, Planned
  <2>3. disk' \in [Dirs -> Directories]
    BY <1>a, <1>10, <2>1, RecordDoes DEF ConfirmCli, Statuses
  <2> QED
    BY <1>a, <1>10, <1>g, <2>2, <2>3 DEF ConfirmCli
<1>11. CASE ValidateLive
  BY <1>a, <1>c, <1>d, <1>11, <1>g DEF ValidateLive, Planned
<1>12. CASE RecordAttempt
  <2>1. op.pc = "record" /\ op.dir \in Dirs
    BY <1>b, <1>12 DEF RecordAttempt
  <2>2. Command
    BY <1>d, <1>12, <2>1 DEF RecordAttempt, Planned
  <2>3. disk' \in [Dirs -> Directories]
    BY <1>a, <1>12, <2>1, RecordDoes DEF RecordAttempt, Statuses
  <2> QED
    BY <1>a, <1>12, <1>g, <2>2, <2>3 DEF RecordAttempt
<1>13. CASE AcpWrite
  <2>1. dev' \in Devices
    BY <1>13, WriteDoes
  <2>2. Command
    BY <1>d, <1>e, <1>13 DEF AcpWrite, Planned
  <2>3. stale' \in [Dirs -> {"fresh", "own", "other"}]
    BY <1>13 DEF AcpWrite, Began
  <2> QED
    BY <1>a, <1>13, <1>g, <2>1, <2>2, <2>3 DEF AcpWrite
<1>14. CASE ReadBack
  BY <1>a, <1>d, <1>e, <1>14, <1>g DEF ReadBack, Planned
<1>15. CASE CheckCks
  <2>1. op.pc = "cks" /\ op.dir \in Dirs
    BY <1>b, <1>15 DEF CheckCks
  <2>2. Command
    BY <1>d, <1>e, <1>15, <2>1 DEF CheckCks, Planned
  <2>3. disk' \in [Dirs -> Directories]
    BY <1>a, <1>15, <2>1, RecordDoes DEF CheckCks, Statuses
  <2> QED
    BY <1>a, <1>15, <1>g, <2>2, <2>3 DEF CheckCks
<1>16. CASE RecordFailed
  BY <1>a, <1>b, <1>c, <1>16, <1>g, RecordDoes DEF RecordFailed, Statuses
<1>17. CASE Finish
  BY <1>a, <1>c, <1>17, <1>g, BootDoes DEF Finish, Devices
<1>18. CASE Unreachable
  BY <1>a, <1>c, <1>e, <1>18, <1>g DEF Unreachable, Planned
<1>19. CASE HostCrash
  BY <1>a, <1>c, <1>19, <1>g DEF HostCrash
<1>20. CASE PowerCycle \/ PowerOn
  BY <1>a, <1>f, <1>20, <1>g, BootDoes DEF PowerCycle, PowerOn, Devices
<1>21. ASSUME NEW b \in Banks, NEW x \in Versions, AppleUpgrade(b, x)
       PROVE  TypedInv'
  <2>1. [dev.bank EXCEPT ![b] = Whole(Stock(x))] \in [Banks -> Contents]
    BY <1>a DEF Devices, Whole, Stock, Contents, Images
  <2>2. dev' \in Devices
    BY <1>21, <2>1, BootDoes DEF AppleUpgrade
  <2> QED
    BY <1>a, <1>f, <1>21, <1>g, <2>2 DEF AppleUpgrade
<1> QED
  BY <1>1, <1>2, <1>3, <1>4, <1>5, <1>6, <1>7, <1>8, <1>9, <1>10, <1>11, <1>12, <1>13, <1>14, <1>15, <1>16,
     <1>17, <1>18, <1>19, <1>20, <1>21 DEF Next, Device

LEMMA InitTyped == Init => TypedInv
<1> SUFFICES ASSUME Init
             PROVE  TypedInv
  OBVIOUS
<1>1. dev \in Devices
  <2>1. PICK i \in [Banks -> Images] :
           dev = [bank |-> [b \in Banks |-> Whole(i[b])], cks |-> i, run |-> i["primary"]]
    BY ShippedAssumption DEF Init
  <2>2. [b \in Banks |-> Whole(i[b])] \in [Banks -> Contents] /\ i["primary"] \in Images
    BY DEF Whole, Contents, Banks
  <2> QED
    BY <2>1, <2>2 DEF Devices
<1>2. disk \in [Dirs -> Directories]
  <2>1. [b \in Banks |-> Whole(Blank)] \in [Banks -> Contents]
    BY DEF Whole, Contents
  <2> QED
    BY <2>1, NothingTyped DEF Init, Directories
<1>3. cache \in [Versions -> CacheStates] /\ catalog \in BOOLEAN
  BY DEF Init, CacheStates
<1>4. op \in Commands /\ CommandInv
  BY NothingTyped DEF Init, CommandInv, Reading, Planned
<1>5. stale \in [Dirs -> {"fresh", "own", "other"}]
  BY DEF Init
<1> QED
  BY <1>1, <1>2, <1>3, <1>4, <1>5 DEF TypedInv

LEMMA Typed == Spec => []TypedInv
<1>1. TypedInv /\ [Next]_vars => TypedInv'
  <2>1. TypedInv /\ UNCHANGED vars => TypedInv'
    BY DEF TypedInv, CommandInv, vars
  <2> QED
    BY <2>1, ActsTyped
<1> QED
  BY <1>1, InitTyped, PTL DEF Spec

\* Every bank, backup, plan and cached template is one the code can produce,
\* whatever was interrupted, written or upgraded in between
\* (services/flash.py, flash_workflow.py).
THEOREM TypeCorrect == Spec => []TypeOK
<1>1. TypedInv => TypeOK
  <2> SUFFICES ASSUME TypedInv
               PROVE  TypeOK
    OBVIOUS
  <2>1. dev \in [bank : [Banks -> Contents], cks : [Banks -> Images \union {Blank}], run : Images \union {Blank}]
    BY DEF TypedInv, Devices
  <2>2. \A d \in Dirs : /\ disk[d].raw \in [Banks -> Contents] /\ disk[d].manifest.view \in View
                        /\ disk[d].manifest.used \in BOOLEAN /\ disk[d].manifest.status \in Statuses
    BY DEF TypedInv, Directories, Manifests
  <2>3. op.plan.payload \in Images \union {Blank} /\ op.view \in View
    BY DEF TypedInv, Commands, Plans
  <2> QED
    BY <2>1, <2>2, <2>3 DEF TypedInv, TypeOK, Statuses
<1> QED
  BY <1>1, Typed, PTL

-----------------------------------------------------------------------------
(* One write per backup.                                                   *)

\* The mark goes on before the command does, and only a new backup takes it off.
LEMMA ActsUse == TypedInv /\ UsedInv /\ Next => UsedInv'
<1> SUFFICES ASSUME TypedInv, UsedInv, Next
             PROVE  UsedInv'
  OBVIOUS
<1>a. /\ disk \in [Dirs -> Directories] /\ op \in Commands /\ stale \in [Dirs -> {"fresh", "own", "other"}]
  BY DEF TypedInv
<1>b. /\ op.pc # "idle" => op.dir \in Dirs
      /\ op.pc \in Reading => op.plan = NoPlan
      /\ op.pc \in Planned => op.plan # NoPlan
  BY NothingTyped DEF TypedInv, CommandInv
<1>c. Done => op'.pc = "idle"
  BY EndsWell
<1>d. ASSUME NEW pc \in Steps, GoTo(pc)
      PROVE  op'.pc = pc /\ op'.dir = op.dir
  BY <1>a, <1>d, GoToDoes
<1>e. Failed => op'.pc \in {"idle", "failed"}
  BY <1>c, <1>d DEF Failed, Steps
<1>f. ASSUME UNCHANGED <<disk, stale>>, op'.pc \notin Unwritten
      PROVE  UsedInv'
  BY <1>f DEF UsedInv, Unwritten
<1>g. ASSUME UNCHANGED <<disk, stale>>, op.pc \in Unwritten, op'.pc \in Unwritten \ {"acp"}, op'.dir = op.dir
      PROVE  UsedInv'
  BY <1>g DEF UsedInv
<1>h. ASSUME NEW status \in Statuses, NEW used \in BOOLEAN, Record(status, used), op.dir \in Dirs, UNCHANGED stale,
             used \/ stale[op.dir] # "own", op'.pc \notin Unwritten
      PROVE  UsedInv'
  BY <1>a, <1>h, RecordDoes DEF UsedInv, Unwritten
<1>1. ASSUME NEW d \in Dirs, NEW kind \in {"patch", "restore"}, NEW force \in BOOLEAN,
             StartBackup(d) \/ StartWrite(kind, d, force) \/ StartCli(kind, d, force)
      PROVE  UsedInv'
  <2>1. PICK ui \in {"app", "cli"}, what \in {"backup", "patch", "restore"}, f \in BOOLEAN, pc \in {"read", "plan"} :
           Start(ui, what, d, f, pc)
    BY <1>1, StartsAre
  <2> QED
    BY <1>f, <2>1, StartDoes DEF Unwritten
<1>2. CASE ReadFlash
  BY <1>f, <1>2, ReadDoes DEF ReadFlash, Unwritten
<1>3. ASSUME NEW b \in Banks, SaveRaw(b)
      PROVE  UsedInv'
  <2>1. op'.pc \notin Unwritten
    BY <1>d, <1>3 DEF SaveRaw, Unwritten, Steps
  <2>2. \A d \in Dirs : disk'[d].manifest = disk[d].manifest
    BY <1>a, <1>3 DEF SaveRaw, Directories
  <2> QED
    BY <1>3, <2>1, <2>2 DEF SaveRaw, UsedInv, Unwritten
<1>4. CASE SaveManifest
  <2>1. op.dir \in Dirs
    BY <1>b, <1>4 DEF SaveManifest
  <2>2. op'.pc = "idle" \/ (op'.pc = "confirm" /\ op'.dir = op.dir)
    BY <1>c, <1>d, <1>4 DEF SaveManifest, Steps
  <2>3. stale'[op.dir] = "fresh" /\ \A d \in Dirs \ {op.dir} : stale'[d] = stale[d] /\ disk'[d] = disk[d]
    BY <1>a, <1>4, <2>1 DEF SaveManifest
  <2> QED
    BY <2>1, <2>2, <2>3 DEF UsedInv, Unwritten
<1>5. ASSUME NEW online \in BOOLEAN, PlanCli(online)
      PROVE  UsedInv'
  <2>1. Plan(op.view, online) /\ op.pc = "plan" /\ op.view \in View /\ op.ui = "cli"
    BY <1>a, <1>5 DEF PlanCli, At, Commands
  <2>2. op'.pc \in {"idle", "save"}
    BY <2>1, PlanDoes
  <2> QED
    BY <1>5, <1>f, <2>2 DEF PlanCli, Unwritten
<1>6. ASSUME NEW online \in BOOLEAN, PlanFromBackup(online)
      PROVE  UsedInv'
  <2>1. op.pc = "plan" /\ op.dir \in Dirs /\ UNCHANGED stale
    BY <1>b, <1>6 DEF PlanFromBackup, At
  <2>2. CASE disk[op.dir].manifest.used
    BY <1>c, <1>f, <1>6, <2>1, <2>2 DEF PlanFromBackup, Unwritten
  <2>3. CASE ~disk[op.dir].manifest.used
    <3>1. Plan(SavedView(op.dir), online) /\ SavedView(op.dir) \in View
      BY <1>a, <1>6, <2>1, <2>3, SavedViewTyped DEF PlanFromBackup
    <3>2. op'.pc \in {"idle", "save", "confirm"} /\ (op'.pc = "confirm" => op'.dir = op.dir)
      BY <2>1, <3>1, PlanDoes
    <3>3. UNCHANGED disk \/ disk' = [disk EXCEPT ![op.dir].manifest.view = SavedView(op.dir)]
      BY <1>6, <2>3 DEF PlanFromBackup
    <3>4. \A d \in Dirs : disk'[d].manifest.used = disk[d].manifest.used
      <4>1. ASSUME NEW v, disk' = [disk EXCEPT ![op.dir].manifest.view = v]
            PROVE  \A d \in Dirs : disk'[d].manifest.used = disk[d].manifest.used
        BY <1>a, <2>1, <4>1 DEF Directories, Manifests
      <4> QED
        BY <3>3, <4>1
    <3>5. stale[op.dir] # "own"
      BY <2>1, <2>3 DEF UsedInv
    <3> QED
      BY <2>1, <3>2, <3>4, <3>5 DEF UsedInv, Unwritten
  <2> QED
    BY <2>2, <2>3
<1>7. ASSUME NEW online \in BOOLEAN, NEW d \in Dirs, CheckApple(d, online)
      PROVE  UsedInv'
  <2>1. op.pc = "idle"
    BY <1>7, NothingTyped DEF CheckApple
  <2> QED
    BY <1>7, <2>1, CheckDoes DEF UsedInv, Unwritten
<1>8. CASE NotNeeded
  <2>1. op.pc = "confirm" /\ op.dir \in Dirs /\ Record("not_needed", FALSE) /\ Done /\ UNCHANGED stale
    BY <1>b, <1>8 DEF NotNeeded
  <2>2. stale[op.dir] # "own"
    BY <2>1 DEF UsedInv, Unwritten
  <2> QED
    BY <1>c, <1>h, <2>1, <2>2 DEF Statuses, Unwritten
<1>9. CASE ConfirmApp
  BY <1>c, <1>d, <1>f, <1>g, <1>9 DEF ConfirmApp, At, Unwritten, Steps
<1>10. CASE ConfirmCli
  <2>1. op.pc = "confirm" /\ op.dir \in Dirs /\ UNCHANGED stale
    BY <1>b, <1>10 DEF ConfirmCli, At
  <2>2. stale[op.dir] # "own"
    BY <2>1 DEF UsedInv, Unwritten
  <2>3. CASE GoTo("record") /\ UNCHANGED disk
    BY <1>d, <1>g, <2>1, <2>3 DEF Unwritten, Steps
  <2>4. CASE Record("cancelled", FALSE) /\ Done
    BY <1>c, <1>h, <2>1, <2>2, <2>4 DEF Statuses, Unwritten
  <2> QED
    BY <1>10, <2>3, <2>4 DEF ConfirmCli
<1>11. CASE ValidateLive
  BY <1>c, <1>d, <1>f, <1>g, <1>11 DEF ValidateLive, Unwritten, Steps
<1>12. CASE RecordAttempt
  <2>1. op.pc = "record" /\ op.dir \in Dirs /\ Record("attempting", TRUE) /\ op'.pc = "acp" /\ op'.dir = op.dir
        /\ UNCHANGED stale
    BY <1>b, <1>d, <1>12 DEF RecordAttempt, Steps
  <2>2. disk'[op.dir].manifest.used /\ \A d \in Dirs \ {op.dir} : disk'[d] = disk[d]
    BY <1>a, <2>1, RecordDoes DEF Statuses
  <2> QED
    BY <2>1, <2>2 DEF UsedInv, Unwritten
<1>13. CASE AcpWrite
  <2>1. op.pc = "acp" /\ op.dir \in Dirs /\ UNCHANGED disk
    BY <1>b, <1>13 DEF AcpWrite
  <2>2. op'.pc \in {"idle", "failed", "readback"}
    BY <1>d, <1>e, <1>13 DEF AcpWrite, Steps
  <2>3. \A d \in Dirs : stale'[d] = "own" => d = op.dir \/ stale[d] = "own"
    BY <1>13 DEF AcpWrite, Began
  <2> QED
    BY <2>1, <2>2, <2>3 DEF UsedInv, Unwritten
<1>14. CASE ReadBack
  BY <1>d, <1>e, <1>f, <1>14 DEF ReadBack, Unwritten, Steps
<1>15. CASE CheckCks
  <2>1. op.pc = "cks" /\ op.dir \in Dirs /\ UNCHANGED stale
    BY <1>b, <1>15 DEF CheckCks
  <2>2. op'.pc \notin Unwritten
    BY <1>d, <1>e, <1>15 DEF CheckCks, Unwritten, Steps
  <2> QED
    BY <1>f, <1>h, <1>15, <2>1, <2>2 DEF CheckCks, Statuses
<1>16. CASE RecordFailed
  BY <1>b, <1>c, <1>h, <1>16 DEF RecordFailed, Statuses, Unwritten
<1>17. CASE Finish
  BY <1>c, <1>f, <1>17 DEF Finish, Unwritten
<1>18. CASE Unreachable
  BY <1>c, <1>e, <1>f, <1>18 DEF Unreachable, Unwritten
<1>19. CASE HostCrash
  BY <1>c, <1>f, <1>19 DEF HostCrash, Unwritten
<1>20. CASE Device
  BY <1>20 DEF Device, PowerCycle, PowerOn, AppleUpgrade, UsedInv
<1> QED
  BY <1>1, <1>2, <1>3, <1>4, <1>5, <1>6, <1>7, <1>8, <1>9, <1>10, <1>11, <1>12, <1>13, <1>14, <1>15, <1>16,
     <1>17, <1>18, <1>19, <1>20 DEF Next

\* A backup that a write began from serves no other write, whatever came of
\* the first and wherever the host died (services/flash.py,
\* require_backup_fresh_for_plan).
THEOREM OneWrite == Spec => []OneWritePerBackup
<1>1. Init => UsedInv
  BY NothingTyped DEF Init, UsedInv, Unwritten
<1>2. TypedInv /\ UsedInv /\ [Next]_vars => UsedInv'
  <2>1. UsedInv /\ UNCHANGED vars => UsedInv'
    BY DEF UsedInv, vars
  <2> QED
    BY <2>1, ActsUse
<1>3. UsedInv => OneWritePerBackup
  BY DEF UsedInv, OneWritePerBackup, Writing, Unwritten
<1> QED
  BY <1>1, <1>2, <1>3, Typed, PTL DEF Spec

-----------------------------------------------------------------------------
(* Plans and confirmations.                                                *)

\* A write goes on to the last look only with what was approved.
LEMMA ActsApprove ==
    ASSUME TypedInv, ApprovedInv, Next
    PROVE  ApprovedInv'
<1> DEFINE Kept == op'.plan = op.plan /\ op'.view = op.view
           Goal == ApprovedInv'
<1>a. op \in Commands
  BY DEF TypedInv
<1>b. Done => op'.pc # "validate"
  BY EndsWell
<1>c. ASSUME NEW pc \in Steps, GoTo(pc)
      PROVE  Kept /\ op'.pc = pc
  BY <1>a, <1>c, GoToDoes
<1>d. op'.pc # "validate" => Goal
  BY DEF ApprovedInv
<1>e. Done => Goal
  BY <1>b, <1>d
<1>f. ASSUME NEW pc \in Steps \ {"validate"}, GoTo(pc)
      PROVE  Goal
  BY <1>c, <1>d, <1>f
<1>g. Failed => Goal
  BY <1>e, <1>f DEF Failed, Steps
<1>h. UNCHANGED <<op, approved>> => Goal
  BY DEF ApprovedInv, Context
<1>i. ASSUME op.pc = "plan", NEW v \in View, NEW online, Plan(v, online)
      PROVE  Goal
  BY <1>d, <1>i, PlanDoes
<1>1. ASSUME NEW d \in Dirs, NEW kind \in {"patch", "restore"}, NEW force \in BOOLEAN,
             StartBackup(d) \/ StartWrite(kind, d, force) \/ StartCli(kind, d, force)
      PROVE  Goal
  BY <1>1, <1>d, StartsAre, StartDoes
<1>2. CASE ReadFlash
  <2>1. op'.plan = NoPlan /\ op'.pc = "save_primary"
    BY <1>2, ReadDoes DEF ReadFlash, TypedInv, CommandInv, Reading
  <2> QED
    BY <1>d, <2>1
<1>3. ASSUME NEW b \in Banks, SaveRaw(b)
      PROVE  Goal
  BY <1>3, <1>f DEF SaveRaw, Steps
<1>4. CASE SaveManifest
  BY <1>4, <1>e, <1>f DEF SaveManifest, Steps
<1>5. ASSUME NEW online \in BOOLEAN, PlanCli(online)
      PROVE  Goal
  BY <1>5, <1>a, <1>i DEF PlanCli, At, Commands
<1>6. ASSUME NEW online \in BOOLEAN, PlanFromBackup(online)
      PROVE  Goal
  <2>1. op.pc = "plan" /\ op.dir \in Dirs
    BY <1>6, NothingTyped DEF PlanFromBackup, At, TypedInv, CommandInv
  <2>2. Done \/ Plan(SavedView(op.dir), online)
    BY <1>6 DEF PlanFromBackup
  <2> QED
    BY <1>e, <1>i, <2>1, <2>2, SavedViewTyped DEF TypedInv
<1>7. ASSUME NEW online \in BOOLEAN, NEW d \in Dirs, CheckApple(d, online)
      PROVE  Goal
  BY <1>7, <1>h, CheckDoes
<1>8. CASE NotNeeded
  BY <1>8, <1>e DEF NotNeeded
<1>9. CASE ConfirmApp
  <2>1. CASE GoTo("validate") /\ approved = Context /\ UNCHANGED approved
    <3>1. op' \in Commands /\ Kept /\ op'.dir = op.dir /\ op'.kind = op.kind /\ op'.force = op.force
      BY <1>a, <2>1, GoToDoes DEF Steps
    <3> QED
      BY <2>1, <3>1 DEF ApprovedInv, Context
  <2> QED
    BY <1>9, <1>e, <2>1 DEF ConfirmApp
<1>10. CASE ConfirmCli
  BY <1>10, <1>e, <1>f DEF ConfirmCli, Steps
<1>11. CASE ValidateLive
  BY <1>11, <1>e, <1>f DEF ValidateLive, Steps
<1>12. CASE RecordAttempt
  BY <1>12, <1>f DEF RecordAttempt, Steps
<1>13. CASE AcpWrite
  BY <1>13, <1>f, <1>g DEF AcpWrite, Steps
<1>14. CASE ReadBack
  BY <1>14, <1>f, <1>g DEF ReadBack, Steps
<1>15. CASE CheckCks
  BY <1>15, <1>f, <1>g DEF CheckCks, Steps
<1>16. CASE RecordFailed \/ Finish \/ HostCrash
  BY <1>16, <1>e DEF RecordFailed, Finish, HostCrash
<1>17. CASE Unreachable
  BY <1>17, <1>e, <1>g DEF Unreachable
<1>18. CASE Device
  BY <1>18, <1>h DEF Device, PowerCycle, PowerOn, AppleUpgrade
<1> QED
  BY <1>1, <1>2, <1>3, <1>4, <1>5, <1>6, <1>7, <1>8, <1>9, <1>10, <1>11, <1>12, <1>13, <1>14, <1>15, <1>16,
     <1>17, <1>18 DEF Next

\* The app's last look at the device before a write finds in the target bank
\* what the user confirmed, however many requests, upgrades and power cuts lie
\* between (services/flash.py, validate_live_target_matches_backup).
THEOREM ConfirmedIsWritten == Spec => WritesTheConfirmed
<1> DEFINE Step == op.pc = "validate" /\ op'.pc = "record" => dev.bank[Target] = approved.base
<1>1. Init => ApprovedInv
  BY NothingTyped DEF Init, ApprovedInv
<1>2. TypedInv /\ ApprovedInv /\ [Next]_vars => ApprovedInv'
  <2>1. ApprovedInv /\ UNCHANGED vars => ApprovedInv'
    BY DEF ApprovedInv, Context, vars
  <2> QED
    BY <2>1, ActsApprove
<1>3. TypedInv /\ ApprovedInv /\ [Next]_vars => [Step]_vars
  <2> SUFFICES ASSUME TypedInv, ApprovedInv, Next, op.pc = "validate", op'.pc = "record"
               PROVE  dev.bank[Target] = approved.base
    OBVIOUS
  <2>1. approved.base = op.view.bank[op.plan.target]
    BY DEF ApprovedInv, Context
  <2>2. ~Done /\ op # Idle /\ op' # op
    BY NothingTyped DEF Done
  <2>3. CASE ValidateLive
    BY <2>1, <2>2, <2>3 DEF ValidateLive, Target
  <2>4. ~(HostCrash \/ Unreachable \/ Device)
    BY <2>2 DEF HostCrash, Unreachable, Device, PowerCycle, PowerOn, AppleUpgrade
  <2> QED
    BY <2>2, <2>3, <2>4 DEF Next, Start, StartBackup, StartWrite, StartCli, ReadFlash, SaveRaw, SaveManifest, PlanCli,
       PlanFromBackup, CheckApple, NotNeeded, ConfirmApp, ConfirmCli, RecordAttempt, AcpWrite, ReadBack, CheckCks,
       RecordFailed, Finish, At
<1> QED
  BY <1>1, <1>2, <1>3, Typed, PTL DEF Spec, WritesTheConfirmed

-----------------------------------------------------------------------------
(* A fresh write keeps a bank.                                             *)

\* Nothing but a write takes a bank from the device.
Mends == \A b \in Banks : Intact(dev.bank[b]) => Intact(dev'.bank[b])

LEMMA DeviceMends ==
    ASSUME TypedInv, Device \/ Finish
    PROVE  Mends
<1>a. dev \in Devices /\ dev.bank \in [Banks -> Contents]
  BY DEF TypedInv, Devices
<1>1. CASE PowerCycle \/ PowerOn \/ Finish
  BY <1>a, <1>1, BootDoes DEF PowerCycle, PowerOn, Finish, Mends
<1>2. ASSUME NEW b \in Banks, NEW x \in Versions, AppleUpgrade(b, x)
      PROVE  Mends
  <2>1. Stock(x) \in Images /\ Stock(x) # Blank
    BY BlankIsNoImage DEF Stock, Images
  <2>2. Intact(Whole(Stock(x))) /\ Whole(Stock(x)) \in Contents
    BY <2>1 DEF Intact, Whole, Contents
  <2>3. dev'.bank = [dev.bank EXCEPT ![b] = Whole(Stock(x))]
    BY <1>a, <1>2, <2>2, BootDoes DEF AppleUpgrade
  <2> QED
    BY <1>a, <2>2, <2>3 DEF Mends
<1> QED
  BY <1>1, <1>2 DEF Device

\* A backup stays no better than the device until a write begins.
LEMMA ActsFresh == TypedInv /\ FreshInv /\ Next => FreshInv'
<1> SUFFICES ASSUME TypedInv, FreshInv, Next
             PROVE  FreshInv'
  OBVIOUS
<1>a. /\ disk \in [Dirs -> Directories] /\ op \in Commands /\ stale \in [Dirs -> {"fresh", "own", "other"}]
  BY DEF TypedInv
<1>b. /\ op.pc # "idle" => op.dir \in Dirs
      /\ op.pc \in Reading => op.plan = NoPlan
  BY NothingTyped DEF TypedInv, CommandInv
<1>c. Done => op'.pc = "idle" /\ op'.plan = NoPlan
  BY EndsWell
<1>d. ASSUME NEW pc \in Steps, GoTo(pc)
      PROVE  /\ op'.pc = pc /\ op'.view = op.view /\ op'.plan = op.plan
             /\ op'.dir = op.dir /\ op'.ui = op.ui /\ op'.force = op.force
  BY <1>a, <1>d, GoToDoes
<1>e. UNCHANGED dev => Mends
  BY DEF Mends
<1>f. ASSUME Mends
      PROVE  \A bank : NoWorse(bank) => \A b \in Banks : Intact(bank[b]) => Intact(dev'.bank[b])
  BY <1>f DEF Mends, NoWorse
<1>g. ASSUME UNCHANGED stale, \A d \in Dirs : disk'[d].raw = disk[d].raw, Mends
      PROVE  \A d \in Dirs : stale'[d] = "fresh" => NoWorse(disk[d].raw)'
  BY <1>f, <1>g DEF FreshInv, NoWorse
<1>h. ASSUME UNCHANGED stale, \A d \in Dirs : disk'[d].raw = disk[d].raw, Mends, Done
      PROVE  FreshInv'
  BY <1>c, <1>g, <1>h DEF FreshInv, JustRead, At, Unwritten
<1>i. ASSUME UNCHANGED stale, \A d \in Dirs : disk'[d].raw = disk[d].raw, UNCHANGED dev,
             op.pc \in Planned, NEW pc \in Planned, GoTo(pc), pc \in Unwritten => op.pc \in Unwritten
      PROVE  FreshInv'
  <2>1. \A d \in Dirs : stale'[d] = "fresh" => NoWorse(disk[d].raw)'
    BY <1>e, <1>g, <1>i
  <2>2. /\ op'.pc = pc /\ op'.view = op.view /\ op'.plan = op.plan
        /\ op'.dir = op.dir /\ op'.ui = op.ui /\ op'.force = op.force
    BY <1>d, <1>i DEF Planned, Steps
  <2>3. op'.pc \in Unwritten /\ stale'[op'.dir] = "fresh" => NoWorse(op.view.bank)'
    BY <1>i, <2>2 DEF FreshInv, NoWorse
  <2> QED
    BY <1>i, <2>1, <2>2, <2>3 DEF FreshInv, JustRead, At, Planned
<1>j. ASSUME UNCHANGED <<stale, disk, op>>, Mends
      PROVE  FreshInv'
  <2>1. \A d \in Dirs : stale'[d] = "fresh" => NoWorse(disk[d].raw)'
    BY <1>g, <1>j
  <2>2. NoWorse(op.view.bank) => NoWorse(op.view.bank)'
    BY <1>f, <1>j DEF NoWorse
  <2> QED
    BY <1>j, <2>1, <2>2 DEF FreshInv, JustRead, At
<1>k. op.pc \in Planned /\ Failed /\ UNCHANGED <<stale, disk, dev>> => FreshInv'
  BY <1>e, <1>h, <1>i DEF Failed, Planned, Unwritten
<1>1. ASSUME NEW d \in Dirs, NEW kind \in {"patch", "restore"}, NEW force \in BOOLEAN,
             StartBackup(d) \/ StartWrite(kind, d, force) \/ StartCli(kind, d, force)
      PROVE  FreshInv'
  <2>1. PICK ui \in {"app", "cli"}, what \in {"backup", "patch", "restore"}, f \in BOOLEAN, pc \in {"read", "plan"} :
           Start(ui, what, d, f, pc) /\ (pc = "plan" => ui = "app")
    BY <1>1, StartsAre
  <2>2. /\ op'.pc = pc /\ op'.ui = ui /\ op'.plan = NoPlan /\ UNCHANGED <<dev, disk, stale>>
    BY <2>1, StartDoes
  <2> QED
    BY <1>e, <1>g, <2>1, <2>2 DEF FreshInv, JustRead, At, Unwritten
<1>2. CASE ReadFlash
  <2>1. /\ op'.pc = "save_primary" /\ op'.view.bank = dev.bank /\ op'.plan = NoPlan
        /\ UNCHANGED <<dev, disk, stale>>
    BY <1>2, <1>b, ReadDoes DEF ReadFlash, Reading
  <2>2. NoWorse(op.view.bank)'
    BY <2>1 DEF NoWorse
  <2> QED
    BY <1>e, <1>g, <2>1, <2>2 DEF FreshInv, JustRead, At, Unwritten
<1>3. ASSUME NEW b \in Banks, SaveRaw(b)
      PROVE  FreshInv'
  <2>1. /\ op.pc \in {"save_primary", "save_secondary"} /\ op.dir \in Dirs /\ UNCHANGED <<dev, stale>>
        /\ b = (IF op.pc = "save_primary" THEN "primary" ELSE "secondary")
    BY <1>b, <1>3 DEF SaveRaw, Banks
  <2>2. PICK pc \in {"save_secondary", "save", "plan"} :
           /\ GoTo(pc) /\ (pc = "save_secondary" <=> b = "primary") /\ (pc = "save" => op.ui = "app")
    BY <1>3, <2>1 DEF SaveRaw
  <2>3. /\ op'.pc = pc /\ op'.view = op.view /\ op'.plan = NoPlan /\ op'.dir = op.dir /\ op'.ui = op.ui
    BY <1>b, <1>d, <2>1, <2>2 DEF Steps, Reading
  <2>4. /\ disk' = [disk EXCEPT ![op.dir].raw[b] = op.view.bank[b]]
        /\ disk[op.dir].raw \in [Banks -> Contents] /\ op.view.bank \in [Banks -> Contents]
    BY <1>a, <1>3, <2>1 DEF SaveRaw, Directories, Commands, View
  <2>5. /\ disk'[op.dir].raw = [disk[op.dir].raw EXCEPT ![b] = op.view.bank[b]]
        /\ \A d \in Dirs \ {op.dir} : disk'[d] = disk[d]
    BY <1>a, <2>1, <2>4 DEF Directories
  <2>6. NoWorse(op.view.bank)
    BY <2>1 DEF FreshInv, JustRead
  <2>7. \A d \in Dirs : stale'[d] = "fresh" => NoWorse(disk[d].raw)'
    <3>1. stale[op.dir] = "fresh" => NoWorse(disk[op.dir].raw)
      BY <2>1 DEF FreshInv
    <3>2. stale[op.dir] = "fresh" => \A x \in Banks : Intact(disk'[op.dir].raw[x]) => Intact(dev.bank[x])
      BY <2>4, <2>5, <2>6, <3>1 DEF NoWorse
    <3>3. \A d \in Dirs \ {op.dir} : stale'[d] = "fresh" => NoWorse(disk[d].raw)'
      BY <2>1, <2>5 DEF FreshInv, NoWorse
    <3>4. stale'[op.dir] = "fresh" => \A x \in Banks : Intact(disk'[op.dir].raw[x]) => Intact(dev'.bank[x])
      BY <2>1, <3>2
    <3> QED
      BY <3>3, <3>4 DEF NoWorse
  <2>8. NoWorse(op.view.bank)'
    BY <2>1, <2>3, <2>6 DEF NoWorse
  <2>9. b = "primary" => disk'[op.dir].raw["primary"] = op.view.bank["primary"]
    BY <2>4, <2>5
  <2>10. b = "secondary" => disk'[op.dir].raw = op.view.bank
    <3>1. b = "secondary" => disk[op.dir].raw["primary"] = op.view.bank["primary"]
      BY <2>1 DEF FreshInv
    <3> QED
      BY <2>4, <2>5, <3>1 DEF Banks
  <2> QED
    BY <2>1, <2>2, <2>3, <2>7, <2>8, <2>9, <2>10 DEF FreshInv, JustRead, At, Unwritten, Banks
<1>4. CASE SaveManifest
  <2>1. op.dir \in Dirs /\ op.pc = "save" /\ UNCHANGED dev
    BY <1>b, <1>4 DEF SaveManifest
  <2>2. disk[op.dir].raw = op.view.bank /\ NoWorse(op.view.bank)
    BY <2>1 DEF FreshInv, JustRead
  <2>3. \A d \in Dirs : disk'[d].raw = disk[d].raw
    BY <1>a, <1>4, <2>1 DEF SaveManifest, Directories
  <2>4. \A d \in Dirs \ {op.dir} : stale'[d] = stale[d]
    BY <1>a, <1>4 DEF SaveManifest
  <2>5. \A d \in Dirs : stale'[d] = "fresh" => NoWorse(disk[d].raw)'
    BY <2>1, <2>2, <2>3, <2>4 DEF FreshInv, NoWorse
  <2>6. \/ op'.pc = "idle" /\ op'.plan = NoPlan
        \/ op'.pc = "confirm" /\ op'.view = op.view /\ op'.plan = op.plan /\ op'.dir = op.dir /\ op'.force = op.force
    BY <1>c, <1>d, <1>4 DEF SaveManifest, Steps
  <2>7. op'.pc = "confirm" => NoWorse(op.view.bank)'
    BY <2>1, <2>2, <2>6 DEF NoWorse
  <2> QED
    BY <2>5, <2>6, <2>7 DEF FreshInv, JustRead, At, Unwritten
<1>5. ASSUME NEW online \in BOOLEAN, PlanCli(online)
      PROVE  FreshInv'
  <2>1. Plan(op.view, online) /\ op.pc = "plan" /\ op.view \in View /\ op.ui = "cli" /\ UNCHANGED <<dev, disk, stale>>
    BY <1>a, <1>5 DEF PlanCli, At, Commands
  <2>2. /\ op'.pc \in {"idle", "save"}
        /\ op'.pc = "save" => op'.dir = op.dir /\ op'.force = op.force /\ op'.view = op.view
        /\ op'.plan # NoPlan => op'.view = op.view /\ op'.plan \in PlansFor(op.kind, op.view, op.force, online)
    BY <2>1, PlanDoes
  <2>3. op'.plan # NoPlan /\ ~op.force => \A b \in Banks : Intact(op.view.bank[b])
    BY <1>a, <2>1, <2>2, PlansAre DEF Commands
  <2>4. disk[op.dir].raw = op.view.bank /\ NoWorse(op.view.bank)
    BY <2>1 DEF FreshInv, JustRead, At
  <2>5. op'.pc = "idle" => op'.plan = NoPlan
    BY <2>1, PlanDoes, EndsWell, PlanLeads, <1>a DEF Done, Commands
  <2>6. op'.pc = "save" => NoWorse(op.view.bank)'
    BY <2>1, <2>2, <2>4 DEF NoWorse
  <2> QED
    BY <1>e, <1>g, <2>1, <2>2, <2>3, <2>4, <2>5, <2>6 DEF FreshInv, JustRead, At, Unwritten
<1>6. ASSUME NEW online \in BOOLEAN, PlanFromBackup(online)
      PROVE  FreshInv'
  <2>1. op.pc = "plan" /\ op.dir \in Dirs /\ op.ui = "app" /\ UNCHANGED <<dev, stale>>
    BY <1>b, <1>6 DEF PlanFromBackup, At
  <2>2. CASE disk[op.dir].manifest.used
    BY <1>e, <1>h, <1>6, <2>1, <2>2 DEF PlanFromBackup
  <2>3. CASE ~disk[op.dir].manifest.used
    <3> DEFINE v == SavedView(op.dir)
    <3>1. Plan(v, online) /\ v \in View /\ v.bank = disk[op.dir].raw
      BY <1>a, <1>6, <2>1, <2>3, SavedViewTyped DEF PlanFromBackup
    <3>2. UNCHANGED disk \/ disk' = [disk EXCEPT ![op.dir].manifest.view = v]
      BY <1>6, <2>3 DEF PlanFromBackup
    <3> HIDE DEF v
    <3>3. \A d \in Dirs : disk'[d].raw = disk[d].raw
      BY <1>a, <2>1, <3>2 DEF Directories
    <3>4. CASE op' = Idle
      BY <1>e, <1>h, <2>1, <3>3, <3>4 DEF Done
    <3>5. CASE op' # Idle
      <4>1. PICK p \in PlansFor(op.kind, v, op.force, online) :
               op' = [op EXCEPT !.view = v, !.plan = p, !.pc = "confirm"]
        BY <1>a, <2>1, <3>1, <3>5, PlanLeads
      <4>2. op'.pc = "confirm" /\ op'.view = v /\ op'.dir = op.dir /\ op'.force = op.force
        BY <1>a, <4>1 DEF Commands
      <4>3. ~op.force => \A b \in Banks : Intact(v.bank[b])
        BY <1>a, <3>1, PlansAre DEF Commands
      <4>4. stale[op.dir] = "fresh" => NoWorse(v.bank)
        BY <2>1, <3>1 DEF FreshInv
      <4>5. op'.pc \in Unwritten /\ stale'[op'.dir] = "fresh" => NoWorse(op.view.bank)'
        BY <2>1, <4>2, <4>4 DEF NoWorse
      <4> QED
        BY <1>e, <1>g, <2>1, <3>3, <4>2, <4>3, <4>5 DEF FreshInv, JustRead, At
    <3> QED
      BY <3>4, <3>5
  <2> QED
    BY <2>2, <2>3
<1>7. ASSUME NEW online \in BOOLEAN, NEW d \in Dirs, CheckApple(d, online)
      PROVE  FreshInv'
  <2>1. /\ UNCHANGED <<dev, op, stale>> /\ \A e \in Dirs : disk'[e].raw = disk[e].raw
        /\ op.pc = "idle" /\ op.plan = NoPlan
    BY <1>7, CheckDoes, NothingTyped DEF CheckApple
  <2> QED
    BY <1>e, <1>g, <2>1 DEF FreshInv, JustRead, At, Unwritten
<1>8. CASE NotNeeded
  <2>1. op.dir \in Dirs /\ Record("not_needed", FALSE) /\ Done /\ UNCHANGED <<dev, stale>>
    BY <1>b, <1>8 DEF NotNeeded
  <2> QED
    BY <1>a, <1>e, <1>h, <2>1, RecordDoes DEF Statuses
<1>9. CASE ConfirmApp
  BY <1>9, <1>e, <1>h, <1>i DEF ConfirmApp, At, Unwritten, Planned
<1>10. CASE ConfirmCli
  <2>1. op.dir \in Dirs /\ op.pc = "confirm" /\ UNCHANGED <<dev, stale>>
    BY <1>b, <1>10 DEF ConfirmCli, At
  <2>2. CASE GoTo("record") /\ UNCHANGED disk
    BY <1>i, <2>1, <2>2 DEF Planned, Unwritten
  <2>3. CASE Record("cancelled", FALSE) /\ Done
    BY <1>a, <1>e, <1>h, <2>1, <2>3, RecordDoes DEF Statuses
  <2> QED
    BY <1>10, <2>2, <2>3 DEF ConfirmCli
<1>11. CASE ValidateLive
  BY <1>11, <1>e, <1>h, <1>i DEF ValidateLive, Unwritten, Planned
<1>12. CASE RecordAttempt
  <2>1. op.dir \in Dirs /\ op.pc = "record" /\ UNCHANGED <<dev, stale>> /\ Record("attempting", TRUE) /\ GoTo("acp")
    BY <1>b, <1>12 DEF RecordAttempt
  <2> QED
    BY <1>a, <1>i, <2>1, RecordDoes DEF Statuses, Unwritten, Planned
<1>13. CASE AcpWrite
  <2>1. \A d \in Dirs : stale'[d] # "fresh"
    BY <1>13 DEF AcpWrite, Began
  <2>2. op'.pc \in {"idle", "failed", "readback"} /\ (op'.plan = NoPlan \/ (op'.plan = op.plan /\ op'.view = op.view /\ op'.force = op.force))
    BY <1>c, <1>d, <1>13 DEF AcpWrite, Failed, Steps
  <2> QED
    BY <2>1, <2>2 DEF FreshInv, JustRead, At, Unwritten
<1>14. CASE ReadBack
  BY <1>14, <1>i, <1>k DEF ReadBack, Unwritten, Planned
<1>15. CASE CheckCks
  <2>1. op.dir \in Dirs /\ op.pc = "cks" /\ UNCHANGED <<dev, stale>>
    BY <1>b, <1>15 DEF CheckCks
  <2>2. CASE Record("validated", TRUE) /\ GoTo("finish")
    BY <1>a, <1>i, <2>1, <2>2, RecordDoes DEF Statuses, Unwritten, Planned
  <2>3. CASE UNCHANGED disk /\ Failed
    BY <1>k, <2>1, <2>3 DEF Planned
  <2> QED
    BY <1>15, <2>2, <2>3 DEF CheckCks
<1>16. CASE RecordFailed
  <2>1. op.dir \in Dirs /\ Record("failed", TRUE) /\ Done /\ UNCHANGED <<dev, stale>>
    BY <1>b, <1>16 DEF RecordFailed
  <2> QED
    BY <1>a, <1>e, <1>h, <2>1, RecordDoes DEF Statuses
<1>17. CASE Finish
  BY <1>17, <1>h, DeviceMends DEF Finish
<1>18. CASE Unreachable
  BY <1>18, <1>e, <1>h, <1>k DEF Unreachable, Planned
<1>19. CASE HostCrash
  BY <1>19, <1>e, <1>h DEF HostCrash
<1>20. CASE Device
  BY <1>20, <1>j, DeviceMends DEF Device, PowerCycle, PowerOn, AppleUpgrade
<1> QED
  BY <1>1, <1>2, <1>3, <1>4, <1>5, <1>6, <1>7, <1>8, <1>9, <1>10, <1>11, <1>12, <1>13, <1>14, <1>15, <1>16,
     <1>17, <1>18, <1>19, <1>20 DEF Next

\* When the ACP command of an unforced write is sent from a backup that no
\* write has begun since, the bank it leaves alone is intact on the device
\* (flash_workflow.py, require_restore_target_bank, require_primary_patch_ready).
THEOREM ABankIsKept == Spec => []FreshWritesKeepABank
<1>1. Init => FreshInv
  <2> SUFFICES ASSUME Init
               PROVE  FreshInv
    OBVIOUS
  <2>1. \A d \in Dirs : NoWorse(disk[d].raw)
    BY DEF Init, NoWorse, Intact, Whole
  <2> QED
    BY <2>1, NothingTyped DEF Init, FreshInv, JustRead, At, Unwritten
<1>2. TypedInv /\ FreshInv /\ [Next]_vars => FreshInv'
  <2>1. FreshInv /\ UNCHANGED vars => FreshInv'
    BY DEF FreshInv, JustRead, At, NoWorse, vars
  <2> QED
    BY <2>1, ActsFresh
<1>3. TypedInv /\ FreshInv => FreshWritesKeepABank
  <2> SUFFICES ASSUME TypedInv, FreshInv, op.pc = "acp", stale[op.dir] = "fresh", ~op.force
               PROVE  Intact(dev.bank[Other[Target]])
    BY DEF FreshWritesKeepABank, Writing
  <2>1. op.plan # NoPlan /\ op.plan.target \in Banks
    BY DEF TypedInv, CommandInv, Planned
  <2>2. Other[Target] \in Banks
    BY <2>1 DEF Other, Banks, Target
  <2> QED
    BY <2>1, <2>2 DEF FreshInv, NoWorse, Unwritten
<1> QED
  BY <1>1, <1>2, <1>3, Typed, PTL DEF Spec

-----------------------------------------------------------------------------
(* What is recorded as validated.                                          *)

(* Between the comparison of the bank and that of its checksum, the bank    *)
(* holds the payload, or the checksum tells that it no longer does.         *)
WrittenInv ==
    op.pc = "cks" => \/ dev.bank[Target] = Whole(op.plan.payload)
                     \/ /\ dev.bank[Target].footer # op.plan.payload
                        /\ dev.cks[Target] # op.plan.payload

\* The device's own steps change the footer and the checksum together.
LEMMA DeviceTells ==
    ASSUME TypedInv, WrittenInv, Device
    PROVE  WrittenInv'
<1> SUFFICES ASSUME op.pc = "cks"
             PROVE  WrittenInv'
  BY DEF WrittenInv, Device, PowerCycle, PowerOn, AppleUpgrade
<1>a. dev.bank \in [Banks -> Contents] /\ Target \in Banks /\ UNCHANGED op
  BY DEF TypedInv, CommandInv, Devices, Planned, Target, Device, PowerCycle, PowerOn, AppleUpgrade
<1>b. ASSUME NEW bank \in [Banks -> Contents], Boot(bank)
      PROVE  dev'.bank = bank /\ dev'.cks[Target] = bank[Target].footer
  <2>1. dev'.cks = [b \in Banks |-> bank[b].footer] /\ dev'.bank = bank
    BY <1>b DEF Boot
  <2> QED
    BY <1>a, <2>1
<1>1. CASE PowerCycle \/ PowerOn
  <2>1. dev'.bank = dev.bank /\ dev'.cks[Target] = dev.bank[Target].footer
    BY <1>a, <1>b, <1>1 DEF PowerCycle, PowerOn
  <2> QED
    BY <1>a, <2>1 DEF WrittenInv, Target
<1>2. ASSUME NEW b \in Banks, NEW x \in Versions, AppleUpgrade(b, x)
      PROVE  WrittenInv'
  <2> DEFINE bank == [dev.bank EXCEPT ![b] = Whole(Stock(x))]
  <2>1. Whole(Stock(x)) \in Contents /\ Whole(Stock(x)).footer = Stock(x)
    BY DEF Whole, Stock, Images, Contents
  <2>2. bank \in [Banks -> Contents] /\ Boot(bank)
    BY <1>a, <1>2, <2>1 DEF AppleUpgrade
  <2>3. dev'.bank = bank /\ dev'.cks[Target] = bank[Target].footer
    BY <1>b, <2>2
  <2>4. CASE b = Target
    <3>1. dev'.bank[Target] = Whole(Stock(x)) /\ dev'.cks[Target] = Stock(x)
      BY <1>a, <2>1, <2>3, <2>4
    <3> QED
      BY <1>a, <2>1, <3>1 DEF WrittenInv, Target
  <2>5. CASE b # Target
    <3>1. dev'.bank[Target] = dev.bank[Target] /\ dev'.cks[Target] = dev.bank[Target].footer
      BY <1>a, <2>3, <2>5
    <3> QED
      BY <1>a, <3>1 DEF WrittenInv, Target
  <2> QED
    BY <2>4, <2>5
<1> QED
  BY <1>1, <1>2 DEF Device

\* Only the comparison of the whole bank leads to that of the checksum.
LEMMA ActsTell == TypedInv /\ WrittenInv /\ Next => WrittenInv'
<1> SUFFICES ASSUME TypedInv, WrittenInv, Next
             PROVE  WrittenInv'
  OBVIOUS
<1>a. op \in Commands
  BY DEF TypedInv
<1>b. op'.pc # "cks" => WrittenInv'
  BY DEF WrittenInv
<1>c. Done => WrittenInv'
  BY <1>b, EndsWell
<1>d. ASSUME NEW pc \in Steps \ {"cks"}, GoTo(pc)
      PROVE  WrittenInv'
  BY <1>a, <1>b, <1>d, GoToDoes
<1>e. Failed => WrittenInv'
  BY <1>c, <1>d DEF Failed, Steps
<1>f. ASSUME op.pc = "plan", NEW v \in View, NEW online, Plan(v, online)
      PROVE  WrittenInv'
  BY <1>b, <1>f, PlanDoes
<1>1. ASSUME NEW d \in Dirs, NEW kind \in {"patch", "restore"}, NEW force \in BOOLEAN,
             StartBackup(d) \/ StartWrite(kind, d, force) \/ StartCli(kind, d, force)
      PROVE  WrittenInv'
  BY <1>1, <1>b, StartsAre, StartDoes
<1>2. CASE ReadFlash
  BY <1>2, <1>b, ReadDoes
<1>3. ASSUME NEW b \in Banks, SaveRaw(b)
      PROVE  WrittenInv'
  BY <1>3, <1>d DEF SaveRaw, Steps
<1>4. CASE SaveManifest \/ NotNeeded \/ ConfirmApp \/ ConfirmCli \/ ValidateLive \/ RecordAttempt
  BY <1>4, <1>c, <1>d DEF SaveManifest, NotNeeded, ConfirmApp, ConfirmCli, ValidateLive, RecordAttempt, Steps
<1>5. ASSUME NEW online \in BOOLEAN, PlanCli(online)
      PROVE  WrittenInv'
  BY <1>5, <1>a, <1>f DEF PlanCli, At, Commands
<1>6. ASSUME NEW online \in BOOLEAN, PlanFromBackup(online)
      PROVE  WrittenInv'
  <2>1. op.pc = "plan" /\ op.dir \in Dirs
    BY <1>6, NothingTyped DEF PlanFromBackup, At, TypedInv, CommandInv
  <2>2. Done \/ Plan(SavedView(op.dir), online)
    BY <1>6 DEF PlanFromBackup
  <2> QED
    BY <1>c, <1>f, <2>1, <2>2, SavedViewTyped DEF TypedInv
<1>7. ASSUME NEW online \in BOOLEAN, NEW d \in Dirs, CheckApple(d, online)
      PROVE  WrittenInv'
  BY <1>7, <1>b, NothingTyped DEF CheckApple
<1>8. CASE AcpWrite
  BY <1>8, <1>d, <1>e DEF AcpWrite, Steps
<1>9. CASE ReadBack
  <2>1. CASE Failed
    BY <1>e, <2>1
  <2>2. CASE dev.bank[op.plan.target] = Whole(op.plan.payload) /\ GoTo("cks")
    <3>1. op'.plan = op.plan /\ UNCHANGED dev
      BY <1>a, <1>9, <2>2, GoToDoes DEF ReadBack, Steps
    <3> QED
      BY <2>2, <3>1 DEF WrittenInv, Target
  <2> QED
    BY <1>9, <2>1, <2>2 DEF ReadBack
<1>10. CASE CheckCks \/ RecordFailed \/ Finish \/ Unreachable \/ HostCrash
  BY <1>10, <1>c, <1>d, <1>e DEF CheckCks, RecordFailed, Finish, Unreachable, HostCrash, Steps
<1>11. CASE Device
  BY <1>11, DeviceTells
<1> QED
  BY <1>1, <1>2, <1>3, <1>4, <1>5, <1>6, <1>7, <1>8, <1>9, <1>10, <1>11 DEF Next

\* Which steps touch what a directory says of its write, and what they put there.
Says(status) == \A d \in Dirs : disk'[d].manifest.status \in {disk[d].manifest.status, status}

LEMMA RecordSays ==
    ASSUME disk \in [Dirs -> Directories], op.dir \in Dirs, NEW status, NEW used, Record(status, used)
    PROVE  /\ Says(status)
           /\ \A d \in Dirs \ {op.dir} : disk'[d].manifest.status = disk[d].manifest.status
<1> DEFINE marked == [disk EXCEPT ![op.dir].manifest.status = status]
<1>1. \A d \in Dirs : marked[d].manifest.status = IF d = op.dir THEN status ELSE disk[d].manifest.status
  BY DEF Directories, Manifests
<1>2. marked = [d \in Dirs |-> marked[d]]
  OBVIOUS
<1>3. disk' = [marked EXCEPT ![op.dir].manifest.used = used]
  BY DEF Record
<1> HIDE DEF marked
<1>4. \A d \in Dirs : disk'[d].manifest.status = marked[d].manifest.status
  BY <1>2, <1>3
<1> QED
  BY <1>1, <1>4 DEF Says

\* What write_flash_plan records as validated is what the device holds, though
\* the bank and its checksum are read one after the other and the device may be
\* power cycled or upgraded in between (flash_workflow.py, write_and_validate_plan).
THEOREM ValidatedWritten == Spec => ValidatedIsWritten
<1> DEFINE Step == \A d \in Dirs :
                      disk'[d].manifest.status = "validated" /\ disk[d].manifest.status # "validated"
                         => d = op.dir /\ dev.bank[Target] = Whole(op.plan.payload)
<1>1. Init => WrittenInv
  BY NothingTyped DEF Init, WrittenInv
<1>2. TypedInv /\ WrittenInv /\ [Next]_vars => WrittenInv'
  <2>1. WrittenInv /\ UNCHANGED vars => WrittenInv'
    BY DEF WrittenInv, Target, vars
  <2> QED
    BY <2>1, ActsTell
<1>3. TypedInv /\ WrittenInv /\ [Next]_vars => [Step]_vars
  <2> SUFFICES ASSUME TypedInv, WrittenInv, Next
               PROVE  Step
    OBVIOUS
  <2>a. disk \in [Dirs -> Directories] /\ (op.pc # "idle" => op.dir \in Dirs)
    BY NothingTyped DEF TypedInv, CommandInv
  <2>b. (\A d \in Dirs : disk'[d].manifest.status \in {disk[d].manifest.status, "none"}) => Step
    OBVIOUS
  <2>c. UNCHANGED disk => Step
    OBVIOUS
  <2>d. ASSUME op.dir \in Dirs, NEW status \in Statuses \ {"validated"}, NEW used, Record(status, used)
        PROVE  Step
    BY <2>a, <2>d, RecordSays DEF Says
  <2>e. ASSUME NEW d \in Dirs, NEW v, disk' = [disk EXCEPT ![d].manifest.view = v]
        PROVE  Step
    BY <2>a, <2>e, <2>b DEF Directories, Manifests
  <2>1. CASE CheckCks
    <3>1. op.dir \in Dirs /\ op.pc = "cks" /\ (UNCHANGED disk \/ Record("validated", TRUE))
      BY <2>a, <2>1 DEF CheckCks
    <3>2. CASE Record("validated", TRUE)
      <4>1. dev.cks[Target] = op.plan.payload \/ UNCHANGED disk
        BY <2>1 DEF CheckCks, Target
      <4>2. dev.bank[Target] = Whole(op.plan.payload) \/ UNCHANGED disk
        BY <3>1, <4>1 DEF WrittenInv
      <4>3. \A d \in Dirs \ {op.dir} : disk'[d].manifest.status = disk[d].manifest.status
        BY <2>a, <3>1, <3>2, RecordSays
      <4> QED
        BY <4>2, <4>3
    <3> QED
      BY <2>c, <3>1, <3>2
  <2>2. ASSUME NEW b \in Banks, SaveRaw(b)
        PROVE  Step
    <3>1. disk' = [disk EXCEPT ![op.dir].raw[b] = op.view.bank[b]]
      BY <2>2 DEF SaveRaw
    <3>2. \A d \in Dirs : disk'[d].manifest = disk[d].manifest
      BY <2>a, <3>1 DEF Directories
    <3> QED
      BY <3>2
  <2>3. CASE SaveManifest
    <3>1. disk' = [disk EXCEPT ![op.dir].manifest = Manifest(op.view)]
      BY <2>3 DEF SaveManifest
    <3>2. Manifest(op.view).status = "none"
      BY DEF Manifest
    <3>3. \A d \in Dirs : disk'[d].manifest \in {disk[d].manifest, Manifest(op.view)}
      BY <2>a, <3>1 DEF Directories
    <3> QED
      BY <2>b, <3>2, <3>3
  <2>4. ASSUME NEW online \in BOOLEAN, PlanFromBackup(online)
        PROVE  Step
    <3>1. op.dir \in Dirs
      BY <2>a, <2>4 DEF PlanFromBackup, At
    <3>2. UNCHANGED disk \/ disk' = [disk EXCEPT ![op.dir].manifest.view = SavedView(op.dir)]
      BY <2>4 DEF PlanFromBackup
    <3> QED
      BY <2>c, <2>e, <3>1, <3>2
  <2>5. ASSUME NEW online \in BOOLEAN, NEW d \in Dirs, CheckApple(d, online)
        PROVE  Step
    <3> DEFINE match == MatchStatus([b \in Candidates(SavedView(d)) |-> MatchFor(cache, online, SavedView(d).bank[b])])
               seen == [disk EXCEPT ![d].manifest.view = SavedView(d)]
    <3>1. UNCHANGED disk \/ disk' = [seen EXCEPT ![d].manifest.apple = match]
      BY <2>5 DEF CheckApple
    <3>2. \A e \in Dirs : seen[e].manifest.status = disk[e].manifest.status
      BY <2>a DEF Directories, Manifests
    <3>3. seen = [e \in Dirs |-> seen[e]]
      BY <2>a
    <3> HIDE DEF seen, match
    <3>4. CASE disk' = [seen EXCEPT ![d].manifest.apple = match]
      <4>1. \A e \in Dirs : disk'[e].manifest.status = seen[e].manifest.status
        BY <3>3, <3>4
      <4> QED
        BY <3>2, <4>1
    <3> QED
      BY <2>c, <3>1, <3>4
  <2>6. CASE NotNeeded \/ ConfirmCli \/ RecordAttempt \/ RecordFailed
    BY <2>6, <2>a, <2>c, <2>d DEF NotNeeded, ConfirmCli, RecordAttempt, RecordFailed, Statuses, At
  <2>7. ASSUME NEW d \in Dirs, NEW kind \in {"patch", "restore"}, NEW force \in BOOLEAN,
               StartBackup(d) \/ StartWrite(kind, d, force) \/ StartCli(kind, d, force)
        PROVE  Step
    BY <2>7, <2>c DEF StartBackup, StartWrite, StartCli, Start
  <2>8. CASE \/ ReadFlash \/ ConfirmApp \/ ValidateLive \/ AcpWrite \/ ReadBack \/ Finish \/ Unreachable
             \/ HostCrash \/ Device \/ \E online \in BOOLEAN : PlanCli(online)
    BY <2>8, <2>c DEF ReadFlash, ConfirmApp, ValidateLive, AcpWrite, ReadBack, Finish, Unreachable, HostCrash,
       Device, PowerCycle, PowerOn, AppleUpgrade, PlanCli
  <2> QED
    BY <2>1, <2>2, <2>3, <2>4, <2>5, <2>6, <2>7, <2>8 DEF Next
<1> QED
  BY <1>1, <1>2, <1>3, Typed, PTL DEF Spec, ValidatedIsWritten

=============================================================================
