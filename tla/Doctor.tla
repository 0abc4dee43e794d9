-------------------------------- MODULE Doctor --------------------------------
(***************************************************************************)
(* A run of doctor (checks/doctor.py) against a device that may be booting *)
(* or losing parts while it is looked at.  Only results that fail are      *)
(* kept, each with whether startup grace may mask it.                      *)
(***************************************************************************)
EXTENDS DoctorNetwork

CONSTANTS Starts,       \* tiers that may be up when doctor starts
          MaxTroubles,  \* bound: lasting faults, options other than the default, and mishaps:
                        \* parts lost for a while, commands that time out or fail for once
          MaxMishaps    \* bound: mishaps among them

ASSUME BoundsAssumption == MaxTroubles \in Nat /\ MaxMishaps \in Nat
ASSUME StartsAssumption == Starts \subseteq DOMAIN Tiers

VARIABLES pc, faults, options,   \* where the run is; the world it is in
          full, up,              \* parts that work once all is up, and now
          luck,                  \* mishaps left; has a command slipped; was all up at the start
          tries,                 \* retries made of the present check
          fails,                 \* results that failed
          held,                  \* what earlier steps found, for later ones
          listing,               \* the SMB listing: groups to do, outcomes, groups that passed
          share                  \* file operations done, and whether the test directory is there

vars == <<pc, faults, options, full, up, luck, tries, fails, held, listing, share>>
world == <<faults, options, full>>

NoListing == [todo |-> <<>>, seen |-> {}, lost |-> {}, passed |-> {}, tunnel |-> FALSE, direct |-> {}]
NothingHeld == [age |-> "unknown", named |-> FALSE, ps |-> {}, conf |-> "none", plan |-> {}, reached |-> {},
                headline |-> {}]

(* Sets of at most MaxTroubles faults and options.                         *)
Deviations ==
    LET few[n \in 0 .. MaxTroubles] ==
            IF n = 0 THEN {{}}
            ELSE LET last == few[n - 1] IN last \union {d \union {x} : d \in last, x \in Parts \union Options}
    IN  few[MaxTroubles]

Begun(tier) == full \intersect UNION {Tiers[i] : i \in 1 .. tier}

Mishaps ==
    LET rest == MaxTroubles - Cardinality(faults) - Cardinality(options)
    IN  IF rest < MaxMishaps THEN rest ELSE MaxMishaps

Init ==
    /\ pc = "config"
    /\ \E d \in Deviations : faults = d \intersect Parts /\ options = d \intersect Options
    /\ full = Full(faults, options)
    /\ \E tier \in Starts : up = Begun(tier)
    /\ luck = [mishaps |-> Mishaps, slipped |-> FALSE, calm |-> up = full]
    /\ tries = 0 /\ fails = {} /\ held = NothingHeld /\ listing = NoListing
    /\ share = [done |-> 0, litter |-> FALSE]

-----------------------------------------------------------------------------
(* The device (external): a boot goes on, a part is lost for a while.      *)
Boot ==
    /\ pc \notin {"done", "crashed"}
    /\ \E tier \in DOMAIN Tiers :
          /\ ~(Begun(tier) \subseteq up) /\ (tier > 1 => Begun(tier - 1) \subseteq up)
          /\ up' = up \union Begun(tier)
    /\ UNCHANGED <<pc, world, luck, tries, fails, held, listing, share>>

Relapse(p) ==
    /\ pc \notin {"done", "crashed"} /\ luck.mishaps > 0 /\ p \in Volatile \intersect up
    /\ up' = Working(up \ {p})
    /\ luck' = [luck EXCEPT !.mishaps = @ - 1]
    /\ UNCHANGED <<pc, world, tries, fails, held, listing, share>>

-----------------------------------------------------------------------------
(* Steps of the run.  Unchanged in all: the device and the world.          *)
Slip == luck.mishaps > 0 /\ luck' = [luck EXCEPT !.mishaps = @ - 1, !.slipped = TRUE]
Steady == UNCHANGED luck
Goes(next) == pc' = next /\ tries' = 0 /\ UNCHANGED <<world, up>>
Adds(results) == fails' = fails \union results
Holds(h) == held' = h /\ UNCHANGED <<listing, share>>
Nothing == UNCHANGED <<held, listing, share>>

(* A check is made again while all its failures may pass by then.          *)
MayPass(failed, transient) == failed # {} /\ failed \subseteq transient

Check(here, next, failed, transient) ==
    IF MayPass(failed, transient) /\ tries < 2
    THEN pc' = here /\ tries' = tries + 1 /\ UNCHANGED <<world, up, fails>>
    ELSE Goes(next) /\ Adds(Failures(failed))

Stop(check) == Goes("done") /\ Adds({Failure(check, FALSE)})

(* Configuration and local tools, then the SSH login.                      *)
Config ==
    /\ pc = "config" /\ Steady /\ Nothing
    /\ Goes(IF "skip_ssh" \in options THEN "port" ELSE "ssh")
    /\ Adds(IF "no_smbclient" \in options THEN {Failure("smbclient", FALSE)} ELSE {})

SshLogin ==
    /\ pc = "ssh" /\ Nothing
    /\ \/ Steady /\ Goes("deployed") /\ Adds({})
       \/ Slip /\ Goes("port") /\ Adds({Failure("ssh", FALSE)})

(* The payload's config and version, and the RAM directory: no reason to   *)
(* look any further without them.                                          *)
Deployed ==
    /\ pc = "deployed" /\ Nothing
    /\ IF {"not_deployed", "old_version"} \intersect options # {} \/ "ramRoot" \notin up
       THEN Steady /\ Stop("runtime")
       ELSE \/ Steady /\ Goes("age") /\ Adds({})
            \/ Slip /\ Stop("runtime")

(* The age of the manager; a device that is up may still be young.         *)
StartupAge ==
    /\ pc = "age" /\ Goes("naming") /\ Adds({})
    /\ \/ /\ Steady
          /\ \E age \in IF "manager" \in up THEN {"young", "old"} ELSE {"unknown"} : Holds([held EXCEPT !.age = age])
       \/ Slip /\ Nothing

Naming ==
    /\ pc = "naming" /\ Goes("compatibility") /\ Adds({})
    /\ \/ Steady /\ Holds([held EXCEPT !.named = TRUE])
       \/ Slip /\ Nothing

Compatibility ==
    /\ pc = "compatibility" /\ Goes("smbd") /\ Nothing
    /\ \/ Steady /\ Adds(IF {"netbsd4", "no_sshpass"} \subseteq options THEN {Failure("sshpass", FALSE)} ELSE {})
       \/ Slip /\ Adds({Failure("compatibility", FALSE)})

(* A timeout of the probe is a result; any other transport error is not    *)
(* caught in the steps of the three readiness probes.                      *)
Lost == Slip /\ Goes("crashed") /\ Adds({}) /\ Nothing

Smbd ==
    /\ pc = "smbd"
    /\ \/ Steady /\ Nothing /\ Check("smbd", "mdns", SmbdFails(up), TransientSmbd)
       \/ Slip /\ Nothing /\ Goes("mdns") /\ Adds(Failures({"smbdTimeout"}))
       \/ Lost
-----------------------------------------------------------------------------
(* The advertiser's probe.  A timeout ends it: the first is asked twice.   *)
MdnsBroken == Slip /\ Nothing /\ Goes("rsync") /\ Adds(Failures({"mdnsTimeout"}))

(* On to the next question of the same probe.                              *)
Asks(next) == pc' = next /\ UNCHANGED <<world, up, tries, fails>>

MdnsBinary ==
    /\ pc \in {"mdns", "mdns_again"}
    /\ \/ /\ Steady /\ Nothing
          /\ IF BinaryFails(up) = {} THEN Asks("mdns_ps") ELSE Check("mdns", "rsync", BinaryFails(up), TransientMdns)
       \/ pc = "mdns" /\ Slip /\ Nothing /\ Asks("mdns_again")
       \/ pc = "mdns_again" /\ MdnsBroken
       \/ Lost

MdnsProcesses ==
    /\ pc = "mdns_ps"
    /\ \/ Steady /\ Asks("mdns_families") /\ Holds([held EXCEPT !.ps = up])
       \/ MdnsBroken
       \/ Lost

(* An advertiser that has no address says so; it may also just fail.       *)
MdnsFamilies ==
    /\ pc = "mdns_families"
    /\ \/ /\ Steady /\ Nothing
          /\ IF "address" \notin up THEN Check("mdns", "rsync", NoAddressFails(held.ps), TransientMdns)
             ELSE IF "mdns" \notin held.ps THEN Check("mdns", "rsync", NotRunningFails(held.ps), TransientMdns)
             ELSE Asks("mdns_fstat")
       \/ MdnsBroken
       \/ Lost

MdnsSockets ==
    /\ pc = "mdns_fstat"
    /\ \/ Steady /\ Nothing /\ Check("mdns", "rsync", ListenerFails(held.ps, up, options), TransientMdns)
       \/ MdnsBroken
       \/ Lost

Rsync ==
    /\ pc = "rsync"
    /\ \/ Steady /\ Holds([held EXCEPT !.ps = {}]) /\ Check("rsync", "conf", RsyncFails(up, options), TransientRsync)
       \/ Slip /\ Holds([held EXCEPT !.ps = {}]) /\ Goes("conf") /\ Adds(Failures({"rsyncTimeout"}))
       \/ Lost

(* The active smb.conf: a TDB in the RAM disk is never for a wait to mend. *)
ActiveConf ==
    /\ pc = "conf" /\ Goes("plan")
    /\ \/ /\ Steady /\ Holds([held EXCEPT !.conf = IF "smbConf" \in up THEN "text" ELSE "empty"])
          /\ Adds(IF "smbConf" \in up THEN {Failure("tdbInRam", FALSE) : p \in {"tdbOnDisk"} \ up} ELSE {})
       \/ Slip /\ Nothing /\ Adds({})

(* The device's binaries say where Samba is bound, or else smb.conf does.  *)
NetworkPlan ==
    /\ pc = "plan" /\ Goes("port") /\ Adds({})
    /\ \/ /\ Steady
          /\ Holds([held EXCEPT !.plan = IF "address" \in up \/ held.conf = "text" THEN Bound(options) ELSE {}])
       \/ Slip /\ Holds([held EXCEPT !.plan = IF held.conf = "text" THEN Bound(options) ELSE {}])

(* The port check fails nothing; it finds the addresses that answer.       *)
DirectPort ==
    /\ pc = "port" /\ Goes("bonjour") /\ Adds({}) /\ Steady
    /\ Holds([held EXCEPT !.reached = IF "proxied" \in options THEN {} ELSE Reachable(held.plan, up, options)])
-----------------------------------------------------------------------------
(* Bonjour: a slip is a browse that fails or misses, in one backend.       *)
IpKnown == held.plan # {} \/ "named_host" \notin options

Browse(f) == BonjourFails(OnAir(f, up, options), held.named, IpKnown, held.conf)
Zeroconf(f) == IF "no_zeroconf" \in options THEN {"zeroconf"} ELSE Browse(f)
Native(f) == Browse(f)


(* Family by family; works says whether zeroconf does.                     *)
BonjourResults(works) ==
    UNION {ChosenFails(IF works THEN Zeroconf(f) ELSE {"zeroconf"}, Native(f), options)
             : f \in BrowsedFamilies(held.plan, options)}

Bonjour ==
    /\ pc = "bonjour" /\ Nothing /\ Goes("smb")
    /\ IF {"skip_bonjour", "proxied"} \intersect options # {} \/ (~held.named /\ ~IpKnown)
       THEN Steady /\ Adds({})
       ELSE \/ Steady /\ Adds({Failure(c, FALSE) : c \in BonjourResults(TRUE)})
            \/ Slip /\ Adds({Failure(c, FALSE) : c \in BonjourResults(FALSE)})
-----------------------------------------------------------------------------
(* Authenticated SMB.                                                      *)
BeginSmb ==
    /\ pc = "smb" /\ Steady /\ Adds({}) /\ UNCHANGED <<held, share>>
    /\ Goes(IF "skip_smb" \in options THEN "grace" ELSE "list")
    /\ listing' = IF "proxied" \in options THEN [NoListing EXCEPT !.todo = <<{"tunnel"}>>, !.tunnel = TRUE]
                  ELSE [NoListing EXCEPT !.todo = Groups(held.plan, held.reached, options)]

(* One listing of one group, again while every attempt so far may pass.    *)
ListGroup(outcomes) ==
    LET group == Head(listing.todo)
        seen == listing.seen \union outcomes
        next(l) == [l EXCEPT !.todo = Tail(@), !.seen = {}]
    IN  /\ UNCHANGED <<world, up, fails, held, share>>
        /\ IF "pass" \in outcomes
           THEN /\ listing' = [next(listing) EXCEPT !.passed = @ \union {group}]
                /\ pc' = pc /\ tries' = 0
           ELSE IF seen \subseteq Retryable /\ tries < 2
           THEN listing' = [listing EXCEPT !.seen = seen] /\ tries' = tries + 1 /\ pc' = pc
           ELSE /\ listing' = [next(listing) EXCEPT !.lost = @ \union seen]
                /\ pc' = pc /\ tries' = 0

List ==
    /\ pc = "list" /\ listing.todo # <<>>
    /\ \/ /\ Steady
          /\ ListGroup(IF "no_smbclient" \in options THEN {"missing"}
                       ELSE {Outcome(t, up, options) : t \in Head(listing.todo)})
       \/ \E odd \in Oddities : "no_smbclient" \notin options /\ Slip /\ ListGroup({odd})

SmbResult(lost) == {Failure("smb", ConnectionShaped(lost))}

(* Samba is bound to networks this client has no address on.               *)
LanOnly ==
    IF "lan_only" \in options /\ held.plan # {} /\ OnLink(options) = {} THEN {Failure("lanOnly", FALSE)} ELSE {}

(* No group listed: why, and whether the tunnel may still show it works.   *)
NoneListed ==
    /\ pc = "list" /\ listing.todo = <<>> /\ listing.passed = {} /\ ~listing.tunnel
    /\ Steady /\ UNCHANGED <<held, share>>
    /\ IF "unreachable" \in listing.lost
       THEN /\ Goes("list") /\ Adds(LanOnly)
            /\ listing' = [NoListing EXCEPT !.todo = <<{"tunnel"}>>, !.tunnel = TRUE, !.direct = listing.lost]
       ELSE /\ Goes("grace") /\ UNCHANGED listing
            /\ Adds(LanOnly \union (IF listing.lost = {"missing"} THEN {} ELSE SmbResult(listing.lost)))

(* What failed before the tunnel was tried is a result when it fails too.  *)
Direct == IF listing.direct = {} THEN {} ELSE SmbResult(listing.direct)

TunnelLost ==
    /\ pc = "list" /\ listing.tunnel /\ Nothing /\ Goes("grace")
    /\ \/ /\ listing.todo = <<>> /\ listing.passed = {} /\ Steady
          /\ Adds(SmbResult(listing.lost) \union Direct)
       \/ listing.todo # <<>> /\ Slip /\ Adds({Failure("tunnel", FALSE)} \union Direct)

(* The share to write to: an active one that is listed, or any.            *)
SelectShare ==
    /\ pc = "list" /\ listing.todo = <<>> /\ listing.passed # {} /\ Steady /\ Nothing
    /\ IF "shares" \in up THEN Goes("ops") /\ Adds({})
       ELSE Goes("grace") /\ Adds({Failure("shares", FALSE)} \union Direct)

(* Mutant: the operations end with the copy's deletion.                    *)
OpsEnd_Early == Len(FileOps) - 2

OpsEnd == Len(FileOps)

(* One operation; what fails stops the rest and leaves the directory.      *)
FileOp ==
    LET op == FileOps[share.done + 1]
        fail(mask) == Goes("grace") /\ Adds({Failure("fileOps", mask)} \union Direct)
        did == [done |-> share.done + 1,
                litter |-> IF op = "mkdir" THEN TRUE ELSE IF op = "rmdir" THEN FALSE ELSE share.litter]
    IN  /\ pc = "ops" /\ UNCHANGED <<held, listing>>
        /\ \/ /\ Steady /\ {"port445", "writes"} \subseteq up
              /\ share' = did /\ Adds({}) /\ Goes(IF did.done = OpsEnd THEN "grace" ELSE "ops")
           \/ /\ Steady /\ ~({"port445", "writes"} \subseteq up)
              /\ fail("port445" \notin up) /\ UNCHANGED share
           \/ Slip /\ fail(TRUE) /\ (UNCHANGED share \/ share' = [did EXCEPT !.done = share.done])

-----------------------------------------------------------------------------
CanMask(results) == \A r \in results : r.mask

(* _apply_startup_grace: the one headline in place of what it masks.       *)
Grace ==
    /\ pc = "grace" /\ Steady
    /\ pc' = "done" /\ tries' = 0 /\ UNCHANGED <<world, up>>
    /\ IF "no_grace" \notin options /\ held.age = "young" /\ fails # {} /\ CanMask(fails)
       THEN /\ fails' = {Failure("startingUp", FALSE)}
            /\ Holds([held EXCEPT !.headline = {r.check : r \in fails}])
       ELSE UNCHANGED fails /\ Nothing

Run ==
    \/ Config \/ SshLogin \/ Deployed \/ StartupAge \/ Naming \/ Compatibility
    \/ Smbd \/ MdnsBinary \/ MdnsProcesses \/ MdnsFamilies \/ MdnsSockets \/ Rsync
    \/ ActiveConf \/ NetworkPlan \/ DirectPort \/ Bonjour
    \/ BeginSmb \/ List \/ NoneListed \/ TunnelLost \/ SelectShare \/ FileOp \/ Grace

Next == Run \/ Boot \/ (\E p \in Parts : Relapse(p))

Spec == Init /\ [][Next]_vars

-----------------------------------------------------------------------------
Checks == Parts \union {"smbclient", "ssh", "runtime", "sshpass", "compatibility", "smbdTimeout", "mdnsTimeout",
                        "rsyncTimeout", "tdbInRam", "zeroconf", "smb", "lanOnly", "tunnel", "fileOps", "startingUp"}

(* State stays in range: what a run holds and what works are of the kinds  *)
(* the code passes between its steps.                                      *)
TypeOK ==
    /\ up \subseteq full
    /\ luck \in [mishaps : 0 .. MaxMishaps, slipped : BOOLEAN, calm : BOOLEAN]
    /\ tries \in 0 .. 2
    /\ fails \subseteq [check : Checks, mask : BOOLEAN]
    /\ held \in [age : {"unknown", "young", "old"}, named : BOOLEAN, ps : SUBSET Parts,
                 conf : {"none", "empty", "text"}, plan : SUBSET Families, reached : SUBSET Families,
                 headline : SUBSET Checks]
    /\ held.reached \subseteq held.plan
    /\ share \in [done : 0 .. Len(FileOps), litter : BOOLEAN]

(* Set-ups in which doctor has reason to fail though the device is well.   *)
Unable ==
    \/ {"off_link", "no_smbclient", "not_deployed", "old_version"} \intersect options # {}
    \/ {"netbsd4", "no_sshpass"} \subseteq options
    \/ {"no_zeroconf", "no_native"} \subseteq options

Calm == luck = [mishaps |-> Mishaps, slipped |-> FALSE, calm |-> TRUE]

(* A device that is well and a client that can reach it: no check fails,   *)
(* with one family or two, with IPv6 or without, through a tunnel where    *)
(* the client may not talk to its own network (run_doctor_checks).         *)
NoFalseAlarm == pc = "done" /\ Calm /\ faults = {} /\ ~Unable => fails = {}

(* Parts some check looks at, as the run is told and the device set up.    *)
(* Nothing asks for the records that are no service of ours, and the adisk *)
(* record is asked for only next to them.                                  *)
Watched ==
    LET off == (IF "with_afp" \in options THEN {} ELSE AfpParts)
               \union (IF "with_rsync" \in options THEN {} ELSE RsyncRuntime)
               \union (IF {"skip_bonjour", "proxied"} \intersect options # {} THEN BonjourParts ELSE {})
               \union (IF "skip_smb" \in options THEN SmbParts ELSE {})
               \union {"infoRecords"}
               \union (IF {"infoRecords", "adisk"} \subseteq faults THEN {"adisk", "adiskTxt", "adiskShares"} ELSE {})
    IN  IF "skip_ssh" \in options THEN {} ELSE Parts \ off

(* A lasting fault of a part that is looked at does not end in a clean     *)
(* report, whatever comes up, goes away and comes back meanwhile: retries, *)
(* the second backend, the other family, the tunnel and startup grace may  *)
(* change what is said of it and not that something failed.                *)
NothingMissed ==
    pc = "done" /\ ~luck.slipped /\ faults \intersect Watched # {} => fails # {}

(* "Wait and run doctor again" is said only where waiting mends it: every  *)
(* failure behind that headline is of a part that works once the device is *)
(* fully up (the docstring of _apply_startup_grace).  The code knows a     *)
(* failure by its text alone, and a lasting fault shows as a startup does. *)
WaitingMendsIt == held.headline \intersect Parts \subseteq full

(* A clean report of a run that was to check SMB vouches for a whole round *)
(* trip of a file, and for a share that is left as it was found.           *)
CleanReportHasWritten ==
    pc = "done" /\ fails = {} /\ "skip_smb" \notin options => share = [done |-> Len(FileOps), litter |-> FALSE]
=============================================================================
