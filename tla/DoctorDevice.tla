----------------------------- MODULE DoctorDevice -----------------------------
(***************************************************************************)
(* What doctor can see of a device: the parts of the managed runtime, what *)
(* each needs to work, and the readiness probes of device/probe.py as the  *)
(* set of checks each reports as failed when `up` is what works.  A check  *)
(* bears the name of the part it is about; the startup grace of            *)
(* checks/doctor_steps.py then knows a failure only by that name.          *)
(***************************************************************************)
EXTENDS Naturals, Sequences, FiniteSets, SequencesExt

(* The runtime as a boot brings it up, tier after tier.                    *)
Tiers ==
    << {"ramRoot", "manager", "mdnsBin"},
       {"volumes", "payload", "rsyncDisk"},
       {"smbdBin", "smbConf", "passdb", "usermap", "tdbOnDisk"},
       {"smbd", "port445", "login", "shares", "writes"},
       {"rsyncRam", "rsync", "port873"},
       {"address", "mdns", "appleGone", "port5353", "smbRecord", "srv", "hostLabel", "hostAddr",
        "infoRecords", "adisk", "adiskTxt", "adiskShares", "afpServer", "port548", "afpRecord", "afpAdisk"} >>

Parts == UNION ToSet(Tiers)
RsyncRuntime == {"rsyncRam", "rsync", "port873"}
AfpParts == {"afpServer", "port548", "afpRecord", "afpAdisk"}
BonjourParts == {"smbRecord", "srv", "hostLabel", "hostAddr", "infoRecords", "adisk", "adiskTxt",
                 "adiskShares"}
SmbParts == {"login", "shares", "writes"}

(* Direct needs: the first cannot work without the second.                 *)
Needs ==
    {<<"payload", "volumes">>, <<"rsyncDisk", "volumes">>, <<"writes", "volumes">>,
     <<"smbd", "smbdBin">>, <<"smbd", "smbConf">>, <<"port445", "smbd">>,
     <<"login", "port445">>, <<"login", "passdb">>, <<"login", "usermap">>,
     <<"shares", "login">>, <<"writes", "login">>,
     <<"rsync", "rsyncRam">>, <<"port873", "rsync">>,
     <<"mdns", "mdnsBin">>, <<"mdns", "address">>, <<"port5353", "mdns">>}
    \union {<<p, "port5353">> : p \in BonjourParts \union {"afpRecord"}}
    \union {<<"port548", "afpServer">>}

NeedsDepth == 6

(* What works of a set of parts that are in place.                         *)
Working(inPlace) ==
    LET keep[n \in 0 .. NeedsDepth] ==
            IF n = 0 THEN inPlace
            ELSE LET last == keep[n - 1] IN {p \in last : \A need \in Needs : need[1] = p => need[2] \in last}
    IN  keep[NeedsDepth]

(* What a running device may lose and get back.                            *)
Volatile == {"volumes", "smbd", "rsync", "address", "mdns", "appleGone"}

(* The runtime brought up fully with these lasting faults and options.     *)
Full(faults, options) ==
    Working(((Parts \ faults) \ (IF "with_rsync" \in options THEN {} ELSE RsyncRuntime))
                              \ (IF "with_afp" \in options THEN {} ELSE AfpParts))

-----------------------------------------------------------------------------
(* What smb.conf names is missing when smb.conf is.                        *)
Named(parts, up) == {p \in parts : ~({p, "smbConf"} \subseteq up)}

AccountFails(up) == Named({"passdb", "usermap"}, up)
VolumeFails(up) == Named({"volumes"}, up)

(* A path that is not on the disk, or is on the disk under no directory.   *)
TdbFails(up) ==
    Named({"tdbOnDisk"}, up)
    \union {p \in {"payload"} : {"smbConf", "tdbOnDisk"} \subseteq up /\ p \notin up}

(* describe_managed_smbd_status; without the binary there is no version.   *)
SmbdFails(up) ==
    ({"smbdBin", "smbConf", "manager", "smbd", "port445"} \ up)
    \union AccountFails(up) \union VolumeFails(up) \union TdbFails(up)

(* The advertiser's probe, cut where it asks the device again: its binary, *)
(* then one look at the processes, then its socket families, then fstat.   *)
BinaryFails(up) == {"mdnsBin"} \ up
NoAddressFails(ps) == {"address"} \union ({"appleGone"} \ ps)
NotRunningFails(ps) == {"mdns"} \union ({"appleGone"} \ ps)

(* ps is what the process table showed, up what fstat and adisk.tsv show.  *)
ListenerFails(ps, up, options) ==
    ({"port5353"} \ up) \union ({"appleGone"} \ ps)
    \union (IF "with_afp" \in options THEN ({"afpServer", "afpRecord"} \ ps) \union ({"port548", "afpAdisk"} \ up)
            ELSE {})

(* The binary and the config on disk are asked for even when rsync is off. *)
RsyncFails(up, options) ==
    ({"rsyncDisk"} \ up) \union (IF "with_rsync" \in options THEN RsyncRuntime \ up ELSE {})

-----------------------------------------------------------------------------
(* A probe is made again when all it reports as failed may be passing.     *)
TransientSmbd == {"smbd", "port445"}
TransientMdns == {"mdns", "port5353"}
TransientRsync == {"rsyncDisk"} \union RsyncRuntime

(* _probe_failure_details: failures that a startup may explain.            *)
GraceMasks(check) ==
    check \in TransientSmbd \union TransientMdns \union TransientRsync
              \union {"smbdBin", "smbConf", "passdb", "usermap", "tdbOnDisk", "volumes", "manager",
                      "smbdTimeout", "address", "appleGone"}

(* A result that failed, and whether startup grace may mask it.            *)
Failure(check, mask) == [check |-> check, mask |-> mask]
Failures(checks) == {Failure(c, GraceMasks(c)) : c \in checks}
=============================================================================
