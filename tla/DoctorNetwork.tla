---------------------------- MODULE DoctorNetwork -----------------------------
(***************************************************************************)
(* What doctor concludes from the client's side of the network: the plan   *)
(* of families it can test (checks/network_plan.py), the evaluation of a   *)
(* Bonjour snapshot, and the targets and outcomes of an authenticated SMB  *)
(* listing.  `options` says how the device and the client are set up.      *)
(***************************************************************************)
EXTENDS DoctorDevice

Families == {"ipv4", "ipv6"}
Options ==
    {"with_rsync", "with_afp", "dual", "lan_only",                        \* the device's configuration
     "off_link", "no_v6", "local_denied",                       \* the client's network
     "no_zeroconf", "no_native", "no_smbclient", "no_sshpass",  \* the client's tools
     "proxied", "named_host",                                   \* the address it was given
     "netbsd4", "old_version", "not_deployed",                  \* the device and its payload
     "skip_ssh", "skip_bonjour", "skip_smb", "no_grace"}        \* what doctor was told

(* The families Samba is bound to; every one has an endpoint in the plan.  *)
Bound(options) == {"ipv4"} \union (IF "dual" \in options THEN {"ipv6"} ELSE {})

(* A client off the device's link routes IPv4 there, and has no IPv6 route *)
(* to a link-local address.                                                *)
OnLink(options) ==
    {f \in Bound(options) : "off_link" \notin options /\ (f = "ipv6" => "no_v6" \notin options)}
Routed(options) == {f \in Bound(options) : f = "ipv4" \/ f \in OnLink(options)}
Answers(options) == {f \in Routed(options) : f \in OnLink(options) \/ "lan_only" \notin options}

(* No plan is {}.                                                          *)
Reachable(plan, up, options) ==
    {f \in plan : f \in Answers(options) /\ "port445" \in up}

-----------------------------------------------------------------------------
(* Bonjour.                                                                *)

(* Mutant: the client's routes are not asked for.                          *)
BrowsedFamilies_All(plan, options) == IF plan = {} THEN {"any"} ELSE plan

(* Families to browse; one browse over any family when there is no plan.   *)
BrowsedFamilies(plan, options) == IF plan = {} THEN {"any"} ELSE plan \intersect Routed(options)

(* Multicast does not leave the link.                                      *)
OnAir(f, up, options) ==
    IF f \in OnLink(options) \/ (f = "any" /\ OnLink(options) # {}) THEN up ELSE {}

(* Another device answers, or this one under another name or address: no   *)
(* second opinion is asked for.                                            *)
Mismatch == {"srv", "hostLabel", "hostAddr"}

(* What the adisk record of the instance lacks of what smb.conf has.       *)
AdiskLacks(seen, conf) == ({"adiskTxt"} \ seen) \union (IF conf = "text" THEN {"adiskShares"} \ seen ELSE {})

(* Mutant: an instance without an adisk record is let pass.                *)
AdiskFails_IfPresent(seen, conf) == IF "adisk" \in seen THEN AdiskLacks(seen, conf) ELSE {}

(* No adisk record is a failure next to an _airport or _device-info record *)
(* of the instance, for shares that smb.conf has, and nothing otherwise.   *)
AdiskFails(seen, conf) ==
    IF "adisk" \in seen THEN AdiskLacks(seen, conf)
    ELSE IF conf = "text" /\ "infoRecords" \in seen THEN {"adisk"} ELSE {}

(* The instance resolves under its name to a host and an address of ours.  *)
TargetFails(seen) == {"srv", "hostLabel", "hostAddr"} \ seen

(* _evaluate_bonjour_snapshot: by the expected name, or by address.        *)
BonjourFails(seen, named, ipKnown, conf) ==
    IF named
    THEN IF "smbRecord" \notin seen THEN {"smbRecord"}
         ELSE TargetFails(seen) \union AdiskFails(seen, conf)
    ELSE IF ~ipKnown THEN {}
    ELSE IF ~({"smbRecord", "hostAddr"} \subseteq seen) THEN {"smbRecord"}
    ELSE ({"srv"} \ seen) \union AdiskFails(seen, conf)

TriesNative(fails, options) ==
    fails # {} /\ fails \intersect Mismatch = {} /\ "no_native" \notin options

(* The native browse replaces zeroconf's result when it has no failure.    *)
ChosenFails(zeroconf, native, options) ==
    IF TriesNative(zeroconf, options) /\ native = {} THEN {} ELSE zeroconf

-----------------------------------------------------------------------------
(* Authenticated SMB.                                                      *)

(* Targets are addresses of the plan, or the host names when there is none *)
(* or the client is on none of the networks a LAN-only Samba is bound to.  *)
Targets(plan, options) ==
    LET addresses == IF "lan_only" \in options /\ OnLink(options) = {} THEN {} ELSE plan \intersect Routed(options)
    IN  IF addresses = {} THEN {"host"} ELSE addresses

(* One group per family the port check reached, or all targets in one.     *)
Groups(plan, reached, options) ==
    LET found == reached \intersect Targets(plan, options)
        group(f) == IF f \in found THEN <<{f}>> ELSE <<>>
    IN  IF found = {} THEN <<Targets(plan, options)>> ELSE group("ipv4") \o group("ipv6")

(* What smbclient says of a target.                                        *)
Outcome(target, up, options) ==
    IF target # "tunnel" /\ "local_denied" \in options THEN "unreachable"
    ELSE IF target \in Families \ Answers(options) THEN "timeout"
    ELSE IF target = "host" /\ "ipv4" \notin Answers(options) THEN "refused"
    ELSE IF "port445" \notin up THEN "refused"
    ELSE IF "login" \notin up THEN "logon"
    ELSE "pass"

(* Outcomes of a listing that something odd came in the way of.            *)
Oddities == {"timeout", "disconnected", "invalid"}

Retryable == {"timeout", "refused", "disconnected"}

(* A disconnection is worth a retry and is not shaped like a connection;   *)
(* an invalid answer is the reverse.                                       *)
ConnectionShaped(outcomes) ==
    "logon" \notin outcomes /\ outcomes \intersect {"timeout", "refused", "invalid", "unreachable"} # {}

(* File operations on the share, in order.                                 *)
FileOps == <<"mkdir", "create", "overwrite", "read", "rename", "copy", "delete", "rmdir", "cleanup">>
=============================================================================
