------------------------------- MODULE EnvFile --------------------------------
(***************************************************************************)
(* The .env file the host's commands share: the SSH target, the password   *)
(* and the settings a deploy puts on the device.  It is replaced whole     *)
(* (core/config.py write_env_file renames a finished temporary file), so a *)
(* host that dies leaves the old file or the new one.                      *)
(*                                                                         *)
(* A setting is a name in a set: those that are "true" in the file.  The   *)
(* wording of values, quoting and the numeric settings are abstracted.     *)
(***************************************************************************)
EXTENDS AccessDevice

CONSTANTS NoHost, NoPassword,
          Changes       \* the overrides that requests bring

VARIABLE env

Settings == {"any_protocol", "require_smb_encryption", "disable_smb_security"}

(* Encryption needs SMB3 only and cannot be had with security switched off. *)
Legal(settings) ==
    "require_smb_encryption" \in settings => settings = {"require_smb_encryption"}

(* The overrides of one request: switched on, switched off, the rest kept. *)
Override == [on: SUBSET Settings, off: SUBSET Settings]
Keep == [on |-> {}, off |-> {}]
ASSUME ChangesAssumption == Changes \subseteq Override

Merged_Reset(settings, change) == change.on
Merged(settings, change) == (settings \cup change.on) \ change.off

EnvFiles == [exists: BOOLEAN, host: Hosts \cup {NoHost}, password: Passwords \cup {NoPassword},
             settings: SUBSET Settings, unverified: BOOLEAN]

NoEnv == [exists |-> FALSE, host |-> NoHost, password |-> NoPassword, settings |-> {},
          unverified |-> FALSE]

(* "unverified" is a ghost: the file was saved although SSH rejected it.   *)
Rendered(host, password, persist, settings, unverified) ==
    [exists |-> TRUE, host |-> host, password |-> IF persist THEN password ELSE NoPassword,
     settings |-> settings, unverified |-> unverified]

(* What the profiles set_ssh and set_ssh_status ask of the file.           *)
HasTarget == env.exists /\ env.host # NoHost
HasCredentials == HasTarget /\ env.password # NoPassword

(* A request of the app may bring the password that the file lacks.        *)
Overlaid(password) == IF password # NoPassword THEN password ELSE env.password

(* No file yet, or one as configure leaves it on a device it accepted.     *)
EnvInit ==
    env \in {NoEnv} \cup {Rendered(h, dev[h].secret, TRUE, {}, FALSE) : h \in {g \in Hosts : dev[g].supported}}
=============================================================================
