-------------------------------- MODULE Access --------------------------------
(***************************************************************************)
(* The commands that give and take access to a device, one after another,  *)
(* each cut off anywhere, on devices that lose power and change passwords: *)
(* configure, update, set-ssh and the app's reachability check             *)
(* (services/reachability.py).                                             *)
(***************************************************************************)
EXTENDS SetSsh, Configure

vars == <<deviceVars, env, op, shown, commands>>

(* The reachability check: port 22, a sign-in, port 445, of the device the *)
(* request names or else the file's; its port 22 is not asked when SSH     *)
(* goes through a proxy.  Without either there is nothing to check.        *)
BeginReachability(host, proxied, password) ==
    Launch([Command("reachability", "app", host, Overlaid(password))
              EXCEPT !.pc = IF proxied THEN "check_auth" ELSE "check_port"])

Sees(check, pc) == op' = [op EXCEPT !.seen = @ \cup check, !.pc = pc]

CheckPort ==
    /\ op.pc = "check_port"
    /\ Sees(IF Open(op.host, "ssh") THEN {"port"} ELSE {"closed"}, "check_auth")
    /\ UNCHANGED <<deviceVars, env, shown, commands>>

(* What a sign-in that found no sshd, or lost it, may look like: a         *)
(* transport error says nothing, any other exit code is a refusal.         *)
Unanswered == {{}, {"refused"}}

CheckAuth ==
    /\ op.pc = "check_auth"
    /\ \/ /\ "closed" \in op.seen
          /\ Sees({}, "check_smb") /\ UNCHANGED deviceVars
       \/ /\ "closed" \notin op.seen /\ ~Open(op.host, "ssh")
          /\ \E check \in Unanswered : Sees(check, "check_smb")
          /\ UNCHANGED deviceVars
       \/ /\ "closed" \notin op.seen /\ Open(op.host, "ssh")
          /\ Sees(IF Accepts(op.host, op.password) THEN {"auth"} ELSE {"refused"}, "check_smb")
          /\ UNCHANGED deviceVars
       \/ /\ "closed" \notin op.seen /\ Fault
          /\ \E check \in Unanswered :
                op' = [op EXCEPT !.seen = @ \cup check, !.pc = "check_smb", !.calm = FALSE]
          /\ UNCHANGED <<dev, rekeyed>>
    /\ UNCHANGED <<env, shown, commands>>

Verdict(seen) ==
    LET ssh == {"port", "auth"} \cap seen # {}
        smb == "smb" \in seen IN
    IF "refused" \in seen THEN "partial"
    ELSE CASE ssh /\ smb   -> "reachable"
           [] ssh # smb    -> "partial"
           [] ~ssh /\ ~smb -> "unreachable"

(* SMB is asked for at the device in question, then at the file's.         *)
SmbHosts == {op.host} \cup (IF HasTarget THEN {env.host} ELSE {})

CheckSmb ==
    /\ op.pc = "check_smb"
    /\ LET seen == op.seen \cup (IF \E h \in SmbHosts : Open(h, "smb") THEN {"smb"} ELSE {}) IN
          Stop(Verdict(seen))
    /\ UNCHANGED <<deviceVars, env, shown, commands>>

ReachabilitySteps == CheckPort \/ CheckAuth \/ CheckSmb

-----------------------------------------------------------------------------

Begin ==
    /\ MayBegin
    /\ \/ \E ui \in {"cli", "app"}, action \in {"status", "enable", "disable", "legacy"},
             noWait \in BOOLEAN, p \in Passwords \cup {NoPassword} : BeginSetSsh(ui, action, noWait, p)
       \/ \E ui \in {"cli", "scripted", "app"}, host \in Targets, p \in Passwords,
             change \in Changes, enable, persist \in BOOLEAN :
             BeginConfigure(ui, host, p, change, enable, persist)
       \/ \E change \in Changes : BeginUpdate(change)
       \/ \E host \in Hosts, proxied \in BOOLEAN, p \in Passwords \cup {NoPassword} :
             BeginReachability(host, proxied, p)

(* The host is killed, or the user gives up.                               *)
Crash ==
    /\ ~Idle
    /\ Stop("killed")
    /\ UNCHANGED <<deviceVars, env, shown, commands>>

Host == Begin \/ EnableSteps \/ SetSshSteps \/ ConfigureSteps \/ ReachabilitySteps \/ Crash

Surroundings ==
    \/ DeviceRuns /\ UNCHANGED <<env, op, shown, commands>>
    \/ /\ \E h \in Hosts : PowerCut(h) \/ ChangePassword(h)
       /\ op' = [op EXCEPT !.calm = FALSE]
       /\ UNCHANGED <<env, shown, commands>>

Init ==
    /\ dev \in Fleet
    /\ faults = 0 /\ rekeyed = {}
    /\ EnvInit
    /\ op = NoCommand
    /\ shown = {} /\ commands = 0

Next == Host \/ Surroundings

Spec == Init /\ [][Next]_vars

-----------------------------------------------------------------------------

CommandType ==
    [kind : Kinds, ui : {"cli", "scripted", "app"}, host : Hosts \cup {NoHost},
     password : Passwords \cup {NoPassword}, action : {"status", "enable", "disable", "legacy"},
     noWait : BOOLEAN, enable : BOOLEAN, yes : BOOLEAN, given : SUBSET Questions,
     change : Override, settings : SUBSET Settings, persist : BOOLEAN, unverified : BOOLEAN,
     again : BOOLEAN, prompts : 0 .. MaxPrompts, seen : SUBSET {"port", "closed", "auth", "refused", "smb"},
     calm : BOOLEAN, pc : PCs, result : Results]

(* Every variable has its type; faults and prompts stay within bounds.     *)
TypeOK ==
    /\ dev \in [Hosts -> Device] /\ faults \in 0 .. MaxFaults /\ rekeyed \subseteq Hosts
    /\ env \in EnvFiles
    /\ op \in CommandType
    /\ shown \subseteq Questions /\ commands \in 0 .. MaxCommands

(* Who has agreed to open or close SSH and reboot this device: the app's   *)
(* user was shown this device and this action in this or an earlier run of *)
(* the operation; a script said --enable-ssh and --yes; a terminal's user  *)
(* typed the mode, answered the prompt, or ran a command that opens SSH.   *)
Agreed ==
    CASE op.ui = "app"      -> Question(op) \in shown
      [] op.ui = "scripted" -> op.enable /\ op.yes
      [] op.ui = "cli"      -> op.kind = "configure" => op.enable

(* No command persists the SSH flag or reboots a device that its user has  *)
(* not agreed to, whatever was approved before and whichever device the    *)
(* .env file names by then (require_confirmation, before_enable_ssh).      *)
RebootsAreAgreed ==
    [][\A h \in Hosts :
          dev'[h].flag # dev[h].flag \/ (dev'[h].owes /\ ~dev[h].owes) => h = op.host /\ Agreed]_vars

(* A saved target works: unless the user saved it although SSH rejected it *)
(* or the password was changed since, the device in the .env file is one   *)
(* of a supported kind and takes the saved password (run_configure_flow).  *)
SavedTargetWorks ==
    env.exists /\ ~env.unverified /\ env.host \notin rekeyed =>
        /\ dev[env.host].supported
        /\ env.password \in {NoPassword, dev[env.host].secret}

(* The .env file's settings are what was asked for, all else kept, and     *)
(* never a combination that a deploy refuses, in configures and updates    *)
(* mixed; an update keeps the target and the password                      *)
(* (build_managed_config_env_values).                                      *)
SettingsAreKept ==
    [][env' # env =>
          /\ op.change.on \ op.change.off \subseteq env'.settings
          /\ op.change.off \cap env'.settings = {}
          /\ \A s \in Settings \ (op.change.on \cup op.change.off) :
                s \in env'.settings <=> s \in env.settings
          /\ Legal(env'.settings)
          /\ op.kind = "update" =>
                env'.host = env.host /\ env'.password = env.password]_vars

(* What a finished command says of SSH is so.  "disabled" holds whatever   *)
(* happened on the way: the sshd that outlived the removed flag is gone,   *)
(* and the device will not start one again.  The rest holds of a device    *)
(* that was settled when the command began and suffered no fault           *)
(* (disable_set_ssh, select_set_ssh_action, wait_for_tcp_port_state,       *)
(* result_from_checks).                                                    *)
ReportsAreTrue ==
    Idle =>
        /\ op.result = "disabled" => ~dev[op.host].flag /\ ~Open(op.host, "ssh")
        /\ op.calm =>
              /\ op.result \in {"enabled", "enable_noop", "ssh_open"} =>
                    dev[op.host].flag /\ Open(op.host, "ssh")
              /\ op.result \in {"disable_noop", "ssh_closed"} => ~dev[op.host].flag
              /\ op.result = "reachable" =>
                    dev[op.host].flag /\ Accepts(op.host, op.password)
              /\ op.result # "unreachable"
=============================================================================
