------------------------------- MODULE SshAccess ------------------------------
(***************************************************************************)
(* The command in progress, and the steps with which configure and set-ssh *)
(* open SSH on a device: ask for the ACP port, persist dbug, ask for a     *)
(* reboot, wait for port 22 (services/acp_ssh.py, integrations/acp.py).    *)
(* One command runs at a time: a terminal, or the app's one lane.          *)
(*                                                                         *)
(* A wait polls until its deadline, so it may see the port whenever it is  *)
(* as expected and give up whenever it is not: how long a device takes to  *)
(* boot is left open.                                                      *)
(***************************************************************************)
EXTENDS EnvFile

CONSTANTS MaxCommands,  \* commands run
          MaxPrompts    \* times a user types a target and password again

VARIABLES op,           \* the command in progress, or the last one
          shown,        \* what the app has asked its user
          commands      \* commands so far

ASSUME BoundsAssumption == MaxCommands \in Nat /\ MaxPrompts \in Nat

Kinds == {"none", "set-ssh", "configure", "update", "reachability"}
PCs == {"done", "ssh_probe", "acp_probe", "set_dbug", "acp_reboot", "wait_open", "remove_dbug",
        "ssh_reboot", "wait_closed", "wait_up", "verify", "port", "login", "prompt", "write",
        "check_port", "check_auth", "check_smb"}
Results == {"none", "enabled", "enable_noop", "disabled", "disable_noop", "requested", "left",
            "ssh_open", "ssh_closed", "written", "reachable", "partial", "unreachable", "confirm",
            "auth_failed", "failed", "killed"}

(* What a user is asked, and the confirmation id that answers it: a hash   *)
(* of operation, parameters and context (app/confirmations.py              *)
(* _confirmation_id).  The parameters are left out, so an answer serves    *)
(* more requests here than in the code.                                    *)
Question(o) == [kind |-> o.kind, action |-> o.action, host |-> o.host]
Questions == [kind : {"set-ssh", "configure"}, action : {"enable", "disable"}, host : Hosts]
Confirmation_AnyHost(q) == [kind |-> q.kind, action |-> q.action, host |-> CHOOSE h \in Hosts : TRUE]
Confirmation(q) == [kind |-> q.kind, action |-> q.action, host |-> q.host]

(* "calm" is a ghost: the device was settled when the command began and no *)
(* fault has struck since.                                                 *)
Command(kind, ui, host, password) ==
    [kind |-> kind, ui |-> ui, host |-> host, password |-> password, action |-> "status",
     noWait |-> FALSE, enable |-> FALSE, yes |-> FALSE, given |-> {}, change |-> Keep,
     settings |-> {}, persist |-> TRUE, unverified |-> FALSE, again |-> FALSE, prompts |-> 0,
     seen |-> {}, calm |-> host # NoHost /\ Settled(dev[host]), pc |-> "done", result |-> "none"]

NoCommand == Command("none", "app", NoHost, NoPassword)
Idle == op.pc = "done"
MayBegin == Idle /\ commands < MaxCommands

Launch(command) ==
    /\ commands' = commands + 1
    /\ op' = command
    /\ UNCHANGED <<deviceVars, env, shown>>

(* The answers an app request may carry along.                             *)
Answers == {{}} \cup {{Confirmation(q)} : q \in shown}

GoTo(pc) == op' = [op EXCEPT !.pc = pc]
(* Of an ended command the result is kept, and whom it speaks of when it   *)
(* says something of a device.                                             *)
Claims == {"enabled", "enable_noop", "disabled", "disable_noop", "ssh_open", "ssh_closed",
           "reachable", "partial", "unreachable"}
Ended(o, result) ==
    LET of == IF result \in Claims THEN o ELSE NoCommand IN
    [NoCommand EXCEPT !.host = of.host, !.password = of.password, !.calm = of.calm,
                      !.result = result]
Stop(result) == op' = Ended(op, result)

(* A rejected password: the configure prompt asks again, all else fails.   *)
AuthFailed ==
    IF op.kind = "configure" /\ op.ui = "cli" THEN GoTo("prompt") ELSE Stop("auth_failed")

(* require_confirmation: run on, or end with the question to the user.     *)
Confirm(o, pc) ==
    IF Confirmation(Question(o)) \in o.given
    THEN op' = [o EXCEPT !.pc = pc] /\ UNCHANGED shown
    ELSE /\ op' = Ended(o, "confirm")
         /\ shown' = shown \cup {Question(o)}

-----------------------------------------------------------------------------

(* Three attempts, some time apart.                                        *)
AcpProbe ==
    /\ op.pc = "acp_probe"
    /\ IF Open(op.host, "acp") THEN GoTo("set_dbug") ELSE Stop("failed")
    /\ UNCHANGED <<deviceVars, env, shown, commands>>

(* The reply to a set-property carries an error code, in its header or in  *)
(* its element; one in the header is taken for a wrong password.           *)
AcpTakesIt == Open(op.host, "acp") /\ Accepts(op.host, op.password)

(* One ACP set-property.  A reply that is lost leaves open whether it was  *)
(* done.                                                                   *)
AcpCall(done, pc) ==
    /\ \/ /\ ~Open(op.host, "acp")
          /\ Stop("failed")
          /\ UNCHANGED deviceVars
       \/ /\ Open(op.host, "acp") /\ ~Accepts(op.host, op.password)
          /\ AuthFailed
          /\ UNCHANGED deviceVars
       \/ /\ AcpTakesIt
          /\ dev' = [dev EXCEPT ![op.host] = done]
          /\ GoTo(pc)
          /\ UNCHANGED <<faults, rekeyed>>
       \/ /\ AcpTakesIt
          /\ Fault /\ Stop("failed")
          /\ dev' \in {dev, [dev EXCEPT ![op.host] = done]}
          /\ UNCHANGED rekeyed
    /\ UNCHANGED <<env, shown, commands>>

SetDbug == op.pc = "set_dbug" /\ AcpCall([dev[op.host] EXCEPT !.flag = TRUE], "acp_reboot")

AcpReboot == op.pc = "acp_reboot" /\ AcpCall(Asked(dev[op.host]), "wait_open")

(* set-ssh is done when port 22 answers; configure probes again.           *)
WaitOpen ==
    /\ op.pc = "wait_open"
    /\ \/ op.noWait /\ Stop("requested")
       \/ /\ ~op.noWait /\ Open(op.host, "ssh")
          /\ IF op.kind = "set-ssh" THEN Stop("enabled")
             ELSE op' = [op EXCEPT !.pc = "port", !.again = TRUE]
       \/ ~op.noWait /\ ~Open(op.host, "ssh") /\ Stop("failed")
    /\ UNCHANGED <<deviceVars, env, shown, commands>>

EnableSteps == AcpProbe \/ SetDbug \/ AcpReboot \/ WaitOpen
=============================================================================
