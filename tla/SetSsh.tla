-------------------------------- MODULE SetSsh --------------------------------
(***************************************************************************)
(* set-ssh: report, enable or disable SSH on the configured device         *)
(* (services/set_ssh.py, with its terminal and app front ends).            *)
(***************************************************************************)
EXTENDS SshAccess

BeginSetSsh(ui, action, noWait, password) ==
    LET secret == IF ui = "app" THEN Overlaid(password) ELSE env.password IN
    /\ HasTarget
    /\ ui = "cli" /\ action # "status" => HasCredentials
    /\ action # "status" => secret # NoPassword
    /\ action = "legacy" => ui = "cli"
    /\ noWait => action # "status"
    /\ \E yes \in IF action = "legacy" THEN BOOLEAN ELSE {FALSE},
          given \in IF ui = "app" THEN Answers ELSE {{}} :
           Launch([Command("set-ssh", ui, env.host, secret) EXCEPT
                    !.action = action, !.noWait = noWait, !.yes = yes, !.given = given,
                    !.pc = "ssh_probe"])

SelectAction(action, open) ==
    CASE action = "enable"  -> IF open THEN "enable_noop" ELSE "enable"
      [] action = "disable" -> IF open THEN "disable" ELSE "disable_noop"
      [] action = "legacy"  -> IF open THEN "prompt_disable" ELSE "enable"

(* One look at port 22 decides the command.                                *)
Report ==
    /\ op.pc = "ssh_probe" /\ op.action = "status"
    /\ Stop(IF Open(op.host, "ssh") THEN "ssh_open" ELSE "ssh_closed")
    /\ UNCHANGED <<deviceVars, env, shown, commands>>

NothingToDo ==
    /\ op.pc = "ssh_probe" /\ op.action # "status"
    /\ LET what == SelectAction(op.action, Open(op.host, "ssh")) IN
          what \in {"enable_noop", "disable_noop"} /\ Stop(what)
    /\ UNCHANGED <<deviceVars, env, shown, commands>>

FirstStep(action) == IF action = "enable" THEN "acp_probe" ELSE "remove_dbug"

(* The app asks before it reboots a device; the options of the terminal,   *)
(* and a bare set-ssh that finds SSH closed, are taken for the answer.     *)
Act ==
    /\ op.pc = "ssh_probe" /\ op.action # "status"
    /\ LET what == SelectAction(op.action, Open(op.host, "ssh"))
           o == [op EXCEPT !.action = what] IN
       /\ what \in {"enable", "disable"}
       /\ IF op.ui = "app" THEN Confirm(o, FirstStep(what))
          ELSE op' = [o EXCEPT !.pc = FirstStep(what)] /\ UNCHANGED shown
    /\ UNCHANGED <<deviceVars, env, commands>>

(* "SSH already enabled. Disable?", which --yes answers.                   *)
PromptDisable ==
    /\ op.pc = "ssh_probe" /\ op.action # "status"
    /\ SelectAction(op.action, Open(op.host, "ssh")) = "prompt_disable"
    /\ \/ op' = [op EXCEPT !.action = "disable", !.yes = TRUE, !.pc = "remove_dbug"]
       \/ ~op.yes /\ Stop("left")
    /\ UNCHANGED <<deviceVars, env, shown, commands>>

(* A command over SSH that changes the device; a lost answer leaves open   *)
(* whether it was done.                                                    *)
SshWorks == Open(op.host, "ssh") /\ Accepts(op.host, op.password)

SshCall(done, pc) ==
    /\ \/ /\ SshWorks
          /\ dev' = [dev EXCEPT ![op.host] = done]
          /\ GoTo(pc)
          /\ UNCHANGED <<faults, rekeyed>>
       \/ /\ ~SshWorks
          /\ Stop("failed")
          /\ UNCHANGED deviceVars
       \/ /\ SshWorks /\ Fault /\ Stop("failed")
          /\ dev' \in {dev, [dev EXCEPT ![op.host] = done]}
          /\ UNCHANGED rekeyed
    /\ UNCHANGED <<env, shown, commands>>

(* "acp remove dbug", by three paths; a flag that is absent already (-10)  *)
(* is as good.                                                             *)
RemoveDbug ==
    op.pc = "remove_dbug" /\ SshCall([dev[op.host] EXCEPT !.flag = FALSE], "ssh_reboot")

AskReboot == op.pc = "ssh_reboot" /\ SshCall(Asked(dev[op.host]), "wait_closed")

(* A reboot request that times out is waited for all the same.             *)
AskRebootTimesOut ==
    /\ op.pc = "ssh_reboot" /\ SshWorks
    /\ Fault
    /\ op' = [op EXCEPT !.pc = "wait_closed", !.calm = FALSE]
    /\ dev' \in {dev, [dev EXCEPT ![op.host] = Asked(@)]}
    /\ UNCHANGED <<rekeyed, env, shown, commands>>

WaitClosed_Trusts ==
    /\ op.pc = "wait_closed"
    /\ Stop(IF op.noWait THEN "requested" ELSE "disabled")
    /\ UNCHANGED <<deviceVars, env, shown, commands>>
WaitClosed ==
    /\ op.pc = "wait_closed"
    /\ \/ op.noWait /\ Stop("requested")
       \/ ~op.noWait /\ ~Open(op.host, "ssh") /\ GoTo("wait_up")
       \/ ~op.noWait /\ Open(op.host, "ssh") /\ Stop("failed")
    /\ UNCHANGED <<deviceVars, env, shown, commands>>

(* Up means that ACP or an SMB port answers.                               *)
WaitUp ==
    /\ op.pc = "wait_up"
    /\ IF Open(op.host, "acp") \/ Open(op.host, "smb") THEN GoTo("verify") ELSE Stop("failed")
    /\ UNCHANGED <<deviceVars, env, shown, commands>>

VerifyDisabled ==
    /\ op.pc = "verify"
    /\ Stop(IF Open(op.host, "ssh") THEN "failed" ELSE "disabled")
    /\ UNCHANGED <<deviceVars, env, shown, commands>>

SetSshSteps ==
    \/ Report \/ NothingToDo \/ Act \/ PromptDisable
    \/ RemoveDbug \/ AskReboot \/ AskRebootTimesOut
    \/ WaitClosed \/ WaitUp \/ VerifyDisabled
=============================================================================
