------------------------------- MODULE Configure ------------------------------
(***************************************************************************)
(* configure and the app's settings update: probe the target, open SSH if  *)
(* it is closed, sign in, and only then replace the .env file              *)
(* (services/configure.py, with its terminal, scripted and app front ends). *)
(* The file is read when the command begins and written when it ends.      *)
(***************************************************************************)
EXTENDS SshAccess

(* A host given by name wins over a discovered record, both over the file. *)
Target(explicit, record, existing) ==
    IF explicit # NoHost THEN explicit ELSE IF record # NoHost THEN record ELSE existing
Targets == {Target(explicit, record, env.host) : explicit, record \in Hosts \cup {NoHost}}

(* Settings that cannot be combined end the command before it begins.      *)
BeginConfigure(ui, host, password, change, enable, persist) ==
    /\ host # NoHost /\ Legal(Merged(env.settings, change))
    /\ ui # "app" => persist
    /\ \E yes \in IF ui = "scripted" THEN BOOLEAN ELSE {FALSE},
          given \in IF ui = "app" THEN Answers ELSE {{}} :
          Launch([Command("configure", ui, host, password) EXCEPT
                    !.action = "enable", !.enable = enable, !.yes = yes, !.given = given,
                    !.change = change, !.settings = Merged(env.settings, change),
                    !.persist = persist, !.pc = "port"])

(* The update replaces the settings alone and does not ask the device.     *)
BeginUpdate(change) ==
    /\ HasTarget /\ Legal(Merged(env.settings, change))
    /\ Launch([Command("update", "app", env.host, env.password) EXCEPT
                 !.change = change, !.settings = Merged(env.settings, change),
                 !.unverified = env.unverified, !.pc = "write"])

(* The terminal opens a closed SSH unless told not to; a script must have  *)
(* said --enable-ssh and --yes; the app's user is asked.                   *)
MayEnable == op.enable /\ (op.ui = "scripted" => op.yes)

ProbePort ==
    /\ op.pc = "port"
    /\ \/ Open(op.host, "ssh") /\ GoTo("login") /\ UNCHANGED shown
       \/ /\ ~Open(op.host, "ssh") /\ ~op.again /\ MayEnable
          /\ IF op.ui = "app" THEN Confirm(op, "acp_probe") ELSE GoTo("acp_probe") /\ UNCHANGED shown
       \/ ~Open(op.host, "ssh") /\ (op.again \/ ~MayEnable) /\ Stop("failed") /\ UNCHANGED shown
    /\ UNCHANGED <<deviceVars, env, commands>>

(* NetBSD 4 or 6 on ARM, of an AirPort model the payloads are built for.   *)
Supported(h) == dev[h].supported

(* The probe's commands over SSH; an unknown or unsupported system, a      *)
(* transport or algorithm failure end the command.                         *)
Login ==
    /\ op.pc = "login" /\ Open(op.host, "ssh") /\ Accepts(op.host, op.password)
    /\ IF Supported(op.host) THEN GoTo("write") ELSE Stop("failed")
    /\ UNCHANGED <<deviceVars, env, shown, commands>>

LoginFails ==
    /\ op.pc = "login"
    /\ \/ ~Open(op.host, "ssh") /\ Stop("failed") /\ UNCHANGED deviceVars
       \/ Fault /\ Stop("failed") /\ UNCHANGED <<dev, rekeyed>>
    /\ UNCHANGED <<env, shown, commands>>

(* Only a user at a terminal may save a password that SSH rejects, or type *)
(* another.                                                                *)
LoginRejected_Saves ==
    /\ op.pc = "login" /\ Open(op.host, "ssh") /\ ~Accepts(op.host, op.password)
    /\ \/ AuthFailed
       \/ op' = [op EXCEPT !.unverified = op.ui = "cli", !.pc = "write"]
    /\ UNCHANGED <<deviceVars, env, shown, commands>>
LoginRejected ==
    /\ op.pc = "login" /\ Open(op.host, "ssh") /\ ~Accepts(op.host, op.password)
    /\ \/ AuthFailed
       \/ op.ui = "cli" /\ op' = [op EXCEPT !.unverified = TRUE, !.pc = "write"]
    /\ UNCHANGED <<deviceVars, env, shown, commands>>

(* "Please enter the SSH target and password again."                       *)
Prompt ==
    /\ op.pc = "prompt" /\ op.prompts < MaxPrompts
    /\ \E h \in Hosts, p \in Passwords :
          op' = [op EXCEPT !.host = h, !.password = p, !.pc = "port", !.again = FALSE,
                           !.prompts = @ + 1, !.calm = FALSE]
    /\ UNCHANGED <<deviceVars, env, shown, commands>>

Write_Misnamed ==
    /\ op.pc = "write"
    /\ env' = Rendered(op.host, op.password, op.persist, op.settings, op.unverified)
    /\ Stop("configured")
    /\ UNCHANGED <<deviceVars, shown, commands>>
Write ==
    /\ op.pc = "write"
    /\ env' = Rendered(op.host, op.password, op.persist, op.settings, op.unverified)
    /\ Stop("written")
    /\ UNCHANGED <<deviceVars, shown, commands>>

ConfigureSteps ==
    ProbePort \/ Login \/ LoginFails \/ LoginRejected \/ Prompt \/ Write
=============================================================================
