------------------------------ MODULE HostReboot ------------------------------
(***************************************************************************)
(* What the maintenance operations share: one remote call at a time, each  *)
(* of which may fail before or after its effect; the request of a reboot   *)
(* and its observation over SSH; and the result the user is shown.         *)
(***************************************************************************)
EXTENDS HostDevice

VARIABLES op,      \* the operation that runs, or "none"
          pc,      \* its next step
          run,     \* its options and local variables
          result   \* what the last operation reported, or NoResult

hostVars == <<op, pc, run, result>>

Ops == {"deploy", "uninstall", "activate", "fsck"}
Modes == {"netatalk", "stream"}
Files == PayloadFiles \union FlashFiles \union {"none"}

(* ui, noReboot and noWait are the user's options; home the payload home   *)
(* of a deploy; item the file to transfer or remove next; roots the        *)
(* volumes still to handle; targets those the plan names; rendered and     *)
(* migrated the metadata mode written to the flash configuration and the   *)
(* one the migrator was given.                                             *)
Runs == [ui : {"app", "cli"}, noReboot : BOOLEAN, noWait : BOOLEAN, home : Volumes,
         item : Files, roots : SUBSET Volumes, targets : SUBSET Volumes,
         rendered : Modes \union {"none"}, migrated : Modes \union {"none"}]

NoRun == [ui |-> "app", noReboot |-> FALSE, noWait |-> FALSE, home |-> Builtin,
          item |-> "none", roots |-> {}, targets |-> {},
          rendered |-> "none", migrated |-> "none"]

Results == [op : Ops \union {"none"}, status : {"none", "ok", "error", "cancelled"},
            verified : BOOLEAN, rebooted : BOOLEAN, home : Volumes]

NoResult == [op |-> "none", status |-> "none", verified |-> FALSE, rebooted |-> FALSE,
             home |-> Builtin]

Steps == {"idle", "confirm", "discover", "select", "stopManager", "stopDaemons", "prepare", "ensure",
          "put", "copy", "permissions", "verifyUpload", "flush", "verifyFlushed", "cleanup",
          "confirmReboot", "startRuntime", "askAcp", "ask", "down", "up", "autostart",
          "verifyRuntime", "mount", "removePayload", "removeFlash", "verifyAbsent",
          "probeRuntime", "fsck"}

HostTypeOK ==
    /\ op \in Ops \union {"none"} /\ pc \in Steps /\ run \in Runs /\ result \in Results

HostInit == op = "none" /\ pc = "idle" /\ run = NoRun /\ result = NoResult

(* Steps in which the host waits for the boot or the user; every other step *)
(* follows the one before within seconds, and a boot outlasts it.          *)
Waiting == {"idle", "confirm", "confirmReboot", "up"}

Begin(name, options, first) ==
    /\ op = "none"
    /\ op' = name /\ pc' = first /\ result' = NoResult
    /\ run' = [NoRun EXCEPT !.ui = options.ui, !.noReboot = options.noReboot,
                            !.noWait = options.noWait]
    /\ booted' = FALSE
    /\ UNCHANGED <<up, link, rebooting, mounted, deviceFiles, manager, smbd, faults>>

Goto(step) == pc' = step /\ UNCHANGED <<op, result>>

Ends(status, verified, rebooted) ==
    /\ op' = "none" /\ pc' = "idle" /\ run' = NoRun
    /\ result' = [op |-> op, status |-> status, verified |-> verified,
                  rebooted |-> rebooted, home |-> run.home]

(* A remote command that does what it should.                              *)
Call(Effect) == Reachable /\ Effect /\ UNCHANGED faults

(* A remote command that fails: the device does not answer, or the call    *)
(* times out or is refused before its effect or after (a part of) it.      *)
Fails(Part) == \/ ~Reachable /\ NoEffect /\ UNCHANGED faults
               \/ Reachable /\ Fault /\ (NoEffect \/ Part)

(* The common step: on to the next one, or the operation ends in an error. *)
Step(at, Effect, next) ==
    /\ pc = at
    /\ \/ Call(Effect) /\ Goto(next) /\ UNCHANGED run
       \/ Fails(Effect) /\ Ends("error", FALSE, FALSE)

-----------------------------------------------------------------------------
(* services/reboot.py.                                                     *)

(* Where an operation goes once its reboot was asked for.                  *)
Asked == IF run.noWait THEN Ends("ok", FALSE, FALSE)
                       ELSE Goto("down") /\ UNCHANGED run

(* ACP first, SSH when it fails.                                           *)
AskByAcp ==
    /\ pc = "askAcp"
    /\ \/ Call(AsksReboot) /\ Asked
       \/ Fails(AsksReboot) /\ Goto("ask") /\ UNCHANGED run

(* A failed SSH request ends only an operation that will not watch.        *)
AskBySsh ==
    /\ pc = "ask"
    /\ \/ Call(AsksReboot) /\ Asked
       \/ Fails(AsksReboot) /\ IF run.noWait THEN Ends("error", FALSE, FALSE) ELSE Asked

(* One failed echo is "down": the device may be booting, the link may be   *)
(* gone, or this call alone may have failed.                               *)
SeesDown ==
    /\ pc = "down" /\ NoEffect /\ Goto("up") /\ UNCHANGED run
    /\ \/ ~Reachable /\ UNCHANGED faults
       \/ Reachable /\ Fault

(* The minute is over.  An accepted reboot begins within it.               *)
NeverDown == pc = "down" /\ Reachable /\ ~rebooting /\ NoEffect /\ UNCHANGED faults
             /\ Ends("error", FALSE, FALSE)

(* What an operation does once SSH answers again.                          *)
AfterReboot ==
    CASE op = "deploy" /\ firmware = "nb6" -> Goto("verifyRuntime") /\ UNCHANGED run
      [] op = "deploy" /\ firmware # "nb6" -> Goto("autostart") /\ UNCHANGED run
      [] op = "uninstall" -> Goto("verifyAbsent") /\ UNCHANGED run
      [] op = "fsck" -> Ends("ok", TRUE, TRUE)

SeesUp == pc = "up" /\ Call(NoEffect) /\ AfterReboot

NeverUp == pc = "up" /\ ~Reachable /\ Fault /\ NoEffect /\ Ends("error", FALSE, FALSE)

(* services/runtime_verification.py: polls until the runtime is ready; an  *)
(* unreachable device is an error, a runtime that cannot start a timeout.  *)
CannotServe == manager = "none" \/ \A v \in Volumes : ~Servable(v)

RuntimeReady == pc = "verifyRuntime" /\ Ready /\ Call(NoEffect)
                /\ Ends("ok", TRUE, op = "deploy" /\ ~run.noReboot)

RuntimeNotReady ==
    /\ pc = "verifyRuntime" /\ NoEffect /\ Ends("error", FALSE, FALSE)
    /\ \/ ~Reachable /\ UNCHANGED faults
       \/ Reachable /\ ~Ready /\ CannotServe /\ UNCHANGED faults
       \/ Reachable /\ ~Ready /\ Fault

RebootStep == AskByAcp \/ AskBySsh \/ SeesDown \/ NeverDown \/ SeesUp \/ NeverUp
              \/ RuntimeReady \/ RuntimeNotReady
=============================================================================
