--------------------------------- MODULE Host ---------------------------------
(***************************************************************************)
(* One user's maintenance operations on one device, one after another, with *)
(* everything that can go wrong between two of their steps.                *)
(***************************************************************************)
EXTENDS HostDeploy, HostMaintain

CONSTANT MaxChores   \* bound on the operations other than plain deploys

ASSUME ChoresAssumption == MaxChores \in Nat

VARIABLE chores

vars == <<deviceVars, faults, hostVars, chores>>

Options == [ui : {"app", "cli"}, noReboot : BOOLEAN, noWait : BOOLEAN]

(* A deploy that reboots, waits and verifies.                              *)
Plain == {o \in Options : ~o.noReboot /\ ~o.noWait}

Init == DeviceInit /\ HostInit /\ chores = 0

PlainDeploy == \E o \in Plain : StartDeploy(o) /\ UNCHANGED chores

(* effective_no_wait: waiting is a matter of operations that reboot.       *)
Chore ==
    /\ chores < MaxChores /\ chores' = chores + 1
    /\ \E o \in Options :
          /\ o.noWait => ~o.noReboot
          /\ \/ o \notin Plain /\ StartDeploy(o)
             \/ \E name \in Ops \ {"deploy"} : StartMaintenance(name, o)

(* The boot outlasts any step that follows another at once.                *)
BootEnds == pc \in Waiting /\ ComeUp /\ UNCHANGED <<hostVars, chores>>

DeviceMoves == DeviceStep /\ UNCHANGED <<hostVars, chores>>

HostMoves == (DeployStep \/ MaintainStep \/ RebootStep) /\ UNCHANGED chores

Next == PlainDeploy \/ Chore \/ BootEnds \/ DeviceMoves \/ HostMoves

Spec == Init /\ [][Next]_vars

(* Every remote call ends, by its timeout at the latest; the device boots, *)
(* however often the host tries meanwhile, the manager it starts serves,   *)
(* the network comes back; and the user goes on deploying, and says yes    *)
(* again and again.                                                        *)
Accepts == HostMoves /\ pc \in {"confirm", "confirmReboot"} /\ op' = op

FairSpec == /\ Spec
            /\ SF_vars(BootEnds) /\ WF_vars(HostMoves)
            /\ WF_vars(GoDown /\ UNCHANGED <<hostVars, chores>>)
            /\ WF_vars(LinkBack /\ UNCHANGED <<hostVars, chores>>)
            /\ WF_vars(\E v \in Volumes : ManagerServes(v) /\ UNCHANGED <<hostVars, chores>>)
            /\ SF_vars(PlainDeploy) /\ SF_vars(Accepts)

-----------------------------------------------------------------------------
(* Types of all variables.                                                 *)
TypeOK == DeviceTypeOK /\ HostTypeOK /\ chores \in 0 .. MaxChores

Verified(name) == result.op = name /\ result.verified

(* A deploy that reports a verified runtime has put every file of the new  *)
(* release on the payload home and on flash, and nothing of it would be    *)
(* lost in a power cut (deploy.py: 773, 1099).                             *)
DeployedIsWhole ==
    Verified("deploy") => /\ \A f \in PayloadFiles : payload[result.home][f] = "new"
                          /\ dirty[result.home] = {}
                          /\ \A f \in FlashFiles : flash[f] = "new"

(* No file of the payload or of flash is replaced or removed while a       *)
(* manager or an smbd runs from it (planner.py: "Stop runtime supervisors  *)
(* first so they do not restart daemons while deploy is overwriting").     *)
WritesAreQuiet ==
    [][(up' /\ (payload' # payload \/ flash' # flash)) => manager = "none" /\ smbd = "none"]_vars

(* A deploy retires a volume's legacy records only once they are native    *)
(* (executor.py: 38), whatever volume came, went or failed in between.     *)
RecordsSurviveDeploys == [][op = "deploy" => records \ records' \subseteq native']_vars

(* Once an uninstall reports success, with or without its reboot, nothing  *)
(* starts the runtime again, boots included (planner.py: 398).             *)
UninstalledStaysDown ==
    result.op = "uninstall" /\ result.status = "ok"
        => manager = "none" /\ smbd = "none" /\ flash["boot"] = "none"

(* However operations fail, when the faults end a user who keeps deploying *)
(* gets a verified deployment: no failure leaves the device in a state     *)
(* from which a deploy cannot recover it.                                  *)
DeployGetsThrough == []<>Verified("deploy")

=============================================================================
