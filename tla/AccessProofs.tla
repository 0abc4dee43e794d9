----------------------------- MODULE AccessProofs -----------------------------
(***************************************************************************)
(* Proofs about Access, for any number of devices, passwords, commands and *)
(* faults.                                                                 *)
(***************************************************************************)
EXTENDS Access, TLAPS

-----------------------------------------------------------------------------
(* Type correctness.  A command's step tells what kind of command it is.   *)

EnablePCs == {"acp_probe", "set_dbug", "acp_reboot", "wait_open"}
DisablePCs == {"remove_dbug", "ssh_reboot", "wait_closed", "wait_up", "verify"}
ConfigurePCs == {"port", "login", "prompt"}
CheckPCs == {"check_port", "check_auth", "check_smb"}

LaneInv ==
    /\ op.pc # "done" => op.host \in Hosts
    /\ op.pc = "ssh_probe" => op.kind = "set-ssh"
    /\ op.pc \in EnablePCs => op.kind \in {"set-ssh", "configure"} /\ op.action = "enable"
    /\ op.pc \in DisablePCs => op.kind = "set-ssh" /\ op.action = "disable"
    /\ op.pc \in ConfigurePCs => op.kind = "configure" /\ op.action = "enable"
    /\ op.pc \in CheckPCs => op.kind = "reachability"
    /\ op.pc = "write" => op.kind \in {"configure", "update"}

TypedInv == TypeOK /\ LaneInv

\* A device keeps its type whatever of it changes.
LEMMA DeviceKeepsType ==
    ASSUME NEW d \in Device
    PROVE  /\ \A flag \in BOOLEAN : [d EXCEPT !.flag = flag] \in Device
           /\ \A p \in Passwords : [d EXCEPT !.secret = p] \in Device
           /\ Asked(d) \in Device
           /\ \A p \in Ports, phase \in {"up", "booting"} :
                 /\ [d EXCEPT !.open = @ \ {p}, !.phase = phase] \in Device
                 /\ [d EXCEPT !.open = @ \cup {p}, !.phase = phase] \in Device
           /\ [d EXCEPT !.phase = "stopping", !.owes = FALSE] \in Device
           /\ [d EXCEPT !.phase = "booting", !.open = {}, !.owes = FALSE] \in Device
BY DEF Device, Asked

\* The empty command is a command.
LEMMA NoCommandIsTyped ==
    NoCommand \in CommandType /\ NoCommand.pc = "done"
BY BoundsAssumption DEF NoCommand, Command, CommandType, Kinds, PCs, Results, Keep, Override

\* An ended command is a command that is done, with that result.
LEMMA EndedIsTyped ==
    ASSUME NEW o \in CommandType, NEW result \in Results
    PROVE  /\ Ended(o, result) \in CommandType
           /\ Ended(o, result).pc = "done" /\ Ended(o, result).result = result
<1> DEFINE of == IF result \in Claims THEN o ELSE NoCommand
<1>1. of \in CommandType
  BY NoCommandIsTyped
<1>2. /\ of.host \in Hosts \cup {NoHost} /\ of.password \in Passwords \cup {NoPassword}
      /\ of.calm \in BOOLEAN
  BY <1>1 DEF CommandType
<1> DEFINE ended == [NoCommand EXCEPT !.host = of.host, !.password = of.password, !.calm = of.calm,
                                      !.result = result]
<1>3. Ended(o, result) = ended
  BY DEF Ended
<1> HIDE DEF of
<1>4. ended \in CommandType /\ ended.pc = "done" /\ ended.result = result
  BY <1>2, NoCommandIsTyped DEF CommandType
<1> QED
  BY <1>3, <1>4

\* A command that begins is typed.
LEMMA CommandIsTyped ==
    ASSUME NEW kind \in Kinds, NEW ui \in {"cli", "scripted", "app"},
           NEW host \in Hosts \cup {NoHost}, NEW password \in Passwords \cup {NoPassword}
    PROVE  /\ Command(kind, ui, host, password) \in CommandType
           /\ Command(kind, ui, host, password).kind = kind
           /\ Command(kind, ui, host, password).host = host
BY BoundsAssumption DEF Command, CommandType, PCs, Results, Keep, Override, Settled

\* The options of a request keep a command typed.
LEMMA SetSshIsTyped ==
    ASSUME NEW o \in CommandType, NEW given \in SUBSET Questions,
           NEW noWait \in BOOLEAN, NEW yes \in BOOLEAN,
           NEW action \in {"status", "enable", "disable", "legacy"}, NEW pc \in PCs
    PROVE  [o EXCEPT !.action = action, !.noWait = noWait, !.yes = yes, !.given = given,
                     !.pc = pc] \in CommandType
BY DEF CommandType

LEMMA UpdateIsTyped ==
    ASSUME NEW o \in CommandType, NEW change \in Override, NEW s \in SUBSET Settings,
           NEW unverified \in BOOLEAN, NEW pc \in PCs
    PROVE  [o EXCEPT !.change = change, !.settings = s, !.unverified = unverified,
                     !.pc = pc] \in CommandType
BY DEF CommandType

\* What a request may carry along is an answer to what the app has asked.
LEMMA AnswersAreShown ==
    ASSUME shown \subseteq Questions, NEW given \in Answers
    PROVE  given \subseteq shown
<1>1. \A q \in Questions : Confirmation(q) = q
  BY DEF Questions, Confirmation
<1> QED
  BY <1>1 DEF Answers

\* Merged settings are settings.
LEMMA MergedAreSettings ==
    ASSUME NEW s \in SUBSET Settings, NEW change \in Override
    PROVE  Merged(s, change) \in SUBSET Settings
BY DEF Merged, Override

\* The environment, the wrapped-up command and the devices of a command's
\* end are typed.
LEMMA StopIsTyped ==
    ASSUME TypedInv, NEW result \in Results, Stop(result)
    PROVE  op' \in CommandType /\ LaneInv'
BY EndedIsTyped DEF TypedInv, TypeOK, Stop, LaneInv, EnablePCs, DisablePCs, ConfigurePCs, CheckPCs

\* The next step of a command keeps the command's type.
LEMMA GoToIsTyped ==
    ASSUME TypedInv, NEW pc \in PCs, GoTo(pc)
    PROVE  op' \in CommandType /\ op' = [op EXCEPT !.pc = pc]
BY DEF TypedInv, TypeOK, GoTo, CommandType

\* A command that begins is typed, whichever it is.
LEMMA BeginIsTyped ==
    ASSUME TypedInv, Begin
    PROVE  TypedInv'
<1> USE DEF TypedInv, TypeOK, EnablePCs, DisablePCs, ConfigurePCs, CheckPCs
<1>1. ASSUME NEW command \in CommandType, Launch(command)
      PROVE  TypeOK' /\ op' = command
  BY <1>1, BoundsAssumption DEF Begin, MayBegin, Launch, deviceVars
<1>2. env.host \in Hosts \cup {NoHost} /\ env.password \in Passwords \cup {NoPassword}
      /\ env.settings \in SUBSET Settings /\ env.unverified \in BOOLEAN
  BY DEF EnvFiles
<1>3. \A given \in Answers : given \in SUBSET Questions
  BY AnswersAreShown
<1>4. ASSUME NEW ui \in {"cli", "app"}, NEW action \in {"status", "enable", "disable", "legacy"},
             NEW noWait \in BOOLEAN, NEW p \in Passwords \cup {NoPassword},
             BeginSetSsh(ui, action, noWait, p)
      PROVE  TypedInv'
  <2> DEFINE secret == IF ui = "app" THEN Overlaid(p) ELSE env.password
  <2>1. secret \in Passwords \cup {NoPassword} /\ env.host \in Hosts
    BY <1>2, <1>4 DEF BeginSetSsh, HasTarget, Overlaid
  <2> DEFINE base == Command("set-ssh", ui, env.host, secret)
  <2> DEFINE begun(yes, given) ==
               [base EXCEPT
                  !.action = action, !.noWait = noWait, !.yes = yes, !.given = given,
                  !.pc = "ssh_probe"]
  <2>2. PICK yes \in BOOLEAN, given \in Answers \cup {{}} : Launch(begun(yes, given))
    BY <1>4 DEF BeginSetSsh
  <2>3. /\ begun(yes, given) \in CommandType
        /\ begun(yes, given).pc = "ssh_probe"
        /\ begun(yes, given).kind = "set-ssh" /\ begun(yes, given).host = env.host
    <3>1. base \in CommandType /\ base.kind = "set-ssh" /\ base.host = env.host
      BY <2>1, CommandIsTyped DEF Kinds
    <3>2. given \in SUBSET Questions
      BY <1>3, <2>2
    <3> HIDE DEF base
    <3>3. begun(yes, given) \in CommandType
      <4>1. yes \in BOOLEAN /\ "ssh_probe" \in PCs
        BY <2>2 DEF PCs
      <4> QED
        BY ONLY <1>4, <3>1, <3>2, <4>1, SetSshIsTyped
    <3> QED
      BY <3>1, <3>3 DEF CommandType
  <2> QED
    BY <1>1, <2>1, <2>2, <2>3 DEF LaneInv
<1>5. ASSUME NEW ui \in {"cli", "scripted", "app"}, NEW host \in Targets, NEW p \in Passwords,
             NEW change \in Changes, NEW enable \in BOOLEAN, NEW persist \in BOOLEAN,
             BeginConfigure(ui, host, p, change, enable, persist)
      PROVE  TypedInv'
  <2>1. host \in Hosts /\ change \in Override /\ Merged(env.settings, change) \in SUBSET Settings
    BY <1>2, <1>5, MergedAreSettings, ChangesAssumption DEF BeginConfigure, Targets, Target
  <2> DEFINE base == Command("configure", ui, host, p)
  <2> DEFINE begun(yes, given) ==
               [base EXCEPT
                  !.action = "enable", !.enable = enable, !.yes = yes, !.given = given,
                  !.change = change, !.settings = Merged(env.settings, change),
                  !.persist = persist, !.pc = "port"]
  <2>2. PICK yes \in BOOLEAN, given \in Answers \cup {{}} : Launch(begun(yes, given))
    BY <1>5 DEF BeginConfigure
  <2>3. /\ begun(yes, given) \in CommandType
        /\ begun(yes, given).pc = "port" /\ begun(yes, given).action = "enable"
        /\ begun(yes, given).kind = "configure" /\ begun(yes, given).host = host
    <3>1. base \in CommandType /\ base.kind = "configure" /\ base.host = host
      BY <2>1, CommandIsTyped DEF Kinds
    <3>2. given \in SUBSET Questions
      BY <1>3, <2>2
    <3> HIDE DEF base
    <3>3. begun(yes, given) \in CommandType
      <4>1. yes \in BOOLEAN /\ "port" \in PCs
        BY <2>2 DEF PCs
      <4> DEFINE merged == Merged(env.settings, change)
      <4>2. merged \in SUBSET Settings
        BY <2>1
      <4> HIDE DEF merged
      <4>3. [base EXCEPT !.action = "enable", !.enable = enable, !.yes = yes, !.given = given,
                         !.change = change, !.settings = merged, !.persist = persist,
                         !.pc = "port"] \in CommandType
        BY ONLY <1>5, <2>1, <3>1, <3>2, <4>1, <4>2 DEF CommandType
      <4> QED
        BY <4>3 DEF merged
    <3> QED
      BY <3>1, <3>3 DEF CommandType
  <2> QED
    BY <1>1, <2>1, <2>2, <2>3 DEF LaneInv
<1>6. ASSUME NEW change \in Changes, BeginUpdate(change)
      PROVE  TypedInv'
  <2>1. /\ env.host \in Hosts /\ change \in Override
        /\ Merged(env.settings, change) \in SUBSET Settings
    BY <1>2, <1>6, MergedAreSettings, ChangesAssumption DEF BeginUpdate, HasTarget
  <2> DEFINE base == Command("update", "app", env.host, env.password)
  <2> DEFINE begun == [base EXCEPT
                         !.change = change, !.settings = Merged(env.settings, change),
                         !.unverified = env.unverified, !.pc = "write"]
  <2>2. begun \in CommandType /\ begun.pc = "write" /\ begun.kind = "update" /\ begun.host = env.host
    <3>1. base \in CommandType /\ base.kind = "update" /\ base.host = env.host
      BY <1>2, <2>1, CommandIsTyped DEF Kinds
    <3> HIDE DEF base
    <3>2. begun \in CommandType
      BY <1>2, <2>1, <3>1, UpdateIsTyped DEF PCs
    <3> QED
      BY <3>1, <3>2 DEF CommandType
  <2> QED
    BY <1>1, <1>6, <2>1, <2>2 DEF BeginUpdate, LaneInv
<1>7. ASSUME NEW host \in Hosts, NEW proxied \in BOOLEAN, NEW p \in Passwords \cup {NoPassword},
             BeginReachability(host, proxied, p)
      PROVE  TypedInv'
  <2>1. Overlaid(p) \in Passwords \cup {NoPassword}
    BY <1>2 DEF Overlaid
  <2> DEFINE first == IF proxied THEN "check_auth" ELSE "check_port"
             begun == [Command("reachability", "app", host, Overlaid(p)) EXCEPT !.pc = first]
  <2>2. /\ begun \in CommandType /\ begun.pc \in CheckPCs /\ begun.kind = "reachability"
        /\ begun.host = host
    BY <2>1, CommandIsTyped DEF CommandType, Kinds, PCs, CheckPCs
  <2> QED
    BY <1>1, <1>7, <2>1, <2>2 DEF BeginReachability, LaneInv, CheckPCs
<1> QED
  BY <1>4, <1>5, <1>6, <1>7 DEF Begin

\* A command that is done, or moves on within its lane, stays typed.
LEMMA MoveIsTyped ==
    ASSUME TypedInv, NEW pc \in PCs, GoTo(pc),
           \/ op.pc = "ssh_probe" /\ pc = "ssh_probe"
           \/ op.pc \in EnablePCs /\ pc \in EnablePCs
           \/ op.pc \in DisablePCs /\ pc \in DisablePCs
           \/ op.pc \in ConfigurePCs /\ pc \in ConfigurePCs \cup EnablePCs \cup {"write"}
           \/ op.pc \in EnablePCs /\ op.kind = "configure" /\ pc \in ConfigurePCs
    PROVE  op' \in CommandType /\ LaneInv'
<1>1. op \in CommandType /\ op' = [op EXCEPT !.pc = pc] /\ op' \in CommandType
  BY GoToIsTyped DEF TypedInv, TypeOK
<1>2. /\ op'.pc = pc /\ op'.kind = op.kind /\ op'.action = op.action /\ op'.host = op.host
  BY <1>1 DEF CommandType
<1> QED
  BY <1>1, <1>2 DEF TypedInv, LaneInv, EnablePCs, DisablePCs, ConfigurePCs, CheckPCs

\* A device that is written to stays typed.
LEMMA WriteIsTyped ==
    ASSUME TypedInv, NEW h \in Hosts, NEW done \in Device,
           dev' \in {dev, [dev EXCEPT ![h] = done]}
    PROVE  dev' \in [Hosts -> Device]
BY DEF TypedInv, TypeOK

\* The bounded number of faults.
LEMMA FaultIsTyped ==
    ASSUME TypedInv, Fault
    PROVE  faults' \in 0 .. MaxFaults
BY FaultsAssumption DEF TypedInv, TypeOK, Fault

\* One ACP request keeps all types, whatever comes of it.
LEMMA AcpCallIsTyped ==
    ASSUME TypedInv, op.pc \in EnablePCs, NEW done \in Device, NEW pc \in EnablePCs,
           AcpCall(done, pc)
    PROVE  TypedInv'
<1>1. op.host \in Hosts /\ pc \in PCs
  BY DEF TypedInv, LaneInv, EnablePCs, PCs
<1>2. op' \in CommandType /\ LaneInv'
  <2>1. \/ Stop("failed") \/ Stop("auth_failed") \/ GoTo(pc)
        \/ op.kind = "configure" /\ GoTo("prompt")
    BY DEF AcpCall, AuthFailed
  <2>2. ASSUME op.kind = "configure", GoTo("prompt")
        PROVE  op' \in CommandType /\ LaneInv'
    BY <2>2, MoveIsTyped DEF ConfigurePCs, PCs
  <2>3. ASSUME GoTo(pc)
        PROVE  op' \in CommandType /\ LaneInv'
    BY <1>1, <2>3, MoveIsTyped
  <2> QED
    BY <2>1, <2>2, <2>3, StopIsTyped DEF Results
<1>3. dev' \in {dev, [dev EXCEPT ![op.host] = done]}
  BY DEF AcpCall, deviceVars
<1>4. dev' \in [Hosts -> Device]
  BY <1>1, <1>3, WriteIsTyped
<1>5. faults' \in 0 .. MaxFaults /\ rekeyed' = rekeyed
  BY FaultIsTyped DEF AcpCall, deviceVars, TypedInv, TypeOK
<1> QED
  BY <1>2, <1>4, <1>5 DEF AcpCall, TypedInv, TypeOK

\* So does one command over SSH.
LEMMA SshCallIsTyped ==
    ASSUME TypedInv, op.pc \in DisablePCs, NEW done \in Device, NEW pc \in DisablePCs,
           SshCall(done, pc)
    PROVE  TypedInv'
<1>1. op.host \in Hosts /\ pc \in PCs
  BY DEF TypedInv, LaneInv, DisablePCs, PCs
<1>2. op' \in CommandType /\ LaneInv'
  <2>1. Stop("failed") \/ GoTo(pc)
    BY DEF SshCall
  <2> QED
    BY <1>1, <2>1, MoveIsTyped, StopIsTyped DEF Results
<1>3. dev' \in {dev, [dev EXCEPT ![op.host] = done]}
  BY DEF SshCall, deviceVars
<1>4. dev' \in [Hosts -> Device]
  BY <1>1, <1>3, WriteIsTyped
<1>5. faults' \in 0 .. MaxFaults /\ rekeyed' = rekeyed
  BY FaultIsTyped DEF SshCall, deviceVars, TypedInv, TypeOK
<1> QED
  BY <1>2, <1>4, <1>5 DEF SshCall, TypedInv, TypeOK

\* A step of the host that leaves devices, file and questions alone.
LEMMA QuietIsTyped ==
    ASSUME TypedInv, UNCHANGED <<deviceVars, env, shown, commands>>, op' \in CommandType, LaneInv'
    PROVE  TypedInv'
BY DEF TypedInv, TypeOK, deviceVars

\* The steps with which SSH is opened.
LEMMA EnableIsTyped ==
    ASSUME TypedInv, EnableSteps
    PROVE  TypedInv'
<1>1. CASE AcpProbe
  <2>1. op.pc = "acp_probe" /\ (GoTo("set_dbug") \/ Stop("failed"))
    BY <1>1 DEF AcpProbe
  <2>2. op' \in CommandType /\ LaneInv'
    BY <2>1, MoveIsTyped, StopIsTyped DEF EnablePCs, PCs, Results
  <2> QED
    BY <1>1, <2>2, QuietIsTyped DEF AcpProbe
<1>2. CASE SetDbug
  <2>1. op.pc \in EnablePCs /\ op.host \in Hosts /\ [dev[op.host] EXCEPT !.flag = TRUE] \in Device
    BY <1>2, DeviceKeepsType DEF SetDbug, TypedInv, TypeOK, LaneInv, EnablePCs
  <2> QED
    BY <1>2, <2>1, AcpCallIsTyped DEF SetDbug, EnablePCs
<1>3. CASE AcpReboot
  <2>1. op.pc \in EnablePCs /\ op.host \in Hosts /\ Asked(dev[op.host]) \in Device
    BY <1>3, DeviceKeepsType DEF AcpReboot, TypedInv, TypeOK, LaneInv, EnablePCs
  <2> QED
    BY <1>3, <2>1, AcpCallIsTyped DEF AcpReboot, EnablePCs
<1>4. CASE WaitOpen
  <2>1. op.pc = "wait_open"
    BY <1>4 DEF WaitOpen
  <2>2. ASSUME op.kind # "set-ssh", op' = [op EXCEPT !.pc = "port", !.again = TRUE]
        PROVE  op' \in CommandType /\ LaneInv'
    <3>1. op' \in CommandType
      BY <2>2 DEF TypedInv, TypeOK, CommandType, PCs
    <3>2. LaneInv'
      BY <2>1, <2>2
      DEF TypedInv, TypeOK, LaneInv, CommandType, EnablePCs, DisablePCs, ConfigurePCs, CheckPCs
    <3> QED
      BY <3>1, <3>2
  <2>3. ASSUME Stop("requested") \/ Stop("enabled") \/ Stop("failed")
        PROVE  op' \in CommandType /\ LaneInv'
    BY <2>3, StopIsTyped DEF Results
  <2> QED
    BY <1>4, <2>2, <2>3, QuietIsTyped DEF WaitOpen
<1> QED
  BY <1>1, <1>2, <1>3, <1>4 DEF EnableSteps

\* Asking the user, or going on with what was agreed to.
LEMMA ConfirmIsTyped ==
    ASSUME TypedInv, NEW o \in CommandType, NEW pc \in PCs, Confirm(o, pc),
           o.kind \in {"set-ssh", "configure"}, o.action \in {"enable", "disable"},
           o.host \in Hosts
    PROVE  /\ shown' \subseteq Questions
           /\ \/ op' = [o EXCEPT !.pc = pc]
              \/ op' \in CommandType /\ op'.pc = "done"
<1>1. Question(o) \in Questions
  BY DEF Question, Questions
<1>2. Ended(o, "confirm") \in CommandType /\ Ended(o, "confirm").pc = "done"
  BY EndedIsTyped DEF Results
<1> QED
  BY <1>1, <1>2 DEF TypedInv, TypeOK, Confirm

\* A command that is done is in nobody's lane.
LEMMA DoneIsTyped ==
    ASSUME op'.pc = "done"
    PROVE  LaneInv'
BY DEF LaneInv, EnablePCs, DisablePCs, ConfigurePCs, CheckPCs

\* The steps of set-ssh.
LEMMA SetSshStepsAreTyped ==
    ASSUME TypedInv, SetSshSteps
    PROVE  TypedInv'
<1> USE DEF Results
<1>1. CASE Report
  <2>1. Stop("ssh_open") \/ Stop("ssh_closed")
    BY <1>1 DEF Report
  <2> QED
    BY <1>1, <2>1, StopIsTyped, QuietIsTyped DEF Report
<1>2. CASE NothingToDo
  <2>1. Stop("enable_noop") \/ Stop("disable_noop")
    BY <1>2 DEF NothingToDo
  <2> QED
    BY <1>2, <2>1, StopIsTyped, QuietIsTyped DEF NothingToDo
<1>3. CASE Act
  <2> DEFINE what == SelectAction(op.action, Open(op.host, "ssh"))
             o == [op EXCEPT !.action = what]
  <2>1. op.kind = "set-ssh" /\ op.host \in Hosts /\ op \in CommandType
    BY <1>3 DEF Act, TypedInv, TypeOK, LaneInv
  <2>2. what \in {"enable", "disable"}
    BY <1>3 DEF Act
  <2>3. \/ Confirm(o, FirstStep(what))
        \/ op' = [o EXCEPT !.pc = FirstStep(what)] /\ UNCHANGED shown
    BY <1>3 DEF Act
  <2>4. /\ FirstStep(what) \in PCs
        /\ what = "enable" => FirstStep(what) = "acp_probe"
        /\ what = "disable" => FirstStep(what) = "remove_dbug"
    BY <2>2 DEF FirstStep, PCs
  <2> HIDE DEF what
  <2>5. o \in CommandType /\ o.kind = "set-ssh" /\ o.host = op.host /\ o.action = what
    BY <2>1, <2>2 DEF CommandType
  <2> HIDE DEF o
  <2>6. /\ shown' \subseteq Questions
        /\ \/ op' = [o EXCEPT !.pc = FirstStep(what)]
           \/ op' \in CommandType /\ op'.pc = "done"
    BY <2>1, <2>2, <2>3, <2>4, <2>5, ConfirmIsTyped DEF TypedInv, TypeOK
  <2>7. op' \in CommandType /\ LaneInv'
    <3>1. ASSUME op' = [o EXCEPT !.pc = FirstStep(what)]
          PROVE  op' \in CommandType /\ LaneInv'
      <4>1. op' \in CommandType
        BY <2>4, <2>5, <3>1 DEF CommandType
      <4>2. /\ op'.pc = FirstStep(what) /\ op'.kind = "set-ssh" /\ op'.action = what
            /\ op'.host \in Hosts
        BY <2>1, <2>5, <3>1 DEF CommandType
      <4> QED
        BY <2>2, <2>4, <4>1, <4>2 DEF LaneInv, EnablePCs, DisablePCs, ConfigurePCs, CheckPCs
    <3> QED
      BY <2>6, <3>1, DoneIsTyped
  <2> QED
    BY <1>3, <2>6, <2>7 DEF Act, TypedInv, TypeOK, deviceVars
<1>4. CASE PromptDisable
  <2>1. op.kind = "set-ssh" /\ op.host \in Hosts /\ op \in CommandType
    BY <1>4 DEF PromptDisable, TypedInv, TypeOK, LaneInv
  <2>2. ASSUME op' = [op EXCEPT !.action = "disable", !.yes = TRUE, !.pc = "remove_dbug"]
        PROVE  op' \in CommandType /\ LaneInv'
    <3>1. op' \in CommandType
      BY <2>1, <2>2 DEF CommandType, PCs
    <3>2. LaneInv'
      BY <2>1, <2>2 DEF LaneInv, CommandType, EnablePCs, DisablePCs, ConfigurePCs, CheckPCs
    <3> QED
      BY <3>1, <3>2
  <2>3. ASSUME Stop("left")
        PROVE  op' \in CommandType /\ LaneInv'
    BY <2>3, StopIsTyped
  <2> QED
    BY <1>4, <2>2, <2>3, QuietIsTyped DEF PromptDisable
<1>5. CASE RemoveDbug
  <2>1. op.pc \in DisablePCs /\ op.host \in Hosts /\ [dev[op.host] EXCEPT !.flag = FALSE] \in Device
    BY <1>5, DeviceKeepsType DEF RemoveDbug, TypedInv, TypeOK, LaneInv, DisablePCs
  <2> QED
    BY <1>5, <2>1, SshCallIsTyped DEF RemoveDbug, DisablePCs
<1>6. CASE AskReboot
  <2>1. op.pc \in DisablePCs /\ op.host \in Hosts /\ Asked(dev[op.host]) \in Device
    BY <1>6, DeviceKeepsType DEF AskReboot, TypedInv, TypeOK, LaneInv, DisablePCs
  <2> QED
    BY <1>6, <2>1, SshCallIsTyped DEF AskReboot, DisablePCs
<1>7. CASE AskRebootTimesOut
  <2>1. /\ op.pc = "ssh_reboot" /\ op.kind = "set-ssh" /\ op.action = "disable"
        /\ op.host \in Hosts /\ op \in CommandType /\ Asked(dev[op.host]) \in Device
    BY <1>7, DeviceKeepsType DEF AskRebootTimesOut, TypedInv, TypeOK, LaneInv, DisablePCs
  <2>2. op' = [op EXCEPT !.pc = "wait_closed", !.calm = FALSE]
    BY <1>7 DEF AskRebootTimesOut
  <2>3. op' \in CommandType
    BY <2>1, <2>2 DEF CommandType, PCs
  <2>4. LaneInv'
    BY <2>1, <2>2 DEF LaneInv, CommandType, EnablePCs, DisablePCs, ConfigurePCs, CheckPCs
  <2>5. dev' \in {dev, [dev EXCEPT ![op.host] = Asked(dev[op.host])]}
    BY <1>7, <2>1 DEF AskRebootTimesOut, TypedInv, TypeOK
  <2>6. dev' \in [Hosts -> Device]
    BY <2>1, <2>5, WriteIsTyped
  <2> QED
    BY <1>7, <2>3, <2>4, <2>6, FaultIsTyped DEF AskRebootTimesOut, TypedInv, TypeOK
<1>8. CASE WaitClosed
  <2>1. op.pc = "wait_closed" /\ (Stop("requested") \/ GoTo("wait_up") \/ Stop("failed"))
    BY <1>8 DEF WaitClosed
  <2>2. op' \in CommandType /\ LaneInv'
    BY <2>1, MoveIsTyped, StopIsTyped DEF DisablePCs, PCs
  <2> QED
    BY <1>8, <2>2, QuietIsTyped DEF WaitClosed
<1>9. CASE WaitUp
  <2>1. op.pc = "wait_up" /\ (GoTo("verify") \/ Stop("failed"))
    BY <1>9 DEF WaitUp
  <2>2. op' \in CommandType /\ LaneInv'
    BY <2>1, MoveIsTyped, StopIsTyped DEF DisablePCs, PCs
  <2> QED
    BY <1>9, <2>2, QuietIsTyped DEF WaitUp
<1>10. CASE VerifyDisabled
  <2>1. Stop("failed") \/ Stop("disabled")
    BY <1>10 DEF VerifyDisabled
  <2> QED
    BY <1>10, <2>1, StopIsTyped, QuietIsTyped DEF VerifyDisabled
<1> QED
  BY <1>1, <1>2, <1>3, <1>4, <1>5, <1>6, <1>7, <1>8, <1>9, <1>10 DEF SetSshSteps

\* The steps of configure, and the write that ends configure and update.
LEMMA ConfigureStepsAreTyped ==
    ASSUME TypedInv, ConfigureSteps
    PROVE  TypedInv'
<1> USE DEF Results
<1>1. CASE ProbePort
  <2>1. /\ op.pc = "port" /\ op.kind = "configure" /\ op.action = "enable" /\ op.host \in Hosts
        /\ op \in CommandType
    BY <1>1 DEF ProbePort, TypedInv, TypeOK, LaneInv, ConfigurePCs
  <2>2. \/ GoTo("login") /\ UNCHANGED shown
        \/ Confirm(op, "acp_probe")
        \/ GoTo("acp_probe") /\ UNCHANGED shown
        \/ Stop("failed") /\ UNCHANGED shown
    BY <1>1 DEF ProbePort
  <2>3. ASSUME Confirm(op, "acp_probe")
        PROVE  shown' \subseteq Questions /\ op' \in CommandType /\ LaneInv'
    <3>1. /\ shown' \subseteq Questions
          /\ GoTo("acp_probe") \/ (op' \in CommandType /\ op'.pc = "done")
      BY <2>1, <2>3, ConfirmIsTyped DEF PCs, GoTo
    <3> QED
      BY <2>1, <3>1, MoveIsTyped, DoneIsTyped DEF ConfigurePCs, EnablePCs, PCs
  <2>4. ASSUME GoTo("login") \/ GoTo("acp_probe") \/ Stop("failed")
        PROVE  op' \in CommandType /\ LaneInv'
    BY <2>1, <2>4, MoveIsTyped, StopIsTyped DEF ConfigurePCs, EnablePCs, PCs
  <2> QED
    BY <1>1, <2>2, <2>3, <2>4 DEF ProbePort, TypedInv, TypeOK, deviceVars
<1>2. CASE Login
  <2>1. op.pc = "login" /\ (GoTo("write") \/ Stop("failed"))
    BY <1>2 DEF Login
  <2>2. op' \in CommandType /\ LaneInv'
    BY <2>1, MoveIsTyped, StopIsTyped DEF ConfigurePCs, PCs
  <2> QED
    BY <1>2, <2>2, QuietIsTyped DEF Login
<1>3. CASE LoginFails
  <2>1. /\ Stop("failed") /\ UNCHANGED <<dev, rekeyed, env, shown, commands>>
        /\ UNCHANGED faults \/ Fault
    BY <1>3 DEF LoginFails, deviceVars
  <2> QED
    BY <2>1, StopIsTyped, FaultIsTyped DEF TypedInv, TypeOK
<1>4. CASE LoginRejected
  <2>1. op.pc = "login" /\ op.kind = "configure" /\ op \in CommandType /\ op.host \in Hosts
    BY <1>4 DEF LoginRejected, TypedInv, TypeOK, LaneInv, ConfigurePCs
  <2>2. ASSUME GoTo("prompt") \/ Stop("auth_failed")
        PROVE  op' \in CommandType /\ LaneInv'
    BY <2>1, <2>2, MoveIsTyped, StopIsTyped DEF ConfigurePCs, PCs
  <2>3. ASSUME op' = [op EXCEPT !.unverified = TRUE, !.pc = "write"]
        PROVE  op' \in CommandType /\ LaneInv'
    <3>1. op' \in CommandType
      BY <2>1, <2>3 DEF CommandType, PCs
    <3>2. LaneInv'
      BY <2>1, <2>3 DEF LaneInv, CommandType, EnablePCs, DisablePCs, ConfigurePCs, CheckPCs
    <3> QED
      BY <3>1, <3>2
  <2> QED
    BY <1>4, <2>2, <2>3, QuietIsTyped DEF LoginRejected, AuthFailed
<1>5. CASE Prompt
  <2>1. /\ op.kind = "configure" /\ op.action = "enable" /\ op \in CommandType
        /\ op.prompts < MaxPrompts
    BY <1>5 DEF Prompt, TypedInv, TypeOK, LaneInv, ConfigurePCs
  <2>2. PICK h \in Hosts, p \in Passwords :
          op' = [op EXCEPT !.host = h, !.password = p, !.pc = "port", !.again = FALSE,
                           !.prompts = @ + 1, !.calm = FALSE]
    BY <1>5 DEF Prompt
  <2>3. op.prompts + 1 \in 0 .. MaxPrompts
    BY <2>1, BoundsAssumption DEF CommandType
  <2>4. op' \in CommandType
    BY <2>1, <2>2, <2>3 DEF CommandType, PCs
  <2>5. LaneInv'
    BY <2>1, <2>2 DEF LaneInv, CommandType, EnablePCs, DisablePCs, ConfigurePCs, CheckPCs
  <2> QED
    BY <1>5, <2>4, <2>5, QuietIsTyped DEF Prompt
<1>6. CASE Write
  <2>1. op' \in CommandType /\ LaneInv'
    BY <1>6, StopIsTyped DEF Write
  <2>2. op \in CommandType
    BY DEF TypedInv, TypeOK
  <2>3. env' \in EnvFiles
    BY <1>6, <2>2 DEF Write, Rendered, EnvFiles, CommandType
  <2> QED
    BY <1>6, <2>1, <2>3 DEF Write, TypedInv, TypeOK, deviceVars
<1> QED
  BY <1>1, <1>2, <1>3, <1>4, <1>5, <1>6 DEF ConfigureSteps

\* The steps of the reachability check.
LEMMA ReachabilityStepsAreTyped ==
    ASSUME TypedInv, ReachabilitySteps
    PROVE  TypedInv'
<1>1. ASSUME op.pc \in CheckPCs, NEW check \in SUBSET {"port", "closed", "auth", "refused", "smb"},
             NEW pc \in CheckPCs, NEW calm \in BOOLEAN,
             op' = [op EXCEPT !.seen = @ \cup check, !.pc = pc, !.calm = calm]
      PROVE  op' \in CommandType /\ LaneInv'
  <2>1. op \in CommandType /\ op.kind = "reachability" /\ op.host \in Hosts
    BY <1>1 DEF TypedInv, TypeOK, LaneInv, CheckPCs
  <2>2. op' \in CommandType
    BY <1>1, <2>1 DEF CommandType, CheckPCs, PCs
  <2>3. LaneInv'
    BY <1>1, <2>1 DEF LaneInv, CommandType, EnablePCs, DisablePCs, ConfigurePCs, CheckPCs
  <2> QED
    BY <2>2, <2>3
<1>2. ASSUME op.pc \in CheckPCs, NEW check \in SUBSET {"port", "closed", "auth", "refused", "smb"},
             NEW pc \in CheckPCs, Sees(check, pc)
      PROVE  op' \in CommandType /\ LaneInv'
  <2>1. op \in CommandType
    BY DEF TypedInv, TypeOK
  <2>2. op' = [op EXCEPT !.seen = @ \cup check, !.pc = pc, !.calm = op.calm] /\ op.calm \in BOOLEAN
    BY <1>2, <2>1 DEF Sees, CommandType
  <2> QED
    BY <1>1, <1>2, <2>2
<1>3. CASE CheckPort
  <2>1. op.pc \in CheckPCs /\ (Sees({"port"}, "check_auth") \/ Sees({"closed"}, "check_auth"))
    BY <1>3 DEF CheckPort, CheckPCs
  <2>2. op' \in CommandType /\ LaneInv'
    BY <1>2, <2>1 DEF CheckPCs
  <2> QED
    BY <1>3, <2>2, QuietIsTyped DEF CheckPort
<1>4. CASE CheckAuth
  <2>1. op.pc \in CheckPCs /\ UNCHANGED <<dev, rekeyed, env, shown, commands>>
    BY <1>4 DEF CheckAuth, CheckPCs, deviceVars
  <2>2. \/ Sees({}, "check_smb") /\ UNCHANGED faults
        \/ Sees({"auth"}, "check_smb") /\ UNCHANGED faults
        \/ Sees({"refused"}, "check_smb") /\ UNCHANGED faults
        \/ \E check \in Unanswered :
              op' = [op EXCEPT !.seen = @ \cup check, !.pc = "check_smb", !.calm = FALSE] /\ Fault
    BY <1>4 DEF CheckAuth, deviceVars, Unanswered
  <2>3. ASSUME NEW check \in Unanswered,
               op' = [op EXCEPT !.seen = @ \cup check, !.pc = "check_smb", !.calm = FALSE]
        PROVE  op' \in CommandType /\ LaneInv'
    BY <1>1, <2>1, <2>3 DEF CheckPCs, Unanswered
  <2>4. op' \in CommandType /\ LaneInv'
    BY <1>2, <2>1, <2>2, <2>3 DEF CheckPCs
  <2>5. faults' \in 0 .. MaxFaults
    BY <2>2, FaultIsTyped DEF TypedInv, TypeOK
  <2> QED
    BY <2>1, <2>4, <2>5 DEF TypedInv, TypeOK
<1>5. CASE CheckSmb
  <2>1. PICK seen : Stop(Verdict(seen))
    BY <1>5 DEF CheckSmb
  <2>2. Verdict(seen) \in {"partial", "reachable", "unreachable"}
    BY DEF Verdict
  <2>3. op' \in CommandType /\ LaneInv'
    BY <2>1, <2>2, StopIsTyped DEF Results
  <2> QED
    BY <1>5, <2>3, QuietIsTyped DEF CheckSmb
<1> QED
  BY <1>3, <1>4, <1>5 DEF ReachabilitySteps

\* The devices, and what befalls them.
LEMMA SurroundingsAreTyped ==
    ASSUME TypedInv, Surroundings
    PROVE  TypedInv'
<1>1. \A h \in Hosts : dev[h] \in Device
  BY DEF TypedInv, TypeOK
<1>2. ASSUME DeviceRuns, UNCHANGED <<env, op, shown, commands>>
      PROVE  TypedInv'
  <2>1. PICK h \in Hosts : BeginStop(h) \/ \E p \in Ports : ClosePort(h, p) \/ OpenPort(h, p)
    BY <1>2 DEF DeviceRuns
  <2>2. ASSUME BeginStop(h)
        PROVE  dev' \in [Hosts -> Device]
    BY <1>1, <2>2 DEF BeginStop, TypedInv, TypeOK, Device
  <2>3. ASSUME NEW p \in Ports, ClosePort(h, p)
        PROVE  dev' \in [Hosts -> Device]
    <3> DEFINE phase == IF dev[h].open = {p} THEN "booting" ELSE dev[h].phase
               closed == [dev[h] EXCEPT !.open = @ \ {p}, !.phase = phase]
    <3>1. dev \in [Hosts -> Device] /\ dev[h] \in Device /\ phase \in {"up", "stopping", "booting"}
      BY <1>1 DEF TypedInv, TypeOK, Device
    <3>2. dev' = [dev EXCEPT ![h] = closed]
      BY <2>3, <3>1 DEF ClosePort
    <3> HIDE DEF phase
    <3>3. closed \in Device
      BY <3>1 DEF Device
    <3> HIDE DEF closed
    <3> QED
      BY <3>1, <3>2, <3>3
  <2>4. ASSUME NEW p \in Ports, OpenPort(h, p)
        PROVE  dev' \in [Hosts -> Device]
    <3> DEFINE phase == IF Served(dev[h]) \subseteq dev[h].open \cup {p} THEN "up" ELSE dev[h].phase
               opened == [dev[h] EXCEPT !.open = @ \cup {p}, !.phase = phase]
    <3>1. dev \in [Hosts -> Device] /\ dev[h] \in Device /\ phase \in {"up", "stopping", "booting"}
      BY <1>1 DEF TypedInv, TypeOK, Device
    <3>2. dev' = [dev EXCEPT ![h] = opened]
      BY <2>4, <3>1 DEF OpenPort
    <3> HIDE DEF phase
    <3>3. opened \in Device
      BY <3>1 DEF Device
    <3> HIDE DEF opened
    <3> QED
      BY <3>1, <3>2, <3>3
  <2>5. LaneInv'
    BY <1>2 DEF TypedInv, LaneInv
  <2> QED
    BY <1>2, <2>1, <2>2, <2>3, <2>4, <2>5 DEF DeviceRuns, TypedInv, TypeOK
<1>3. ASSUME NEW h \in Hosts, PowerCut(h) \/ ChangePassword(h),
             op' = [op EXCEPT !.calm = FALSE], UNCHANGED <<env, shown, commands>>
      PROVE  TypedInv'
  <2>1. dev' \in [Hosts -> Device] /\ rekeyed' \subseteq Hosts /\ Fault
    BY <1>1, <1>3 DEF PowerCut, ChangePassword, TypedInv, TypeOK, Device
  <2>2. op \in CommandType
    BY DEF TypedInv, TypeOK
  <2>3. op' \in CommandType
    BY <1>3, <2>2 DEF CommandType
  <2>4. LaneInv'
    BY <1>3, <2>2 DEF TypedInv, LaneInv, CommandType
  <2> QED
    BY <1>3, <2>1, <2>3, <2>4, FaultIsTyped DEF TypedInv, TypeOK
<1> QED
  BY <1>2, <1>3 DEF Surroundings

\* What the devices, the file and the command are, and which command may be
\* at which step, whatever is begun, killed, cut off or rebooted when.
LEMMA Typed == Spec => []TypedInv
<1>1. Init => TypedInv
  <2> SUFFICES ASSUME Init
               PROVE  TypedInv
    OBVIOUS
  <2>1. dev \in [Hosts -> Device]
    BY FleetAssumption DEF Init
  <2>2. env \in EnvFiles
    <3>1. NoEnv \in EnvFiles
      BY DEF NoEnv, EnvFiles
    <3>2. ASSUME NEW h \in Hosts
          PROVE  Rendered(h, dev[h].secret, TRUE, {}, FALSE) \in EnvFiles
      <4>1. dev[h].secret \in Passwords
        BY <2>1 DEF Device
      <4> QED
        BY <4>1 DEF Rendered, EnvFiles
    <3> QED
      BY <3>1, <3>2 DEF Init, EnvInit
  <2>3. op \in CommandType /\ op.pc = "done"
    BY NoCommandIsTyped DEF Init
  <2> QED
    BY <2>1, <2>2, <2>3, FaultsAssumption, BoundsAssumption
    DEF Init, TypedInv, TypeOK, LaneInv, EnablePCs, DisablePCs, ConfigurePCs, CheckPCs
<1>2. TypedInv /\ [Next]_vars => TypedInv'
  <2> SUFFICES ASSUME TypedInv, [Next]_vars
               PROVE  TypedInv'
    OBVIOUS
  <2>1. CASE Crash
    BY <2>1, StopIsTyped, QuietIsTyped DEF Crash, Results
  <2>2. CASE UNCHANGED vars
    BY <2>2 DEF vars, deviceVars, TypedInv, TypeOK, LaneInv
  <2> QED
    BY <2>1, <2>2, BeginIsTyped, EnableIsTyped, SetSshStepsAreTyped, ConfigureStepsAreTyped,
       ReachabilityStepsAreTyped, SurroundingsAreTyped DEF Next, Host
<1> QED
  BY <1>1, <1>2, PTL DEF Spec

\* TypeOK holds in every reachable state.
THEOREM TypeCorrect == Spec => []TypeOK
<1>1. TypedInv => TypeOK
  BY DEF TypedInv
<1> QED
  BY <1>1, Typed, PTL

-----------------------------------------------------------------------------
(* What a step does to the command in progress.                            *)

Working == EnablePCs \cup DisablePCs

Ends == op'.pc = "done" /\ op'.kind = "none" /\ op'.given = {}
Keeps ==
    /\ op'.kind = op.kind /\ op'.ui = op.ui /\ op'.host = op.host /\ op'.password = op.password
    /\ op'.enable = op.enable /\ op'.given = op.given /\ op'.change = op.change
    /\ op'.settings = op.settings /\ op'.persist = op.persist
Moves ==
    /\ Keeps /\ op'.action = op.action /\ op'.yes = op.yes /\ op'.unverified = op.unverified
    /\ op'.pc \in Working => op.pc \in Working
    /\ op'.pc = "write" => op.pc = "write"
    /\ op'.pc = "ssh_probe" => op.pc = "ssh_probe"
    /\ op.pc = "done" => op'.pc = "done"

\* A command that stops is over.
LEMMA StopEnds ==
    ASSUME TypedInv, NEW result \in Results, Stop(result)
    PROVE  Ends
<1>1. NoCommand.given = {} /\ NoCommand.kind = "none" /\ NoCommand.pc = "done"
  BY DEF NoCommand, Command
<1>2. NoCommand \in CommandType
  BY NoCommandIsTyped
<1> HIDE DEF NoCommand
<1> QED
  BY <1>1, <1>2 DEF Stop, Ended, Ends, CommandType

\* A command that goes to its next step keeps all else.
LEMMA GoToMoves ==
    ASSUME TypedInv, NEW pc \in PCs, GoTo(pc), op.pc # "done", pc \notin {"write", "ssh_probe"},
           pc \in Working => op.pc \in Working
    PROVE  Moves
<1>1. op \in CommandType
  BY DEF TypedInv, TypeOK
<1> QED
  BY <1>1 DEF GoTo, Moves, Keeps, CommandType

\* One ACP request, or one command over SSH, ends the command or moves it on.
LEMMA CallMoves ==
    ASSUME TypedInv, op.pc \in Working, NEW done, NEW pc \in Working,
           AcpCall(done, pc) \/ SshCall(done, pc)
    PROVE  (Ends \/ Moves) /\ UNCHANGED <<env, shown>>
<1>1. pc \in PCs /\ pc \notin {"write", "ssh_probe"} /\ "prompt" \in PCs /\ op.pc # "done" /\ "prompt" \notin Working
  BY DEF Working, EnablePCs, DisablePCs, PCs
<1>2. \/ Stop("failed") \/ Stop("auth_failed") \/ GoTo(pc) \/ GoTo("prompt")
  BY DEF AcpCall, SshCall, AuthFailed
<1>3. UNCHANGED <<env, shown>>
  BY DEF AcpCall, SshCall
<1> QED
  BY <1>1, <1>2, <1>3, StopEnds, GoToMoves DEF Results

\* Every step ends the command, moves it on, or is one of these.
LEMMA Shape ==
    ASSUME TypedInv, [Next]_vars
    PROVE  \/ Begin \/ Act \/ PromptDisable \/ ProbePort \/ Login \/ LoginRejected
           \/ Prompt \/ Write
           \/ (Ends \/ Moves) /\ UNCHANGED <<env, shown>>
<1> USE DEF Results
<1> DEFINE Goal == (Ends \/ Moves) /\ UNCHANGED <<env, shown>>
<1>1. op \in CommandType
  BY DEF TypedInv, TypeOK
<1>2. ASSUME EnableSteps
      PROVE  Goal
  <2>1. ASSUME AcpProbe PROVE Goal
    <3>1. op.pc = "acp_probe" /\ (GoTo("set_dbug") \/ Stop("failed")) /\ UNCHANGED <<env, shown>>
      BY <2>1 DEF AcpProbe
    <3> QED
      BY <3>1, StopEnds, GoToMoves DEF Working, EnablePCs, PCs
  <2>2. ASSUME SetDbug PROVE Goal
    BY <2>2, CallMoves DEF SetDbug, Working, EnablePCs
  <2>3. ASSUME AcpReboot PROVE Goal
    BY <2>3, CallMoves DEF AcpReboot, Working, EnablePCs
  <2>4. ASSUME WaitOpen PROVE Goal
    <3>1. /\ op.pc = "wait_open" /\ UNCHANGED <<env, shown>>
          /\ \/ Stop("requested") \/ Stop("enabled") \/ Stop("failed")
             \/ op' = [op EXCEPT !.pc = "port", !.again = TRUE]
      BY <2>4 DEF WaitOpen
    <3>2. ASSUME op' = [op EXCEPT !.pc = "port", !.again = TRUE]
          PROVE  Moves
      BY <1>1, <3>1, <3>2 DEF Moves, Keeps, CommandType, Working, EnablePCs, DisablePCs
    <3> QED
      BY <3>1, <3>2, StopEnds
  <2> QED
    BY <1>2, <2>1, <2>2, <2>3, <2>4 DEF EnableSteps
<1>3. ASSUME SetSshSteps
      PROVE  Act \/ PromptDisable \/ Goal
  <2>1. ASSUME Report \/ NothingToDo \/ VerifyDisabled PROVE Goal
    <3>1. /\ UNCHANGED <<env, shown>>
          /\ \/ Stop("ssh_open") \/ Stop("ssh_closed") \/ Stop("enable_noop")
             \/ Stop("disable_noop") \/ Stop("failed") \/ Stop("disabled")
      BY <2>1 DEF Report, NothingToDo, VerifyDisabled
    <3> QED
      BY <3>1, StopEnds
  <2>2. ASSUME RemoveDbug PROVE Goal
    BY <2>2, CallMoves DEF RemoveDbug, Working, DisablePCs
  <2>3. ASSUME AskReboot PROVE Goal
    BY <2>3, CallMoves DEF AskReboot, Working, DisablePCs
  <2>4. ASSUME AskRebootTimesOut PROVE Goal
    BY <1>1, <2>4
    DEF AskRebootTimesOut, Moves, Keeps, CommandType, Working, EnablePCs, DisablePCs
  <2>5. ASSUME WaitClosed \/ WaitUp PROVE Goal
    <3>1. /\ op.pc \in {"wait_closed", "wait_up"} /\ UNCHANGED <<env, shown>>
          /\ Stop("requested") \/ Stop("failed") \/ GoTo("wait_up") \/ GoTo("verify")
      BY <2>5 DEF WaitClosed, WaitUp
    <3> QED
      BY <3>1, StopEnds, GoToMoves DEF Working, DisablePCs, PCs
  <2> QED
    BY <1>3, <2>1, <2>2, <2>3, <2>4, <2>5 DEF SetSshSteps
<1>4. ASSUME ReachabilitySteps
      PROVE  Goal
  <2>1. ASSUME CheckPort \/ CheckAuth PROVE Goal
    <3>1. op.pc # "done" /\ UNCHANGED <<env, shown>>
      BY <2>1 DEF CheckPort, CheckAuth
    <3>2. ASSUME NEW check, NEW pc \in {"check_auth", "check_smb"}, NEW calm,
                 op' = [op EXCEPT !.seen = @ \cup check, !.pc = pc, !.calm = calm]
          PROVE  Goal
      BY <1>1, <3>1, <3>2 DEF Moves, Keeps, CommandType, Working, EnablePCs, DisablePCs
    <3>3. ASSUME NEW check, NEW pc \in {"check_auth", "check_smb"}, Sees(check, pc)
          PROVE  Goal
      BY <1>1, <3>1, <3>3 DEF Sees, Moves, Keeps, CommandType, Working, EnablePCs, DisablePCs
    <3>4. CASE CheckPort
      BY <3>3, <3>4 DEF CheckPort
    <3>5. CASE CheckAuth
      <4>1. \/ \E check : Sees(check, "check_smb")
            \/ \E check : op' = [op EXCEPT !.seen = @ \cup check, !.pc = "check_smb", !.calm = FALSE]
        BY <3>5 DEF CheckAuth
      <4> HIDE DEF Goal
      <4> QED
        BY <3>2, <3>3, <4>1
    <3> QED
      BY <2>1, <3>4, <3>5
  <2>2. ASSUME CheckSmb PROVE Goal
    <3>1. PICK seen : Stop(Verdict(seen))
      BY <2>2 DEF CheckSmb
    <3>2. Verdict(seen) \in Results
      BY DEF Verdict
    <3> QED
      BY <2>2, <3>1, <3>2, StopEnds DEF CheckSmb
  <2> QED
    BY <1>4, <2>1, <2>2 DEF ReachabilitySteps
<1>5. ASSUME LoginFails \/ Crash PROVE Goal
  <2>1. (Stop("failed") \/ Stop("killed")) /\ UNCHANGED <<env, shown>>
    BY <1>5 DEF LoginFails, Crash
  <2> QED
    BY <2>1, StopEnds
<1>6. ASSUME Surroundings \/ UNCHANGED vars PROVE Goal
  <2>1. UNCHANGED <<env, shown>> /\ (op' = op \/ op' = [op EXCEPT !.calm = FALSE])
    BY <1>6 DEF Surroundings, vars
  <2> QED
    BY <1>1, <2>1 DEF Moves, Keeps, CommandType
<1> QED
  BY <1>2, <1>3, <1>4, <1>5, <1>6 DEF Next, Host, ConfigureSteps

-----------------------------------------------------------------------------
(* Consent.                                                                *)

AgreedInv ==
    /\ op.given \subseteq shown
    /\ op.pc = "ssh_probe" => op.ui # "scripted" /\ (op.action = "legacy" => op.ui = "cli")
    /\ op.pc \in Working => Agreed

\* Which commands begin, and that they carry along answers only.
LEMMA BeginFacts ==
    ASSUME TypedInv, Begin
    PROVE  /\ UNCHANGED <<deviceVars, env, shown>> /\ op.pc = "done"
           /\ op'.pc \in {"ssh_probe", "port", "write", "check_port", "check_auth"}
           /\ op'.given \subseteq shown
           /\ op'.pc = "ssh_probe" => op'.ui # "scripted" /\ (op'.action = "legacy" => op'.ui = "cli")
<1>1. \A command : Launch(command) =>
         op' = command /\ UNCHANGED <<deviceVars, env, shown>> /\ op.pc = "done"
  BY DEF Launch, Begin, MayBegin, Idle
<1>2. \A given \in Answers : given \subseteq shown
  BY AnswersAreShown DEF TypedInv, TypeOK
<1> DEFINE Facts ==
             /\ UNCHANGED <<deviceVars, env, shown>> /\ op.pc = "done"
             /\ op'.pc \in {"ssh_probe", "port", "write", "check_port", "check_auth"}
             /\ op'.given \subseteq shown
             /\ op'.pc = "ssh_probe" => op'.ui # "scripted" /\ (op'.action = "legacy" => op'.ui = "cli")
<1>3. ASSUME NEW kind, NEW ui, NEW host, NEW password
      PROVE  /\ Command(kind, ui, host, password).given = {}
             /\ Command(kind, ui, host, password).ui = ui
             /\ LET all == DOMAIN Command(kind, ui, host, password) IN
                   {"pc", "ui", "action", "given"} \subseteq all
  BY DEF Command
<1>4. ASSUME NEW ui \in {"cli", "app"}, NEW action \in {"status", "enable", "disable", "legacy"},
             NEW noWait \in BOOLEAN, NEW p \in Passwords \cup {NoPassword},
             BeginSetSsh(ui, action, noWait, p)
      PROVE  Facts
  <2> DEFINE base == Command("set-ssh", ui, env.host, IF ui = "app" THEN Overlaid(p) ELSE env.password)
             begun(yes, given) ==
               [base EXCEPT !.action = action, !.noWait = noWait, !.yes = yes, !.given = given,
                            !.pc = "ssh_probe"]
  <2>1. PICK yes \in BOOLEAN, given \in Answers \cup {{}} : Launch(begun(yes, given))
    BY <1>4 DEF BeginSetSsh
  <2>2. action = "legacy" => ui = "cli"
    BY <1>4 DEF BeginSetSsh
  <2>3. given \subseteq shown
    BY <1>2
  <2>4. base.ui = ui /\ {"pc", "ui", "action", "given"} \subseteq DOMAIN base
    BY <1>3
  <2>5. op' = begun(yes, given) /\ UNCHANGED <<deviceVars, env, shown>> /\ op.pc = "done"
    BY <1>1, <2>1
  <2> HIDE DEF base
  <2>6. op'.pc = "ssh_probe" /\ op'.ui = ui /\ op'.action = action /\ op'.given = given
    BY ONLY <2>4, <2>5
  <2> QED
    BY ONLY <1>4, <2>2, <2>3, <2>5, <2>6
<1>5. ASSUME NEW ui \in {"cli", "scripted", "app"}, NEW host \in Targets, NEW p \in Passwords,
             NEW change \in Changes, NEW enable \in BOOLEAN, NEW persist \in BOOLEAN,
             BeginConfigure(ui, host, p, change, enable, persist)
      PROVE  Facts
  <2> DEFINE base == Command("configure", ui, host, p)
             merged == Merged(env.settings, change)
             begun(yes, given) ==
               [base EXCEPT !.action = "enable", !.enable = enable, !.yes = yes, !.given = given,
                            !.change = change, !.settings = merged, !.persist = persist,
                            !.pc = "port"]
  <2>1. PICK yes \in BOOLEAN, given \in Answers \cup {{}} : Launch(begun(yes, given))
    BY <1>5 DEF BeginConfigure
  <2>2. given \subseteq shown
    BY <1>2
  <2>3. {"pc", "ui", "action", "given"} \subseteq DOMAIN base
    BY <1>3
  <2>4. op' = begun(yes, given) /\ UNCHANGED <<deviceVars, env, shown>> /\ op.pc = "done"
    BY <1>1, <2>1
  <2> HIDE DEF base, merged
  <2>5. op'.pc = "port" /\ op'.given = given
    BY ONLY <2>3, <2>4
  <2> QED
    BY ONLY <2>2, <2>4, <2>5
<1>6. ASSUME NEW change \in Changes, BeginUpdate(change)
      PROVE  Facts
  <2> DEFINE base == Command("update", "app", env.host, env.password)
             merged == Merged(env.settings, change)
  <2>1. base.given = {} /\ {"pc", "ui", "action", "given"} \subseteq DOMAIN base
    BY <1>3
  <2>2. /\ op' = [base EXCEPT !.change = change, !.settings = merged,
                              !.unverified = env.unverified, !.pc = "write"]
        /\ UNCHANGED <<deviceVars, env, shown>> /\ op.pc = "done"
    BY <1>1, <1>6 DEF BeginUpdate
  <2> HIDE DEF base, merged
  <2>3. op'.pc = "write" /\ op'.given = {}
    BY ONLY <2>1, <2>2
  <2> QED
    BY ONLY <2>2, <2>3
<1>7. ASSUME NEW host, NEW proxied \in BOOLEAN, NEW p, BeginReachability(host, proxied, p)
      PROVE  Facts
  <2> DEFINE base == Command("reachability", "app", host, Overlaid(p))
             first == IF proxied THEN "check_auth" ELSE "check_port"
  <2>1. base.given = {} /\ {"pc", "ui", "action", "given"} \subseteq DOMAIN base
    BY <1>3
  <2>2. /\ op' = [base EXCEPT !.pc = first]
        /\ UNCHANGED <<deviceVars, env, shown>> /\ op.pc = "done"
    BY <1>1, <1>7 DEF BeginReachability
  <2> HIDE DEF base
  <2>3. op'.pc \in {"check_auth", "check_port"} /\ op'.given = {}
    BY ONLY <2>1, <2>2
  <2> QED
    BY ONLY <2>2, <2>3
<1> QED
  BY <1>4, <1>5, <1>6, <1>7 DEF Begin

\* Consent lasts while a command goes on.
LEMMA AgreedLasts ==
    ASSUME TypedInv, AgreedInv, Moves, shown \subseteq shown'
    PROVE  AgreedInv'
<1>1. op'.pc \in Working => Agreed
  BY DEF Moves, AgreedInv
<1>2. Question(op') = Question(op)
  BY DEF Moves, Keeps, Question
<1>3. /\ op'.ui = op.ui /\ op'.kind = op.kind /\ op'.enable = op.enable /\ op'.yes = op.yes
      /\ op'.given = op.given
  BY DEF Moves, Keeps
<1>4. op.ui \in {"cli", "scripted", "app"}
  BY DEF TypedInv, TypeOK, CommandType
<1>5. Agreed => Agreed'
  BY ONLY <1>2, <1>3, <1>4, shown \subseteq shown' DEF Agreed
<1> QED
  BY <1>1, <1>5 DEF AgreedInv, Moves, Keeps

\* Confirming goes on only where the user has seen this very question.
LEMMA ConfirmAsks ==
    ASSUME NEW o, NEW pc, Confirm(o, pc), Question(o) \in Questions, o.given \subseteq shown
    PROVE  /\ shown \subseteq shown'
           /\ \/ op' = Ended(o, "confirm")
              \/ op' = [o EXCEPT !.pc = pc] /\ Question(o) \in shown'
<1>1. Confirmation(Question(o)) = Question(o)
  BY DEF Confirmation, Questions
<1> QED
  BY <1>1 DEF Confirm

\* Whatever persists the flag or reboots has been agreed to.
LEMMA Consent == Spec => []AgreedInv
<1>1. Init => AgreedInv
  BY DEF Init, NoCommand, Command, AgreedInv, Working, EnablePCs, DisablePCs
<1>2. TypedInv /\ TypedInv' /\ AgreedInv /\ [Next]_vars => AgreedInv'
  <2> SUFFICES ASSUME TypedInv, TypedInv', AgreedInv, [Next]_vars
               PROVE  AgreedInv'
    OBVIOUS
  <2>1. op \in CommandType /\ op' \in CommandType
    BY DEF TypedInv, TypeOK
  <2>2. CASE Begin
    BY <2>2, BeginFacts DEF AgreedInv, Working, EnablePCs, DisablePCs
  <2>3. CASE Act
    <3> DEFINE what == SelectAction(op.action, Open(op.host, "ssh"))
               o == [op EXCEPT !.action = what]
    <3>1. /\ what \in {"enable", "disable"} /\ op.host \in Hosts /\ op.kind = "set-ssh"
          /\ IF op.ui = "app" THEN Confirm(o, FirstStep(what))
             ELSE op' = [o EXCEPT !.pc = FirstStep(what)] /\ UNCHANGED shown
      BY <2>3 DEF Act, TypedInv, LaneInv
    <3> HIDE DEF what
    <3>2. /\ o.given = op.given /\ o.kind = "set-ssh" /\ o.host = op.host /\ o.action = what
          /\ o.ui = op.ui
          /\ o \in CommandType
      BY <2>1, <3>1 DEF CommandType
    <3> HIDE DEF o
    <3>3. Question(o) \in Questions
      BY <3>1, <3>2 DEF Question, Questions
    <3>4. CASE op.ui = "app"
      <4>1. /\ shown \subseteq shown'
            /\ \/ op' = Ended(o, "confirm")
               \/ op' = [o EXCEPT !.pc = FirstStep(what)] /\ Question(o) \in shown'
        BY <3>1, <3>2, <3>3, <3>4, ConfirmAsks DEF AgreedInv
      <4>2. CASE op' = Ended(o, "confirm")
        <5>1. op'.pc = "done" /\ op'.given = {}
          BY <3>2, <4>2, NoCommandIsTyped DEF Ended, NoCommand, Command, CommandType
        <5> QED
          BY <5>1 DEF AgreedInv, Working, EnablePCs, DisablePCs
      <4>3. CASE op' = [o EXCEPT !.pc = FirstStep(what)] /\ Question(o) \in shown'
        <5>1. /\ Question(op') = Question(o) /\ op'.ui = "app" /\ op'.given = op.given
              /\ op'.pc # "ssh_probe"
          BY <3>1, <3>2, <3>4, <4>3 DEF Question, CommandType, FirstStep
        <5> QED
          BY <4>1, <4>3, <5>1 DEF AgreedInv, Agreed
      <4> QED
        BY <4>1, <4>2, <4>3
    <3>5. CASE op.ui # "app"
      <4>1. op' = [o EXCEPT !.pc = FirstStep(what)] /\ UNCHANGED shown
        BY <3>1, <3>5
      <4>2. op'.given = op.given /\ op'.ui = op.ui /\ op'.kind = "set-ssh"
        BY <3>2, <4>1 DEF CommandType
      <4>3. op.ui = "cli" /\ op'.pc # "ssh_probe"
        BY <2>1, <2>3, <3>1, <3>2, <3>5, <4>1 DEF Act, AgreedInv, CommandType, FirstStep
      <4> QED
        BY <4>1, <4>2, <4>3 DEF AgreedInv, Agreed
    <3> QED
      BY <3>4, <3>5
  <2>4. CASE PromptDisable
    <3>1. op.pc = "ssh_probe" /\ op.kind = "set-ssh" /\ op.action = "legacy"
      BY <2>1, <2>4 DEF PromptDisable, TypedInv, LaneInv, SelectAction, CommandType
    <3>2. op.ui = "cli" /\ UNCHANGED shown
      BY <2>4, <3>1 DEF AgreedInv, PromptDisable
    <3>3. CASE op' = [op EXCEPT !.action = "disable", !.yes = TRUE, !.pc = "remove_dbug"]
      <4>1. op'.ui = "cli" /\ op'.kind = "set-ssh" /\ op'.given = op.given /\ op'.pc # "ssh_probe"
        BY <2>1, <3>1, <3>2, <3>3 DEF CommandType
      <4> QED
        BY <3>2, <4>1 DEF AgreedInv, Agreed
    <3>4. CASE Stop("left")
      BY <3>4, StopEnds DEF Ends, AgreedInv, Working, EnablePCs, DisablePCs, Results
    <3> QED
      BY <2>4, <3>3, <3>4 DEF PromptDisable
  <2>5. CASE ProbePort
    <3>1. /\ op.host \in Hosts /\ op.kind = "configure" /\ op.action = "enable" /\ op.pc = "port"
      BY <2>5 DEF ProbePort, TypedInv, LaneInv, ConfigurePCs
    <3>2. Question(op) \in Questions
      BY <3>1 DEF Question, Questions
    <3>3. \/ (GoTo("login") \/ Stop("failed")) /\ UNCHANGED shown
          \/ op.ui = "app" /\ Confirm(op, "acp_probe")
          \/ op.ui # "app" /\ MayEnable /\ GoTo("acp_probe") /\ UNCHANGED shown
      BY <2>5 DEF ProbePort
    <3>4. CASE (GoTo("login") \/ Stop("failed")) /\ UNCHANGED shown
      <4>1. CASE Stop("failed")
        BY <4>1, StopEnds DEF Ends, AgreedInv, Working, EnablePCs, DisablePCs, Results
      <4>2. CASE GoTo("login")
        BY <2>1, <3>4, <4>2 DEF GoTo, AgreedInv, Working, EnablePCs, DisablePCs, CommandType
      <4> QED
        BY <3>4, <4>1, <4>2
    <3>5. CASE op.ui = "app" /\ Confirm(op, "acp_probe")
      <4>1. /\ shown \subseteq shown'
            /\ \/ op' = Ended(op, "confirm")
               \/ op' = [op EXCEPT !.pc = "acp_probe"] /\ Question(op) \in shown'
        BY <3>2, <3>5, ConfirmAsks DEF AgreedInv
      <4>2. CASE op' = Ended(op, "confirm")
        <5>1. Stop("confirm")
          BY <4>2 DEF Stop
        <5> QED
          BY <5>1, StopEnds DEF Ends, AgreedInv, Working, EnablePCs, DisablePCs, Results
      <4>3. CASE op' = [op EXCEPT !.pc = "acp_probe"] /\ Question(op) \in shown'
        <5>1. /\ Question(op') = Question(op) /\ op'.ui = "app" /\ op'.given = op.given
              /\ op'.pc = "acp_probe"
          BY <2>1, <3>5, <4>3 DEF Question, CommandType
        <5> QED
          BY <4>1, <4>3, <5>1 DEF AgreedInv, Agreed
      <4> QED
        BY <4>1, <4>2, <4>3
    <3>6. CASE op.ui # "app" /\ MayEnable /\ GoTo("acp_probe") /\ UNCHANGED shown
      <4>1. op.ui \in {"scripted", "cli"}
        BY <2>1, <3>6 DEF CommandType
      <4>2. /\ op'.ui = op.ui /\ op'.enable = op.enable /\ op'.yes = op.yes /\ op'.given = op.given
            /\ op'.pc = "acp_probe"
        BY <2>1, <3>6 DEF GoTo, CommandType
      <4> QED
        BY <3>6, <4>1, <4>2 DEF AgreedInv, Agreed, MayEnable
    <3> QED
      BY <3>3, <3>4, <3>5, <3>6
  <2>6. CASE Login \/ LoginRejected \/ Prompt \/ Write
    <3>1. UNCHANGED shown
      BY <2>6 DEF Login, LoginRejected, Prompt, Write
    <3>2. ASSUME Stop("failed") \/ Stop("auth_failed") \/ Stop("written")
          PROVE  AgreedInv'
      BY <3>2, StopEnds DEF Ends, AgreedInv, Working, EnablePCs, DisablePCs, Results
    <3>3. ASSUME op'.given = op.given, op'.pc \in {"write", "prompt", "port"}
          PROVE  AgreedInv'
      BY <3>1, <3>3 DEF AgreedInv, Working, EnablePCs, DisablePCs
    <3>4. \/ Stop("failed") \/ Stop("auth_failed") \/ Stop("written")
          \/ op'.given = op.given /\ op'.pc \in {"write", "prompt", "port"}
      BY <2>1, <2>6 DEF Login, LoginRejected, Prompt, Write, AuthFailed, GoTo, CommandType
    <3> QED
      BY <3>2, <3>3, <3>4
  <2>7. CASE Ends /\ UNCHANGED <<env, shown>>
    BY <2>7 DEF Ends, AgreedInv, Working, EnablePCs, DisablePCs
  <2>8. CASE Moves /\ UNCHANGED <<env, shown>>
    BY <2>8, AgreedLasts
  <2> QED
    BY <2>2, <2>3, <2>4, <2>5, <2>6, <2>7, <2>8, Shape
<1> QED
  BY <1>1, <1>2, Typed, PTL DEF Spec

\* No command persists the SSH flag or reboots a device that its user has not
\* agreed to.
THEOREM NoRebootWithoutConsent == Spec => RebootsAreAgreed
<1>1. TypedInv /\ AgreedInv /\ [Next]_vars =>
        [\A h \in Hosts : dev'[h].flag # dev[h].flag \/ (dev'[h].owes /\ ~dev[h].owes)
            => h = op.host /\ Agreed]_vars
  <2> SUFFICES ASSUME TypedInv, AgreedInv, [Next]_vars, NEW h \in Hosts,
                      dev'[h].flag # dev[h].flag \/ (dev'[h].owes /\ ~dev[h].owes)
               PROVE  h = op.host /\ Agreed
    OBVIOUS
  <2>1. dev \in [Hosts -> Device] /\ \A g \in Hosts : dev[g] \in Device
    BY DEF TypedInv, TypeOK
  <2>2. dev' # dev
    OBVIOUS
  <2>3. ASSUME NEW g \in Hosts, BeginStop(g) PROVE FALSE
    BY <2>1, <2>3 DEF BeginStop, Device
  <2>4. ASSUME NEW g \in Hosts, NEW p \in Ports, ClosePort(g, p) \/ OpenPort(g, p) PROVE FALSE
    BY <2>1, <2>4 DEF ClosePort, OpenPort, Device
  <2>5. ASSUME NEW g \in Hosts, PowerCut(g) \/ ChangePassword(g) PROVE FALSE
    BY <2>1, <2>5 DEF PowerCut, ChangePassword, Device
  <2>6. ~Surroundings
    BY <2>3, <2>4, <2>5 DEF Surroundings, DeviceRuns
  <2>7. ASSUME NEW done, NEW pc, AcpCall(done, pc) \/ SshCall(done, pc)
        PROVE  h = op.host
    BY <2>1, <2>2, <2>7 DEF AcpCall, SshCall, deviceVars
  <2>8. ASSUME SetDbug \/ AcpReboot \/ RemoveDbug \/ AskReboot
        PROVE  h = op.host /\ op.pc \in Working
    BY <2>7, <2>8 DEF SetDbug, AcpReboot, RemoveDbug, AskReboot, Working, EnablePCs, DisablePCs
  <2>9. ASSUME AskRebootTimesOut
        PROVE  h = op.host /\ op.pc \in Working
    BY <2>1, <2>2, <2>9 DEF AskRebootTimesOut, Working, DisablePCs
  <2>10. ASSUME \/ Begin \/ AcpProbe \/ WaitOpen \/ Report \/ NothingToDo \/ Act \/ PromptDisable
                \/ WaitClosed \/ WaitUp \/ VerifyDisabled \/ ConfigureSteps \/ ReachabilitySteps
                \/ Crash \/ UNCHANGED vars
         PROVE  FALSE
    <3>1. Begin => UNCHANGED dev
      BY BeginFacts DEF deviceVars
    <3> QED
      BY <2>2, <2>10, <3>1
      DEF AcpProbe, WaitOpen, Report, NothingToDo, Act, PromptDisable, WaitClosed, WaitUp,
          VerifyDisabled, ConfigureSteps, ProbePort, Login, LoginFails, LoginRejected, Prompt, Write,
          ReachabilitySteps, CheckPort, CheckAuth, CheckSmb, Crash, vars, deviceVars
  <2> QED
    BY <2>6, <2>8, <2>9, <2>10 DEF Next, Host, EnableSteps, SetSshSteps, AgreedInv
<1> QED
  BY <1>1, Typed, Consent, PTL DEF Spec, RebootsAreAgreed

-----------------------------------------------------------------------------
(* The settings.                                                           *)

SettingsInv ==
    op.pc # "done" =>
        /\ op.kind \in {"configure", "update"} =>
              op.settings = Merged(env.settings, op.change) /\ Legal(op.settings)
        /\ op.kind = "update" =>
              /\ env.exists /\ op.host = env.host /\ op.password = env.password /\ op.persist
              /\ op.unverified = env.unverified

\* A command begins with the settings of the file and what is to be changed
\* of them; an update with its target as well.
LEMMA BeginSettings ==
    ASSUME TypedInv, Begin
    PROVE  SettingsInv' /\ (op'.pc = "write" => op'.kind = "update")
<1>1. \A command : Launch(command) => op' = command /\ UNCHANGED <<deviceVars, env, shown>>
  BY DEF Launch
<1>2. ASSUME NEW kind, NEW ui, NEW host, NEW password
      PROVE  /\ Command(kind, ui, host, password).kind = kind
             /\ Command(kind, ui, host, password).host = host
             /\ Command(kind, ui, host, password).password = password
             /\ LET all == DOMAIN Command(kind, ui, host, password) IN
                   {"pc", "change", "settings", "unverified"} \subseteq all
  BY DEF Command
<1>3. ASSUME NEW ui \in {"cli", "app"}, NEW action \in {"status", "enable", "disable", "legacy"},
             NEW noWait \in BOOLEAN, NEW p \in Passwords \cup {NoPassword},
             BeginSetSsh(ui, action, noWait, p)
      PROVE  op'.kind = "set-ssh" /\ op'.pc # "write"
  <2> DEFINE base == Command("set-ssh", ui, env.host, IF ui = "app" THEN Overlaid(p) ELSE env.password)
             begun(yes, given) ==
               [base EXCEPT !.action = action, !.noWait = noWait, !.yes = yes, !.given = given,
                            !.pc = "ssh_probe"]
  <2>1. PICK yes, given : Launch(begun(yes, given))
    BY <1>3 DEF BeginSetSsh
  <2>2. base.kind = "set-ssh" /\ "pc" \in DOMAIN base /\ op' = begun(yes, given)
    BY <1>1, <1>2, <2>1
  <2> HIDE DEF base
  <2> QED
    BY ONLY <2>2
<1>4. ASSUME NEW ui \in {"cli", "scripted", "app"}, NEW host \in Targets, NEW p \in Passwords,
             NEW change \in Changes, NEW enable \in BOOLEAN, NEW persist \in BOOLEAN,
             BeginConfigure(ui, host, p, change, enable, persist)
      PROVE  /\ op'.kind = "configure" /\ op'.pc # "write"
             /\ op'.settings = Merged(env'.settings, op'.change) /\ Legal(op'.settings)
  <2> DEFINE base == Command("configure", ui, host, p)
             merged == Merged(env.settings, change)
             begun(yes, given) ==
               [base EXCEPT !.action = "enable", !.enable = enable, !.yes = yes, !.given = given,
                            !.change = change, !.settings = merged, !.persist = persist,
                            !.pc = "port"]
  <2>1. PICK yes, given : Launch(begun(yes, given))
    BY <1>4 DEF BeginConfigure
  <2>2. base.kind = "configure" /\ {"pc", "change", "settings"} \subseteq DOMAIN base
    BY <1>2
  <2>3. op' = begun(yes, given) /\ env' = env
    BY <1>1, <2>1
  <2>4. Legal(merged)
    BY <1>4 DEF BeginConfigure
  <2> HIDE DEF base, merged
  <2>5. op'.kind = "configure" /\ op'.pc = "port" /\ op'.settings = merged /\ op'.change = change
    BY ONLY <2>2, <2>3
  <2> QED
    BY <2>3, <2>4, <2>5 DEF merged
<1>5. ASSUME NEW change \in Changes, BeginUpdate(change)
      PROVE  /\ op'.kind = "update"
             /\ op'.settings = Merged(env'.settings, op'.change) /\ Legal(op'.settings)
             /\ env'.exists /\ op'.host = env'.host /\ op'.password = env'.password /\ op'.persist
             /\ op'.unverified = env'.unverified
  <2> DEFINE base == Command("update", "app", env.host, env.password)
             merged == Merged(env.settings, change)
  <2>1. /\ base.kind = "update" /\ base.host = env.host /\ base.password = env.password
        /\ {"pc", "change", "settings", "unverified"} \subseteq DOMAIN base
    BY <1>2
  <2>5. base.persist
    BY DEF Command
  <2>2. /\ op' = [base EXCEPT !.change = change, !.settings = merged,
                              !.unverified = env.unverified, !.pc = "write"]
        /\ env' = env
    BY <1>1, <1>5 DEF BeginUpdate
  <2>3. env.exists /\ Legal(merged)
    BY <1>5 DEF BeginUpdate, HasTarget
  <2> HIDE DEF base, merged
  <2>4. /\ op'.kind = "update" /\ op'.settings = merged /\ op'.change = change
        /\ op'.host = env.host /\ op'.password = env.password /\ op'.persist
        /\ op'.unverified = env.unverified
    BY ONLY <2>1, <2>2, <2>5
  <2> QED
    BY <2>2, <2>3, <2>4 DEF merged
<1>6. ASSUME NEW host, NEW proxied \in BOOLEAN, NEW p, BeginReachability(host, proxied, p)
      PROVE  op'.kind = "reachability" /\ op'.pc # "write"
  <2> DEFINE base == Command("reachability", "app", host, Overlaid(p))
             first == IF proxied THEN "check_auth" ELSE "check_port"
  <2>1. base.kind = "reachability" /\ "pc" \in DOMAIN base
    BY <1>2
  <2>2. op' = [base EXCEPT !.pc = first]
    BY <1>1, <1>6 DEF BeginReachability
  <2> HIDE DEF base
  <2> QED
    BY ONLY <2>1, <2>2
<1> QED
  BY <1>3, <1>4, <1>5, <1>6 DEF Begin, SettingsInv

Onward ==
    /\ op'.kind = op.kind /\ op'.change = op.change /\ op'.settings = op.settings
    /\ op.pc = "done" => op'.pc = "done"
    /\ op.kind = "update" => Keeps /\ op'.unverified = op.unverified
    /\ op'.pc = "write" =>
          \/ op.pc = "write" /\ Keeps /\ op'.unverified = op.unverified
          \/ Login \/ LoginRejected

\* Every step begins a command, ends it, or carries its settings along; only
\* Write changes the file.
LEMMA CommandGoesOn ==
    ASSUME TypedInv, TypedInv', [Next]_vars
    PROVE  \/ Begin \/ Write
           \/ UNCHANGED env /\ (op'.pc = "done" \/ Onward)
<1>1. op \in CommandType
  BY DEF TypedInv, TypeOK
<1>2. ASSUME NEW result \in Results, Stop(result) PROVE op'.pc = "done"
  BY <1>2, StopEnds DEF Ends
<1>3. ASSUME NEW o \in CommandType, NEW pc, Confirm(o, pc)
      PROVE  op'.pc = "done" \/ op' = [o EXCEPT !.pc = pc]
  BY <1>3, EndedIsTyped DEF Confirm, Results
<1>4. CASE Act
  <2> DEFINE what == SelectAction(op.action, Open(op.host, "ssh"))
             o == [op EXCEPT !.action = what]
  <2>1. /\ what \in {"enable", "disable"} /\ op.kind = "set-ssh" /\ env' = env /\ op.pc = "ssh_probe"
        /\ Confirm(o, FirstStep(what)) \/ op' = [o EXCEPT !.pc = FirstStep(what)]
    BY <1>4 DEF Act, TypedInv, LaneInv
  <2> HIDE DEF what
  <2>2. /\ o \in CommandType /\ FirstStep(what) # "write"
        /\ o.kind = op.kind /\ o.change = op.change /\ o.settings = op.settings
    BY <1>1, <2>1 DEF CommandType, FirstStep
  <2> HIDE DEF o
  <2>3. op'.pc = "done" \/ op' = [o EXCEPT !.pc = FirstStep(what)]
    BY <1>3, <2>1, <2>2
  <2>4. ASSUME op' = [o EXCEPT !.pc = FirstStep(what)] PROVE Onward
    BY <2>1, <2>2, <2>4 DEF Onward, CommandType
  <2> QED
    BY <2>1, <2>3, <2>4
<1>5. CASE PromptDisable
  <2>1. /\ env' = env /\ op.pc = "ssh_probe" /\ op.kind = "set-ssh"
        /\ Stop("left") \/ op' = [op EXCEPT !.action = "disable", !.yes = TRUE, !.pc = "remove_dbug"]
    BY <1>5 DEF PromptDisable, TypedInv, LaneInv
  <2>2. ASSUME op' = [op EXCEPT !.action = "disable", !.yes = TRUE, !.pc = "remove_dbug"]
        PROVE  Onward
    BY <1>1, <2>1, <2>2 DEF Onward, CommandType
  <2> QED
    BY <1>2, <2>1, <2>2 DEF Results
<1>6. CASE ProbePort
  <2>1. /\ env' = env /\ op.pc = "port" /\ op.kind = "configure"
        /\ \/ Stop("failed") \/ Confirm(op, "acp_probe") \/ GoTo("login") \/ GoTo("acp_probe")
    BY <1>6 DEF ProbePort, TypedInv, LaneInv, ConfigurePCs
  <2>2. ASSUME NEW pc \in {"login", "acp_probe"}, op' = [op EXCEPT !.pc = pc]
        PROVE  Onward
    BY <1>1, <2>1, <2>2 DEF Onward, CommandType
  <2> QED
    BY <1>1, <1>2, <1>3, <2>1, <2>2 DEF Results, GoTo
<1>7. CASE Login \/ LoginRejected
  <2>1. /\ env' = env /\ op.pc = "login" /\ op.kind = "configure"
        /\ \/ Stop("failed") \/ Stop("auth_failed") \/ GoTo("prompt") \/ GoTo("write")
           \/ op' = [op EXCEPT !.unverified = TRUE, !.pc = "write"]
    BY <1>7 DEF Login, LoginRejected, AuthFailed, TypedInv, LaneInv, ConfigurePCs
  <2>2. ASSUME \/ GoTo("prompt") \/ GoTo("write")
               \/ op' = [op EXCEPT !.unverified = TRUE, !.pc = "write"]
        PROVE  Onward
    BY <1>1, <1>7, <2>1, <2>2 DEF Onward, CommandType, GoTo
  <2> QED
    BY <1>2, <2>1, <2>2 DEF Results
<1>8. CASE Prompt
  <2>1. env' = env /\ op.pc = "prompt" /\ op.kind = "configure"
    BY <1>8 DEF Prompt, TypedInv, LaneInv, ConfigurePCs
  <2> QED
    BY <1>1, <1>8, <2>1 DEF Prompt, Onward, CommandType
<1>9. CASE (Ends \/ Moves) /\ UNCHANGED <<env, shown>>
  BY <1>9 DEF Ends, Moves, Keeps, Onward
<1> QED
  BY <1>4, <1>5, <1>6, <1>7, <1>8, <1>9, Shape

\* A command's settings are those of the file with its changes.
LEMMA SettingsStay == Spec => []SettingsInv
<1>1. Init => SettingsInv
  BY NoCommandIsTyped DEF Init, SettingsInv
<1>2. TypedInv /\ TypedInv' /\ SettingsInv /\ [Next]_vars => SettingsInv'
  <2> SUFFICES ASSUME TypedInv, TypedInv', SettingsInv, [Next]_vars
               PROVE  SettingsInv'
    OBVIOUS
  <2>1. CASE Begin
    BY <2>1, BeginSettings
  <2>2. CASE Write
    BY <2>2, StopEnds DEF Write, Ends, Results, SettingsInv
  <2>3. CASE UNCHANGED env /\ (op'.pc = "done" \/ Onward)
    BY <2>3 DEF Onward, Keeps, SettingsInv
  <2> QED
    BY <2>1, <2>2, <2>3, CommandGoesOn
<1> QED
  BY <1>1, <1>2, Typed, PTL DEF Spec

\* The file's settings are what was asked for, all else kept, never an
\* illegal combination; an update keeps the target and the password.
THEOREM SettingsKept == Spec => SettingsAreKept
<1>1. TypedInv /\ TypedInv' /\ SettingsInv /\ [Next]_vars =>
        [env' # env =>
          /\ op.change.on \ op.change.off \subseteq env'.settings
          /\ op.change.off \cap env'.settings = {}
          /\ \A s \in Settings \ (op.change.on \cup op.change.off) :
                s \in env'.settings <=> s \in env.settings
          /\ Legal(env'.settings)
          /\ op.kind = "update" =>
                env'.host = env.host /\ env'.password = env.password]_vars
  <2> SUFFICES ASSUME TypedInv, TypedInv', SettingsInv, [Next]_vars, env' # env
               PROVE  /\ op.change.on \ op.change.off \subseteq env'.settings
                      /\ op.change.off \cap env'.settings = {}
                      /\ \A s \in Settings \ (op.change.on \cup op.change.off) :
                            s \in env'.settings <=> s \in env.settings
                      /\ Legal(env'.settings)
                      /\ op.kind = "update" =>
                            env'.host = env.host /\ env'.password = env.password
    OBVIOUS
  <2>1. Write
    <3>1. CASE Begin
      BY <3>1, BeginFacts
    <3> QED
      BY <3>1, CommandGoesOn
  <2>2. /\ env'.settings = op.settings /\ env'.host = op.host
        /\ env'.password = IF op.persist THEN op.password ELSE NoPassword
        /\ op.pc = "write" /\ op.kind \in {"configure", "update"}
    BY <2>1 DEF Write, Rendered, TypedInv, LaneInv
  <2>3. env'.settings = Merged(env.settings, op.change) /\ Legal(env'.settings)
    BY <2>2 DEF SettingsInv
  <2>4. op.kind = "update" => env'.host = env.host /\ env'.password = env.password
    BY <2>2 DEF SettingsInv
  <2> QED
    BY <2>3, <2>4 DEF Merged
<1> QED
  BY <1>1, Typed, SettingsStay, PTL DEF Spec, SettingsAreKept

-----------------------------------------------------------------------------
(* The target.                                                             *)

Works(h, p) == h \in rekeyed \/ (dev[h].supported /\ p \in {NoPassword, dev[h].secret})

TargetInv ==
    /\ env.exists => env.host \in Hosts /\ (~env.unverified => Works(env.host, env.password))
    /\ op.pc = "write" /\ ~op.unverified => Works(op.host, op.password)

\* No step changes what a device is, nor, unless it is a change of password,
\* the password it takes.
LEMMA DevicesKeep ==
    ASSUME TypedInv, [Next]_vars, NEW h \in Hosts
    PROVE  /\ h \in rekeyed => h \in rekeyed'
           /\ dev'[h].supported = dev[h].supported
           /\ h \in rekeyed' \/ dev'[h].secret = dev[h].secret
<1> DEFINE Kept == /\ h \in rekeyed => h \in rekeyed'
                   /\ dev'[h].supported = dev[h].supported
                   /\ h \in rekeyed' \/ dev'[h].secret = dev[h].secret
<1>1. dev \in [Hosts -> Device] /\ \A g \in Hosts : dev[g] \in Device
  BY DEF TypedInv, TypeOK
<1>2. ASSUME NEW g, NEW d,
             dev' \in {dev, [dev EXCEPT ![g] = d]}, rekeyed' = rekeyed,
             g \in Hosts => d.supported = dev[g].supported /\ d.secret = dev[g].secret
      PROVE  Kept
  BY <1>1, <1>2
<1>3. ASSUME NEW g \in Hosts, BeginStop(g), UNCHANGED rekeyed PROVE Kept
  BY <1>1, <1>3 DEF BeginStop, Device
<1>4. ASSUME NEW g \in Hosts, NEW p \in Ports, ClosePort(g, p) \/ OpenPort(g, p), UNCHANGED rekeyed
      PROVE  Kept
  BY <1>1, <1>4 DEF ClosePort, OpenPort, Device
<1>5. ASSUME NEW g \in Hosts, PowerCut(g) PROVE Kept
  BY <1>1, <1>5 DEF PowerCut, Device
<1>6. ASSUME NEW g \in Hosts, ChangePassword(g) PROVE Kept
  BY <1>1, <1>6 DEF ChangePassword, Device
<1>7. CASE Surroundings
  BY <1>3, <1>4, <1>5, <1>6, <1>7 DEF Surroundings, DeviceRuns
<1>8. ASSUME \/ AcpCall([dev[op.host] EXCEPT !.flag = TRUE], "acp_reboot")
             \/ AcpCall(Asked(dev[op.host]), "wait_open")
             \/ SshCall([dev[op.host] EXCEPT !.flag = FALSE], "ssh_reboot")
             \/ SshCall(Asked(dev[op.host]), "wait_closed")
             \/ AskRebootTimesOut
      PROVE  Kept
  <2>1. rekeyed' = rekeyed
    BY <1>8 DEF AcpCall, SshCall, AskRebootTimesOut, deviceVars
  <2>2. PICK d \in {[dev[op.host] EXCEPT !.flag = TRUE], [dev[op.host] EXCEPT !.flag = FALSE],
                    Asked(dev[op.host])} :
          dev' \in {dev, [dev EXCEPT ![op.host] = d]}
    BY <1>8 DEF AcpCall, SshCall, AskRebootTimesOut, deviceVars
  <2>3. op.host \in Hosts => d.supported = dev[op.host].supported /\ d.secret = dev[op.host].secret
    BY <1>1 DEF Asked, Device
  <2> QED
    BY <1>2, <2>1, <2>2, <2>3
<1>9. CASE SetDbug \/ AcpReboot \/ RemoveDbug \/ AskReboot \/ AskRebootTimesOut
  BY <1>8, <1>9 DEF SetDbug, AcpReboot, RemoveDbug, AskReboot
<1>10. ASSUME \/ Begin \/ AcpProbe \/ WaitOpen \/ Report \/ NothingToDo \/ Act \/ PromptDisable
              \/ WaitClosed \/ WaitUp \/ VerifyDisabled \/ ConfigureSteps \/ ReachabilitySteps
              \/ Crash \/ UNCHANGED vars
       PROVE  Kept
  <2>1. Begin => UNCHANGED deviceVars
    BY BeginFacts
  <2>2. UNCHANGED <<dev, rekeyed>>
    BY <1>10, <2>1
    DEF AcpProbe, WaitOpen, Report, NothingToDo, Act, PromptDisable, WaitClosed, WaitUp,
        VerifyDisabled, ConfigureSteps, ProbePort, Login, LoginFails, LoginRejected, Prompt, Write,
        ReachabilitySteps, CheckPort, CheckAuth, CheckSmb, Crash, vars, deviceVars
  <2> QED
    BY <2>2
<1> QED
  BY <1>7, <1>9, <1>10 DEF Next, Host, EnableSteps, SetSshSteps

\* The file's target, and the one about to be written, work.
LEMMA TargetStays == Spec => []TargetInv
<1>1. Init => TargetInv
  <2> SUFFICES ASSUME Init
               PROVE  TargetInv
    OBVIOUS
  <2>1. op.pc = "done"
    BY NoCommandIsTyped DEF Init
  <2>2. env.exists => env.host \in Hosts /\ Works(env.host, env.password)
    BY DEF Init, EnvInit, NoEnv, Rendered, Works
  <2> QED
    BY <2>1, <2>2 DEF TargetInv
<1>2. TypedInv /\ TypedInv' /\ SettingsInv /\ SettingsInv' /\ TargetInv /\ [Next]_vars => TargetInv'
  <2> SUFFICES ASSUME TypedInv, TypedInv', SettingsInv, SettingsInv', TargetInv, [Next]_vars
               PROVE  TargetInv'
    OBVIOUS
  <2>1. \A h \in Hosts : \A p : Works(h, p) => Works(h, p)'
    BY DevicesKeep DEF Works
  <2>2. op.pc # "done" => op.host \in Hosts
    BY DEF TypedInv, LaneInv
  <2>3. ASSUME UNCHANGED env
        PROVE  env'.exists => env'.host \in Hosts /\ (~env'.unverified => Works(env.host, env.password)')
    <3>1. \A h, p : h = env.host /\ p = env.password =>
            (Works(h, p)' <=> Works(env.host, env.password)')
      BY <2>3 DEF Works
    <3> QED
      BY <2>1, <2>3, <3>1 DEF TargetInv
  <2>4. CASE Begin
    <3>1. env' = env
      BY <2>4, BeginFacts
    <3>2. op'.pc = "write" =>
            op'.host = env.host /\ op'.password = env.password /\ op'.unverified = env.unverified
            /\ env.exists
      BY <2>4, <3>1, BeginSettings DEF SettingsInv
    <3> QED
      BY <2>3, <3>1, <3>2 DEF TargetInv, Works
  <2>5. CASE Write
    <3>1. /\ op'.pc = "done" /\ op.pc = "write"
          /\ env' = Rendered(op.host, op.password, op.persist, op.settings, op.unverified)
      BY <2>5, StopEnds DEF Write, Ends, Results
    <3>2. /\ env'.host = op.host /\ env'.unverified = op.unverified
          /\ env'.password \in {NoPassword, op.password}
      BY <3>1 DEF Rendered
    <3>3. ~op.unverified => Works(op.host, op.password) /\ op.host \in Hosts
      BY <2>2, <3>1 DEF TargetInv
    <3>4. op.host \in Hosts
      BY <2>2, <3>1
    <3>5. ~op.unverified =>
             op.host \in rekeyed' \/ (dev'[op.host].supported /\ op.password \in {NoPassword, dev'[op.host].secret})
      BY <3>3, <3>4, DevicesKeep DEF Works
    <3> QED
      BY <3>1, <3>2, <3>4, <3>5 DEF TargetInv, Works
  <2>6. CASE UNCHANGED env /\ (op'.pc = "done" \/ Onward)
    <3>1. CASE op'.pc # "write"
      BY <2>3, <2>6, <3>1 DEF TargetInv
    <3>2. CASE op'.pc = "write" /\ op.pc = "write" /\ Keeps /\ op'.unverified = op.unverified
      <4>1. ~op.unverified => 
              op.host \in rekeyed' \/ (dev'[op.host].supported /\ op.password \in {NoPassword, dev'[op.host].secret})
        BY <2>2, <3>2, DevicesKeep DEF TargetInv, Works
      <4> QED
        BY <2>3, <2>6, <3>2, <4>1 DEF TargetInv, Works, Keeps
    <3>3. CASE op'.pc = "write" /\ Login
      <4>1. /\ op'.host = op.host /\ op'.password = op.password /\ UNCHANGED <<dev, rekeyed>>
            /\ dev[op.host].supported /\ dev[op.host].secret = op.password
        <5>1. op.pc = "login" /\ Accepts(op.host, op.password) /\ UNCHANGED <<dev, rekeyed>>
              /\ ((Supported(op.host) /\ GoTo("write")) \/ Stop("failed"))
          BY <3>3 DEF Login, deviceVars
        <5>2. ~Stop("failed")
          BY <3>3, StopEnds DEF Ends, Results
        <5>3. op'.host = op.host /\ op'.password = op.password
          BY <5>1, <5>2 DEF GoTo, TypedInv, TypeOK, CommandType
        <5> QED
          BY <5>1, <5>2, <5>3 DEF Accepts, Supported
      <4> QED
        BY <2>3, <2>6, <4>1 DEF TargetInv, Works
    <3>4. CASE op'.pc = "write" /\ LoginRejected
      <4>1. op'.unverified
        <5>1. AuthFailed \/ op' = [op EXCEPT !.unverified = TRUE, !.pc = "write"]
          BY <3>4 DEF LoginRejected
        <5>2. ~AuthFailed
          BY <3>4, StopEnds DEF AuthFailed, Ends, Results, GoTo, TypedInv, TypeOK, CommandType
        <5> QED
          BY <5>1, <5>2 DEF TypedInv, TypeOK, CommandType
      <4> QED
        BY <2>3, <2>6, <4>1 DEF TargetInv
    <3> QED
      BY <2>6, <3>1, <3>2, <3>3, <3>4 DEF Onward
  <2> QED
    BY <2>4, <2>5, <2>6, CommandGoesOn
<1> QED
  BY <1>1, <1>2, Typed, SettingsStay, PTL DEF Spec

\* A saved target works, unless it was saved unverified or its password has
\* been changed since.
THEOREM SavedTargetsWork == Spec => []SavedTargetWorks
<1>1. TargetInv => SavedTargetWorks
  BY DEF TargetInv, Works, SavedTargetWorks
<1> QED
  BY <1>1, TargetStays, PTL

-----------------------------------------------------------------------------
(* What a finished command says.                                           *)

\* A device with the flag that is asked to reboot: its SSH port opens once it is
\* booting again, and then stays open.
Rising(d) ==
    /\ d.flag
    /\ \/ d.owes /\ d.phase = "up" /\ "ssh" \notin d.open
       \/ ~d.owes /\ d.phase = "stopping" /\ "ssh" \notin d.open
       \/ ~d.owes /\ d.phase \in {"booting", "up"}
Risen(d) == d.flag /\ ~d.owes /\ d.phase \in {"booting", "up"} /\ "ssh" \in d.open

\* No sshd runs, and none will be started.
Gone(d) == ~d.flag /\ "ssh" \notin d.open

\* What command o, under way or over, knows of its device d whatever happened.
NotEnabled(o, d) ==
    /\ o.pc \in {"ssh_reboot", "wait_closed"} => ~d.flag
    /\ o.pc \in {"wait_up", "verify"} => Gone(d)
    /\ o.pc = "done" /\ o.result = "disabled" => Gone(d)

\* And what it knows when the device was settled at first and no fault struck.
Looks(o, d) ==
    /\ o.pc \in CheckPCs \cup {"ssh_probe"} => Settled(d)
    /\ o.pc = "check_port" => o.seen = {}
    /\ o.pc = "check_auth" =>
          /\ o.seen \subseteq {"port", "closed"}
          /\ "port" \in o.seen => "ssh" \in d.open
          /\ "closed" \in o.seen => "ssh" \notin d.open
    /\ o.pc = "check_smb" =>
          /\ "smb" \notin o.seen
          /\ {"port", "auth"} \cap o.seen # {} /\ "refused" \notin o.seen =>
                d.flag /\ d.secret = o.password

Enables(o, d) ==
    o.kind = "set-ssh" =>
        /\ o.pc \in {"acp_probe", "set_dbug"} => Settled(d) /\ ~d.flag
        /\ o.pc = "acp_reboot" => d.flag /\ d.phase = "up" /\ ~d.owes /\ "ssh" \notin d.open
        /\ o.pc = "wait_open" => Rising(d)

Tells(o, d) ==
    o.pc = "done" =>
        /\ o.result \in {"enabled", "enable_noop", "ssh_open"} => Risen(d)
        /\ o.result \in {"disable_noop", "ssh_closed"} => ~d.flag
        /\ o.result = "reachable" => d.flag /\ d.secret = o.password
        /\ o.result # "unreachable"

Knows(o, d) == NotEnabled(o, d) /\ (o.calm => Looks(o, d) /\ Enables(o, d) /\ Tells(o, d))

KnowsInv ==
    /\ op.calm \/ op.result = "disabled" => op.host \in Hosts
    /\ op.host \in Hosts => Knows(op, dev[op.host])

\* An ended command tells its result, and of whom if that is a claim.
LEMMA EndedTells ==
    ASSUME NEW o \in CommandType, NEW result \in Results
    PROVE  /\ Ended(o, result).pc = "done" /\ Ended(o, result).result = result
           /\ result \notin Claims => ~Ended(o, result).calm
           /\ result \in Claims =>
                 /\ Ended(o, result).host = o.host /\ Ended(o, result).password = o.password
                 /\ Ended(o, result).calm = o.calm
<1>1. NoCommand \in CommandType
  BY NoCommandIsTyped
<1>2. ~NoCommand.calm
  BY DEF NoCommand, Command
<1> DEFINE of == IF result \in Claims THEN o ELSE NoCommand
           ended == [NoCommand EXCEPT !.host = of.host, !.password = of.password, !.calm = of.calm,
                                      !.result = result]
<1>3. Ended(o, result) = ended
  BY DEF Ended
<1> HIDE DEF NoCommand, of
<1>4. /\ ended.pc = NoCommand.pc /\ ended.result = result /\ ended.host = of.host
      /\ ended.password = of.password /\ ended.calm = of.calm
  BY <1>1 DEF CommandType
<1> QED
  BY <1>2, <1>3, <1>4, NoCommandIsTyped DEF of

\* A result that claims nothing needs no knowledge.
LEMMA SaysNothing ==
    ASSUME NEW o \in CommandType, NEW result \in Results \ Claims, op' = Ended(o, result)
    PROVE  KnowsInv'
<1>1. op'.pc = "done" /\ op'.result = result /\ ~op'.calm /\ result # "disabled"
  BY EndedTells DEF Claims
<1> HIDE DEF Claims
<1> QED
  BY <1>1 DEF KnowsInv, Knows, NotEnabled

\* A claim is about the device as the command knows it.
LEMMA SaysSo ==
    ASSUME TypedInv, NEW result \in Results \cap Claims, Stop(result), op.pc # "done", UNCHANGED dev,
           result = "disabled" => Gone(dev[op.host]),
           op.calm =>
             /\ result \in {"enabled", "enable_noop", "ssh_open"} => Risen(dev[op.host])
             /\ result \in {"disable_noop", "ssh_closed"} => ~dev[op.host].flag
             /\ result = "reachable" => dev[op.host].flag /\ dev[op.host].secret = op.password
             /\ result # "unreachable"
    PROVE  KnowsInv'
<1>1. /\ op'.pc = "done" /\ op'.result = result /\ op'.host = op.host
      /\ op'.password = op.password /\ op'.calm = op.calm
  BY EndedTells DEF Stop, TypedInv, TypeOK
<1>2. op.host \in Hosts
  BY DEF TypedInv, LaneInv
<1>3. NotEnabled(op', dev[op.host])
  BY <1>1 DEF NotEnabled
<1>4. op.calm => Tells(op', dev[op.host])
  BY <1>1 DEF Tells
<1>5. Looks(op', dev[op.host]) /\ Enables(op', dev[op.host])
  BY <1>1 DEF Looks, Enables, CheckPCs
<1> QED
  BY <1>1, <1>2, <1>3, <1>4, <1>5 DEF KnowsInv, Knows

\* A command that goes on has its device.
LEMMA KnowsOn ==
    ASSUME TypedInv', op'.pc # "done", Knows(op', dev'[op'.host])
    PROVE  KnowsInv'
BY DEF KnowsInv, TypedInv, LaneInv

\* configure knows nothing of this kind.
LEMMA ConfigureKnows ==
    ASSUME NEW o, NEW d, o.pc \in EnablePCs \cup {"port", "login", "prompt", "write"}, o.kind # "set-ssh"
    PROVE  Knows(o, d)
BY DEF Knows, NotEnabled, Looks, Enables, Tells, EnablePCs, CheckPCs

\* The devices go about their business: an SSH port that a reboot opens stays
\* open, and a device with nothing to do stays as it is.
LEMMA RunningKeeps ==
    ASSUME TypedInv, DeviceRuns, NEW h \in Hosts
    PROVE  /\ dev'[h].flag = dev[h].flag /\ dev'[h].secret = dev[h].secret
           /\ dev[h].phase = "up" /\ ~dev[h].owes => dev'[h] = dev[h]
           /\ Rising(dev[h]) => Rising(dev'[h])
           /\ Risen(dev[h]) => Risen(dev'[h])
           /\ Gone(dev[h]) => Gone(dev'[h])
<1> DEFINE d == dev[h]
           Kept(e) == /\ e.flag = d.flag /\ e.secret = d.secret
                      /\ d.phase = "up" /\ ~d.owes => e = d
                      /\ Rising(d) => Rising(e)
                      /\ Risen(d) => Risen(e)
                      /\ Gone(d) => Gone(e)
<1>1. dev \in [Hosts -> Device] /\ d \in Device
  BY DEF TypedInv, TypeOK
<1>2. PICK g \in Hosts : BeginStop(g) \/ \E p \in Ports : ClosePort(g, p) \/ OpenPort(g, p)
  BY DEF DeviceRuns
<1>3. CASE g # h
  <2>1. dev'[h] = dev[h]
    BY <1>1, <1>2, <1>3 DEF BeginStop, ClosePort, OpenPort
  <2> QED
    BY <2>1
<1>4. CASE g = h
  <2>1. CASE BeginStop(h)
    <3>1. /\ dev'[h].phase = "stopping" /\ ~dev'[h].owes /\ dev'[h].flag = d.flag
          /\ dev'[h].secret = d.secret /\ dev'[h].open = d.open /\ d.owes
      BY <1>1, <2>1 DEF BeginStop, Device
    <3> QED
      BY <3>1 DEF Rising, Risen, Gone
  <2>2. ASSUME NEW p \in Ports, ClosePort(h, p)
        PROVE  Kept(dev'[h])
    <3>1. /\ d.phase = "stopping" /\ dev'[h].phase \in {"stopping", "booting"}
          /\ dev'[h].open = d.open \ {p} /\ dev'[h].owes = d.owes
          /\ dev'[h].flag = d.flag /\ dev'[h].secret = d.secret
      BY <1>1, <2>2 DEF ClosePort, Device
    <3> QED
      BY <3>1 DEF Rising, Risen, Gone
  <2>3. ASSUME NEW p \in Ports, OpenPort(h, p)
        PROVE  Kept(dev'[h])
    <3>1. /\ d.phase = "booting" /\ dev'[h].phase \in {"up", "booting"}
          /\ dev'[h].open = d.open \cup {p} /\ dev'[h].owes = d.owes
          /\ dev'[h].flag = d.flag /\ dev'[h].secret = d.secret
          /\ p \in Served(d)
      BY <1>1, <2>3 DEF OpenPort, Device
    <3> QED
      BY <3>1 DEF Rising, Risen, Gone, Served
  <2> QED
    BY <1>2, <1>4, <2>1, <2>2, <2>3
<1> QED
  BY <1>3, <1>4

\* Nothing the surroundings do makes a command's knowledge false, unless it is a
\* fault, and then it knows of no more than the flag and a port 22 that is closed.
LEMMA SurroundingsKnow ==
    ASSUME TypedInv, KnowsInv, Surroundings
    PROVE  KnowsInv'
<1>1. op \in CommandType /\ dev \in [Hosts -> Device]
  BY DEF TypedInv, TypeOK
<1>2. CASE DeviceRuns /\ UNCHANGED op
  <2>1. ASSUME op.host \in Hosts
        PROVE  Knows(op, dev'[op.host])
    <3> DEFINE d == dev[op.host]
               e == dev'[op.host]
    <3>1. /\ e.flag = d.flag /\ e.secret = d.secret
          /\ d.phase = "up" /\ ~d.owes => e = d
          /\ Rising(d) => Rising(e)
          /\ Risen(d) => Risen(e)
          /\ Gone(d) => Gone(e)
      BY <1>2, <2>1, RunningKeeps
    <3>2. Knows(op, d)
      BY <2>1 DEF KnowsInv
    <3> HIDE DEF d, e
    <3>3. NotEnabled(op, e)
      BY <3>1, <3>2 DEF Knows, NotEnabled
    <3>4. op.calm => Looks(op, e)
      BY <3>1, <3>2 DEF Knows, Looks, Settled, CheckPCs
    <3>5. op.calm => Enables(op, e)
      BY <3>1, <3>2 DEF Knows, Enables, Settled
    <3>6. op.calm => Tells(op, e)
      BY <3>1, <3>2 DEF Knows, Tells
    <3> QED
      BY <3>3, <3>4, <3>5, <3>6 DEF Knows, e
  <2> QED
    BY <1>2, <2>1 DEF KnowsInv
<1>3. ASSUME NEW h \in Hosts, PowerCut(h) \/ ChangePassword(h), op' = [op EXCEPT !.calm = FALSE]
      PROVE  KnowsInv'
  <2>1. op'.host = op.host /\ op'.pc = op.pc /\ op'.result = op.result /\ ~op'.calm
    BY <1>1, <1>3 DEF CommandType
  <2>2. op.host \in Hosts => /\ dev'[op.host].flag = dev[op.host].flag
                             /\ dev'[op.host].open \subseteq dev[op.host].open
    BY <1>1, <1>3 DEF PowerCut, ChangePassword, Device
  <2> QED
    BY <2>1, <2>2 DEF KnowsInv, Knows, NotEnabled, Gone
<1> QED
  BY <1>2, <1>3 DEF Surroundings

\* Going on to another step changes only the step.
LEMMA GoToIs ==
    ASSUME TypedInv, NEW pc, GoTo(pc)
    PROVE  /\ op'.pc = pc /\ op'.host = op.host /\ op'.kind = op.kind /\ op'.calm = op.calm
           /\ op'.seen = op.seen /\ op'.password = op.password /\ op'.result = op.result
BY DEF GoTo, TypedInv, TypeOK, CommandType

\* A settled device without the flag has its SSH port closed, with it open.
LEMMA SettledPorts ==
    ASSUME NEW d, Settled(d)
    PROVE  /\ d.phase = "up" /\ ~d.owes /\ d.open \subseteq Ports
           /\ "ssh" \in d.open <=> d.flag
           /\ "smb" \in d.open
BY DEF Settled, Served, Ports

\* A new command has looked at nothing yet, and is calm about a settled device.
LEMMA BeginIsCalm ==
    ASSUME TypedInv, Begin
    PROVE  /\ op'.seen = {} /\ op'.result = "none"
           /\ op'.calm => Settled(dev[op'.host])
<1> DEFINE Facts == /\ op'.seen = {} /\ op'.result = "none"
                    /\ op'.calm => Settled(dev[op'.host])
<1>1. \A command : Launch(command) => op' = command
  BY DEF Launch
<1>2. ASSUME NEW kind, NEW ui, NEW host, NEW password, NEW c, c = Command(kind, ui, host, password)
      PROVE  /\ c.seen = {} /\ c.result = "none" /\ c.host = host
             /\ c.calm => Settled(dev[c.host])
             /\ {"pc", "seen", "result", "host", "calm"} \subseteq DOMAIN c
  BY <1>2 DEF Command
<1>3. ASSUME NEW ui \in {"cli", "app"}, NEW action, NEW noWait, NEW p, BeginSetSsh(ui, action, noWait, p)
      PROVE  Facts
  <2> DEFINE base == Command("set-ssh", ui, env.host, IF ui = "app" THEN Overlaid(p) ELSE env.password)
             begun(yes, given) ==
               [base EXCEPT !.action = action, !.noWait = noWait, !.yes = yes, !.given = given,
                            !.pc = "ssh_probe"]
  <2>1. PICK yes \in BOOLEAN, given \in Answers \cup {{}} : Launch(begun(yes, given))
    BY <1>3 DEF BeginSetSsh
  <2>2. /\ base.seen = {} /\ base.result = "none" /\ (base.calm => Settled(dev[base.host]))
        /\ {"pc", "seen", "result", "host", "calm"} \subseteq DOMAIN base
    BY <1>2
  <2>3. op' = begun(yes, given)
    BY <1>1, <2>1
  <2> HIDE DEF base
  <2>4. op'.seen = base.seen /\ op'.result = base.result /\ op'.host = base.host /\ op'.calm = base.calm
    BY ONLY <2>2, <2>3
  <2> QED
    BY <2>2, <2>4
<1>4. ASSUME NEW ui, NEW host, NEW p, NEW change, NEW enable, NEW persist,
             BeginConfigure(ui, host, p, change, enable, persist)
      PROVE  Facts
  <2> DEFINE base == Command("configure", ui, host, p)
             merged == Merged(env.settings, change)
             begun(yes, given) ==
               [base EXCEPT !.action = "enable", !.enable = enable, !.yes = yes, !.given = given,
                            !.change = change, !.settings = merged, !.persist = persist,
                            !.pc = "port"]
  <2>1. PICK yes \in BOOLEAN, given \in Answers \cup {{}} : Launch(begun(yes, given))
    BY <1>4 DEF BeginConfigure
  <2>2. /\ base.seen = {} /\ base.result = "none" /\ (base.calm => Settled(dev[base.host]))
        /\ {"pc", "seen", "result", "host", "calm"} \subseteq DOMAIN base
    BY <1>2
  <2>3. op' = begun(yes, given)
    BY <1>1, <2>1
  <2> HIDE DEF base, merged
  <2>4. op'.seen = base.seen /\ op'.result = base.result /\ op'.host = base.host /\ op'.calm = base.calm
    BY ONLY <2>2, <2>3
  <2> QED
    BY <2>2, <2>4
<1>5. ASSUME NEW change, BeginUpdate(change)
      PROVE  Facts
  <2> DEFINE base == Command("update", "app", env.host, env.password)
             merged == Merged(env.settings, change)
  <2>1. /\ base.seen = {} /\ base.result = "none" /\ (base.calm => Settled(dev[base.host]))
        /\ {"pc", "seen", "result", "host", "calm"} \subseteq DOMAIN base
    BY <1>2
  <2>2. op' = [base EXCEPT !.change = change, !.settings = merged,
                           !.unverified = env.unverified, !.pc = "write"]
    BY <1>1, <1>5 DEF BeginUpdate
  <2> HIDE DEF base, merged
  <2>3. op'.seen = base.seen /\ op'.result = base.result /\ op'.host = base.host /\ op'.calm = base.calm
    BY ONLY <2>1, <2>2
  <2> QED
    BY <2>1, <2>3
<1>6. ASSUME NEW host, NEW proxied, NEW p, BeginReachability(host, proxied, p)
      PROVE  Facts
  <2> DEFINE base == Command("reachability", "app", host, Overlaid(p))
             first == IF proxied THEN "check_auth" ELSE "check_port"
  <2>1. /\ base.seen = {} /\ base.result = "none" /\ (base.calm => Settled(dev[base.host]))
        /\ {"pc", "seen", "result", "host", "calm"} \subseteq DOMAIN base
    BY <1>2
  <2>2. op' = [base EXCEPT !.pc = first]
    BY <1>1, <1>6 DEF BeginReachability
  <2> HIDE DEF base, first
  <2>3. op'.seen = base.seen /\ op'.result = base.result /\ op'.host = base.host /\ op'.calm = base.calm
    BY ONLY <2>1, <2>2
  <2> QED
    BY <2>1, <2>3
<1> QED
  BY <1>3, <1>4, <1>5, <1>6 DEF Begin

\* A new command knows what it needs.
LEMMA BeginKnows ==
    ASSUME TypedInv, TypedInv', Begin
    PROVE  KnowsInv'
<1>1. UNCHANGED dev /\ op'.pc \in {"ssh_probe", "port", "write", "check_port", "check_auth"}
  BY BeginFacts DEF deviceVars
<1>2. op'.seen = {} /\ (op'.calm => Settled(dev'[op'.host]))
  BY <1>1, BeginIsCalm
<1>3. Knows(op', dev'[op'.host])
  BY <1>1, <1>2 DEF Knows, NotEnabled, Looks, Enables, Tells, CheckPCs
<1> QED
  BY <1>1, <1>3, KnowsOn

\* Opening SSH: the device that is asked for it has the flag when it boots.
LEMMA EnableKnows ==
    ASSUME TypedInv, TypedInv', KnowsInv, EnableSteps
    PROVE  KnowsInv'
<1> DEFINE d == dev[op.host]
<1>1. /\ op \in CommandType /\ dev \in [Hosts -> Device] /\ op.host \in Hosts /\ d \in Device
      /\ op.pc \in EnablePCs /\ op.kind \in {"set-ssh", "configure"} /\ Knows(op, d)
  BY DEF EnableSteps, AcpProbe, SetDbug, AcpReboot, WaitOpen, TypedInv, TypeOK, LaneInv, EnablePCs,
      KnowsInv
<1>2. ASSUME NEW result \in {"failed", "auth_failed", "requested"}, Stop(result)
      PROVE  KnowsInv'
  BY <1>1, <1>2, SaysNothing DEF Stop, Claims, Results
<1>3. ASSUME NEW pc \in EnablePCs \cup {"prompt"}, GoTo(pc), op.kind # "set-ssh"
      PROVE  KnowsInv'
  <2>1. op'.pc = pc /\ op'.kind # "set-ssh" /\ pc # "done"
    BY <1>3, GoToIs DEF EnablePCs
  <2> QED
    BY <2>1, ConfigureKnows, KnowsOn
<1>4. ASSUME NEW pc \in EnablePCs, GoTo(pc), op.calm /\ op.kind = "set-ssh" => Enables(op', dev'[op.host])
      PROVE  KnowsInv'
  <2>1. op'.pc = pc /\ op'.kind = op.kind /\ op'.calm = op.calm /\ op'.host = op.host /\ pc # "done"
    BY <1>4, GoToIs DEF EnablePCs
  <2>2. Knows(op', dev'[op.host])
    BY <1>4, <2>1 DEF Knows, NotEnabled, Looks, Tells, Enables, EnablePCs, CheckPCs
  <2> QED
    BY <2>1, <2>2, KnowsOn
<1>5. ASSUME AuthFailed
      PROVE  KnowsInv'
  BY <1>2, <1>3, <1>5 DEF AuthFailed
<1>6. CASE AcpProbe
  <2>1. CASE GoTo("set_dbug")
    <3>1. op.pc = "acp_probe" /\ UNCHANGED dev
      BY <1>6 DEF AcpProbe, deviceVars
    <3>2. op.calm /\ op.kind = "set-ssh" => Settled(d) /\ ~d.flag
      BY <1>1, <3>1 DEF Knows, Enables
    <3>3. op'.pc = "set_dbug" /\ dev'[op.host] = d
      BY <2>1, <3>1, GoToIs
    <3>4. op.calm /\ op.kind = "set-ssh" => Enables(op', dev'[op.host])
      BY <3>2, <3>3 DEF Enables
    <3> QED
      BY <1>4, <2>1, <3>4 DEF EnablePCs
  <2> QED
    BY <1>2, <1>6, <2>1 DEF AcpProbe
<1>7. CASE SetDbug
  <2>1. CASE dev' = [dev EXCEPT ![op.host] = [d EXCEPT !.flag = TRUE]] /\ GoTo("acp_reboot")
    <3>1. op.pc = "set_dbug"
      BY <1>7 DEF SetDbug
    <3>2. /\ dev'[op.host].flag /\ dev'[op.host].phase = d.phase /\ dev'[op.host].owes = d.owes
          /\ dev'[op.host].open = d.open
      BY <1>1, <2>1 DEF Device
    <3>3. op.calm /\ op.kind = "set-ssh" => Settled(d) /\ ~d.flag
      BY <1>1, <3>1 DEF Knows, Enables
    <3>4. op'.pc = "acp_reboot"
      BY <2>1, GoToIs
    <3>5. op.calm /\ op.kind = "set-ssh" => Enables(op', dev'[op.host])
      BY <3>2, <3>3, <3>4, SettledPorts DEF Enables
    <3> QED
      BY <1>4, <2>1, <3>5 DEF EnablePCs
  <2> QED
    BY <1>2, <1>5, <1>7, <2>1 DEF SetDbug, AcpCall
<1>8. CASE AcpReboot
  <2>1. CASE dev' = [dev EXCEPT ![op.host] = Asked(d)] /\ GoTo("wait_open")
    <3>1. op.pc = "acp_reboot"
      BY <1>8 DEF AcpReboot
    <3>2. /\ dev'[op.host].flag = d.flag /\ dev'[op.host].phase = d.phase
          /\ dev'[op.host].owes = (d.phase # "stopping") /\ dev'[op.host].open = d.open
      BY <1>1, <2>1 DEF Device, Asked
    <3>3. op.calm /\ op.kind = "set-ssh" => d.flag /\ d.phase = "up" /\ ~d.owes /\ "ssh" \notin d.open
      BY <1>1, <3>1 DEF Knows, Enables
    <3>4. op'.pc = "wait_open"
      BY <2>1, GoToIs
    <3>5. op.calm /\ op.kind = "set-ssh" => Enables(op', dev'[op.host])
      BY <3>2, <3>3, <3>4 DEF Enables, Rising
    <3> QED
      BY <1>4, <2>1, <3>5 DEF EnablePCs
  <2> QED
    BY <1>2, <1>5, <1>8, <2>1 DEF AcpReboot, AcpCall
<1>9. CASE WaitOpen
  <2>1. op.pc = "wait_open" /\ UNCHANGED dev
    BY <1>9 DEF WaitOpen, deviceVars
  <2>2. CASE op.kind = "set-ssh" /\ Open(op.host, "ssh") /\ Stop("enabled")
    <3>1. op.calm => Rising(d) /\ "ssh" \in d.open
      BY <1>1, <2>1, <2>2 DEF Knows, Enables, Open
    <3>2. op.calm => Risen(d)
      BY <3>1 DEF Rising, Risen
    <3> QED
      BY <2>1, <2>2, <3>2, SaysSo DEF Results, Claims
  <2>3. CASE op.kind # "set-ssh" /\ op' = [op EXCEPT !.pc = "port", !.again = TRUE]
    <3>1. op'.pc = "port" /\ op'.kind # "set-ssh"
      BY <1>1, <2>3 DEF CommandType
    <3> QED
      BY <3>1, ConfigureKnows, KnowsOn
  <2> QED
    BY <1>2, <1>9, <2>2, <2>3 DEF WaitOpen
<1> QED
  BY <1>6, <1>7, <1>8, <1>9 DEF EnableSteps

\* set-ssh: what it found on a settled device, and that the flag is gone once
\* "acp remove dbug" was answered.
LEMMA SetSshKnows ==
    ASSUME TypedInv, TypedInv', KnowsInv, SetSshSteps
    PROVE  KnowsInv'
<1> DEFINE d == dev[op.host]
<1>1. /\ op \in CommandType /\ dev \in [Hosts -> Device] /\ op.host \in Hosts /\ d \in Device
      /\ op.pc \in DisablePCs \cup {"ssh_probe"} /\ op.pc # "done"
      /\ op.kind = "set-ssh" /\ Knows(op, d)
  BY DEF SetSshSteps, Report, NothingToDo, Act, PromptDisable, RemoveDbug, AskReboot,
      AskRebootTimesOut, WaitClosed, WaitUp, VerifyDisabled, TypedInv, TypeOK, LaneInv, DisablePCs,
      KnowsInv
<1>2. ASSUME NEW o \in CommandType, NEW result \in {"failed", "requested", "left", "confirm"},
             op' = Ended(o, result)
      PROVE  KnowsInv'
  BY <1>2, SaysNothing DEF Claims, Results
<1>3. op.pc = "ssh_probe" /\ op.calm =>
        Settled(d) /\ ("ssh" \in d.open <=> d.flag) /\ d.phase = "up" /\ ~d.owes
  BY <1>1, SettledPorts DEF Knows, Looks
<1>4. CASE Report \/ NothingToDo
  <2>1. /\ op.pc = "ssh_probe" /\ UNCHANGED dev
        /\ \E result \in {"ssh_open", "ssh_closed", "enable_noop", "disable_noop"} :
              /\ Stop(result)
              /\ result \in {"ssh_open", "enable_noop"} => "ssh" \in d.open
              /\ result = "ssh_closed" => "ssh" \notin d.open
              /\ result = "disable_noop" => "ssh" \notin d.open
    BY <1>1, <1>4 DEF Report, NothingToDo, SelectAction, Open, deviceVars, CommandType
  <2>2. PICK result \in {"ssh_open", "ssh_closed", "enable_noop", "disable_noop"} :
              /\ Stop(result)
              /\ result \in {"ssh_open", "enable_noop"} => "ssh" \in d.open
              /\ result \in {"ssh_closed", "disable_noop"} => "ssh" \notin d.open
    BY <2>1
  <2>3. op.calm => /\ result \in {"enabled", "enable_noop", "ssh_open"} => Risen(d)
                   /\ result \in {"disable_noop", "ssh_closed"} => ~d.flag
    BY <1>3, <2>1, <2>2 DEF Risen
  <2>4. result \in Results \cap Claims /\ result \notin {"disabled", "reachable", "unreachable"}
    BY DEF Results, Claims
  <2> QED
    BY <1>1, <2>1, <2>2, <2>3, <2>4, SaysSo
<1>5. CASE Act
  <2> DEFINE what == SelectAction(op.action, Open(op.host, "ssh"))
             o == [op EXCEPT !.action = what]
  <2>1. /\ what \in {"enable", "disable"} /\ UNCHANGED dev /\ op.pc = "ssh_probe"
        /\ Confirm(o, FirstStep(what)) \/ op' = [o EXCEPT !.pc = FirstStep(what)]
    BY <1>5 DEF Act, deviceVars
  <2>2. what = "enable" => "ssh" \notin d.open
    BY <1>1, <1>5 DEF Act, SelectAction, Open, CommandType
  <2> HIDE DEF what
  <2>3. o \in CommandType /\ o.host = op.host /\ o.calm = op.calm
    BY <1>1, <2>1 DEF CommandType
  <2> HIDE DEF o
  <2>4. CASE op' = Ended(o, "confirm")
    BY <1>2, <2>3, <2>4
  <2>5. CASE op' = [o EXCEPT !.pc = FirstStep(what)]
    <3>1. /\ op'.host = op.host /\ op'.calm = op.calm /\ op'.pc = FirstStep(what)
          /\ op'.pc \in {"acp_probe", "remove_dbug"}
      BY <2>1, <2>3, <2>5 DEF CommandType, FirstStep
    <3>2. op.calm => Enables(op', d)
      BY <1>3, <2>1, <2>2, <3>1 DEF Enables, FirstStep
    <3>3. Knows(op', d)
      BY <3>1, <3>2 DEF Knows, NotEnabled, Looks, Tells, CheckPCs
    <3> QED
      BY <2>1, <3>1, <3>3, KnowsOn
  <2> QED
    BY <2>1, <2>4, <2>5 DEF Confirm
<1>6. CASE PromptDisable
  <2>1. CASE op' = [op EXCEPT !.action = "disable", !.yes = TRUE, !.pc = "remove_dbug"]
    <3>1. op'.pc = "remove_dbug"
      BY <1>1, <2>1 DEF CommandType
    <3>2. \A e : Knows(op', e)
      BY <3>1 DEF Knows, NotEnabled, Looks, Enables, Tells, CheckPCs
    <3> QED
      BY <3>1, <3>2, KnowsOn
  <2> QED
    BY <1>1, <1>2, <1>6, <2>1 DEF PromptDisable, Stop
<1>7. ASSUME NEW e, e = dev'[op.host], ~e.flag, op'.host = op.host,
             op'.pc \in {"ssh_reboot", "wait_closed", "wait_up", "verify"},
             op'.pc \in {"wait_up", "verify"} => "ssh" \notin e.open
      PROVE  KnowsInv'
  <2>1. Knows(op', e)
    BY <1>7 DEF Knows, NotEnabled, Gone, Looks, Enables, Tells, CheckPCs
  <2> QED
    BY <1>7, <2>1, KnowsOn
<1>8. /\ op.pc \in {"ssh_reboot", "wait_closed", "wait_up", "verify"} => ~d.flag
      /\ op.pc \in {"wait_up", "verify"} => "ssh" \notin d.open
  BY <1>1 DEF Knows, NotEnabled, Gone
<1>9. CASE RemoveDbug
  <2>1. CASE dev' = [dev EXCEPT ![op.host] = [d EXCEPT !.flag = FALSE]] /\ GoTo("ssh_reboot")
    <3>1. ~dev'[op.host].flag
      BY <1>1, <2>1 DEF Device
    <3>2. op'.pc = "ssh_reboot" /\ op'.host = op.host
      BY ONLY TypedInv, <2>1, GoToIs
    <3> QED
      BY <1>7, <3>1, <3>2
  <2> QED
    BY <1>1, <1>2, <1>9, <2>1 DEF RemoveDbug, SshCall, Stop
<1>10. CASE AskReboot \/ AskRebootTimesOut
  <2>1. op.pc = "ssh_reboot" /\ dev' \in {dev, [dev EXCEPT ![op.host] = Asked(d)]}
    BY <1>10 DEF AskReboot, AskRebootTimesOut, SshCall, deviceVars
  <2>2. ~dev'[op.host].flag
    BY <1>1, <1>8, <2>1 DEF Device, Asked
  <2>3. CASE GoTo("wait_closed")
    BY <1>7, <2>2, <2>3, GoToIs
  <2>4. CASE op' = [op EXCEPT !.pc = "wait_closed", !.calm = FALSE]
    <3>1. op'.pc = "wait_closed" /\ op'.host = op.host
      BY <1>1, <2>4 DEF CommandType
    <3> QED
      BY <1>7, <2>2, <3>1
  <2> QED
    BY <1>1, <1>2, <1>10, <2>3, <2>4 DEF AskReboot, AskRebootTimesOut, SshCall, Stop
<1>11. CASE WaitClosed \/ WaitUp
  <2>1. op.pc \in {"wait_closed", "wait_up"} /\ UNCHANGED dev
    BY <1>11 DEF WaitClosed, WaitUp, deviceVars
  <2>2. CASE (GoTo("wait_up") \/ GoTo("verify")) /\ "ssh" \notin d.open
    BY <1>7, <1>8, <2>1, <2>2, GoToIs
  <2>3. WaitUp => "ssh" \notin d.open
    BY <1>8 DEF WaitUp
  <2> QED
    BY <1>1, <1>2, <1>11, <2>2, <2>3 DEF WaitClosed, WaitUp, Stop, Open
<1>12. CASE VerifyDisabled
  <2>1. op.pc = "verify" /\ UNCHANGED dev
    BY <1>12 DEF VerifyDisabled, deviceVars
  <2>2. CASE Stop("disabled")
    BY <1>1, <1>8, <2>1, <2>2, SaysSo DEF Results, Claims, Gone
  <2> QED
    BY <1>1, <1>2, <1>12, <2>2 DEF VerifyDisabled, Stop
<1> QED
  BY <1>4, <1>5, <1>6, <1>9, <1>10, <1>11, <1>12 DEF SetSshSteps

\* configure claims nothing of a device; a killed command neither.
LEMMA ConfigureStepsKnow ==
    ASSUME TypedInv, TypedInv', ConfigureSteps \/ Crash
    PROVE  KnowsInv'
<1>1. op \in CommandType
  BY DEF TypedInv, TypeOK
<1>2. ASSUME NEW result \in {"failed", "auth_failed", "confirm", "written", "killed"},
             op' = Ended(op, result)
      PROVE  KnowsInv'
  BY <1>1, <1>2, SaysNothing DEF Claims, Results
<1>3. ASSUME ConfigureSteps,
             op' # Ended(op, "failed"), op' # Ended(op, "auth_failed"), op' # Ended(op, "confirm"),
             op' # Ended(op, "written")
      PROVE  op'.pc \in {"login", "acp_probe", "prompt", "write", "port"} /\ op'.kind = op.kind
  <2>1. CASE ProbePort
    BY <1>1, <1>3, <2>1 DEF ProbePort, Confirm, GoTo, Stop, CommandType
  <2>2. CASE Login \/ LoginFails
    BY <1>1, <1>3, <2>2 DEF Login, LoginFails, GoTo, Stop, CommandType
  <2>3. CASE LoginRejected
    BY <1>1, <1>3, <2>3 DEF LoginRejected, AuthFailed, GoTo, Stop, CommandType
  <2>4. CASE Prompt
    BY <1>1, <2>4 DEF Prompt, CommandType
  <2>5. CASE Write
    BY <1>3, <2>5 DEF Write, Stop
  <2> QED
    BY <1>3, <2>1, <2>2, <2>3, <2>4, <2>5 DEF ConfigureSteps
<1>4. ConfigureSteps => op.kind \in {"configure", "update"}
  BY DEF ConfigureSteps, ProbePort, Login, LoginFails, LoginRejected, Prompt, Write, TypedInv,
      LaneInv, ConfigurePCs
<1>5. ASSUME op'.pc \in {"login", "acp_probe", "prompt", "write", "port"}, op'.kind # "set-ssh"
      PROVE  KnowsInv'
  BY <1>5, ConfigureKnows, KnowsOn DEF EnablePCs
<1> QED
  BY <1>2, <1>3, <1>4, <1>5 DEF Crash, Stop

\* The reachability check: what was seen of a settled device is so, and then a
\* port answers.
LEMMA ReachabilityKnows ==
    ASSUME TypedInv, TypedInv', KnowsInv, ReachabilitySteps
    PROVE  KnowsInv'
<1> DEFINE d == dev[op.host]
<1>1. /\ op \in CommandType /\ dev \in [Hosts -> Device] /\ op.host \in Hosts /\ d \in Device
      /\ op.pc \in CheckPCs /\ Knows(op, d) /\ UNCHANGED dev
  BY DEF ReachabilitySteps, CheckPort, CheckAuth, CheckSmb, TypedInv, TypeOK, LaneInv, CheckPCs,
      KnowsInv, deviceVars
<1>2. op.calm => Looks(op, d) /\ Settled(d) /\ ("ssh" \in d.open <=> d.flag) /\ "smb" \in d.open
  BY <1>1, SettledPorts DEF Knows, Looks
<1>3. ASSUME NEW seen, NEW pc \in {"check_auth", "check_smb"}, op' = [op EXCEPT !.seen = seen, !.pc = pc],
             op.calm => Looks(op', d)
      PROVE  KnowsInv'
  <2>1. /\ op'.host = op.host /\ op'.calm = op.calm /\ op'.pc = pc
    BY <1>1, <1>3 DEF CommandType
  <2>2. Knows(op', d)
    BY <1>3, <2>1 DEF Knows, NotEnabled, Enables, Tells
  <2> QED
    BY <1>1, <2>1, <2>2, KnowsOn
<1>4. CASE CheckPort
  <2> DEFINE check == IF Open(op.host, "ssh") THEN {"port"} ELSE {"closed"}
             seen == op.seen \cup check
  <2>1. op' = [op EXCEPT !.seen = seen, !.pc = "check_auth"] /\ op.pc = "check_port"
    BY <1>1, <1>4 DEF CheckPort, Sees, CommandType
  <2>2. op.calm => /\ seen \subseteq {"port", "closed"}
                   /\ "port" \in seen => "ssh" \in d.open
                   /\ "closed" \in seen => "ssh" \notin d.open
    BY <1>2, <2>1 DEF Looks, Open
  <2> HIDE DEF seen
  <2>3. op'.seen = seen /\ op'.pc = "check_auth"
    BY <1>1, <2>1 DEF CommandType
  <2>4. op.calm => Looks(op', d)
    BY <1>2, <2>2, <2>3 DEF Looks
  <2> QED
    BY <1>3, <2>1, <2>4
<1>5. CASE CheckAuth
  <2>1. op.pc = "check_auth"
    BY <1>5 DEF CheckAuth
  <2>2. op.calm => /\ op.seen \subseteq {"port", "closed"}
                   /\ "port" \in op.seen => "ssh" \in d.open
                   /\ "closed" \in op.seen => "ssh" \notin d.open
    BY <1>2, <2>1 DEF Looks
  <2>3. ASSUME NEW seen, op' = [op EXCEPT !.seen = seen, !.pc = "check_smb"],
               op.calm => /\ "smb" \notin seen
                          /\ {"port", "auth"} \cap seen # {} /\ "refused" \notin seen =>
                                d.flag /\ d.secret = op.password
        PROVE  KnowsInv'
    <3>1. op'.seen = seen /\ op'.pc = "check_smb" /\ op'.password = op.password
      BY <1>1, <2>3 DEF CommandType
    <3>2. op.calm => Looks(op', d)
      BY <1>2, <2>3, <3>1 DEF Looks
    <3> QED
      BY <1>3, <2>3, <3>2
  <2>4. ASSUME NEW check \in Unanswered, Sees(check, "check_smb"),
               "closed" \in op.seen \/ ~Open(op.host, "ssh")
        PROVE  KnowsInv'
    <3>1. op' = [op EXCEPT !.seen = op.seen \cup check, !.pc = "check_smb"]
      BY <1>1, <2>4 DEF Sees, CommandType
    <3>2. op.calm => op.seen \cup check \subseteq {"closed", "refused"}
      BY <2>2, <2>4 DEF Open, Unanswered
    <3> QED
      BY <2>3, <3>1, <3>2
  <2>5. CASE /\ Open(op.host, "ssh")
             /\ Sees(IF Accepts(op.host, op.password) THEN {"auth"} ELSE {"refused"}, "check_smb")
    <3> DEFINE seen == op.seen \cup IF Accepts(op.host, op.password) THEN {"auth"} ELSE {"refused"}
    <3>1. op' = [op EXCEPT !.seen = seen, !.pc = "check_smb"]
      BY <1>1, <2>5 DEF Sees, CommandType
    <3>2. op.calm => /\ "smb" \notin seen
                     /\ {"port", "auth"} \cap seen # {} /\ "refused" \notin seen =>
                           d.flag /\ d.secret = op.password
      BY <1>2, <2>2, <2>5 DEF Open, Accepts
    <3> HIDE DEF seen
    <3> QED
      BY <2>3, <3>1, <3>2
  <2>6. ASSUME NEW check, op' = [op EXCEPT !.seen = @ \cup check, !.pc = "check_smb", !.calm = FALSE]
        PROVE  KnowsInv'
    <3>1. op'.pc = "check_smb" /\ ~op'.calm
      BY <1>1, <2>6 DEF CommandType
    <3>2. Knows(op', dev'[op'.host])
      BY <3>1 DEF Knows, NotEnabled
    <3> QED
      BY <3>1, <3>2, KnowsOn
  <2>7. {} \in Unanswered
    BY DEF Unanswered
  <2> QED
    BY <1>5, <2>4, <2>5, <2>6, <2>7 DEF CheckAuth
<1>6. CASE CheckSmb
  <2> DEFINE seen == op.seen \cup (IF \E h \in SmbHosts : Open(h, "smb") THEN {"smb"} ELSE {})
  <2>1. Stop(Verdict(seen)) /\ op.pc = "check_smb"
    BY <1>6 DEF CheckSmb
  <2>2. Verdict(seen) \in {"partial", "reachable", "unreachable"}
    BY DEF Verdict
  <2>3. op.calm => /\ "smb" \in seen /\ "smb" \notin op.seen
                   /\ {"port", "auth"} \cap op.seen # {} /\ "refused" \notin op.seen =>
                         d.flag /\ d.secret = op.password
    BY <1>2, <2>1 DEF Looks, Open, SmbHosts
  <2>4. op.calm => Verdict(seen) # "unreachable"
    BY <2>3 DEF Verdict
  <2>5. Verdict(seen) = "reachable" => "refused" \notin op.seen /\ {"port", "auth"} \cap op.seen # {}
    BY DEF Verdict
  <2>6. op.calm /\ Verdict(seen) = "reachable" => d.flag /\ d.secret = op.password
    BY <2>3, <2>5
  <2> HIDE DEF seen
  <2> DEFINE verdict == Verdict(seen)
  <2>7. /\ verdict \in Results \cap Claims /\ verdict \in {"partial", "reachable", "unreachable"}
        /\ Stop(verdict)
        /\ op.calm => verdict # "unreachable"
        /\ op.calm /\ verdict = "reachable" => d.flag /\ d.secret = op.password
    BY <2>1, <2>2, <2>4, <2>6 DEF Results, Claims
  <2> HIDE DEF verdict
  <2> QED
    BY <1>1, <2>1, <2>7, SaysSo
<1> QED
  BY <1>4, <1>5, <1>6 DEF ReachabilitySteps

\* The invariant of the reports.
LEMMA KnowledgeLasts == Spec => []KnowsInv
<1>1. Init => KnowsInv
  <2> SUFFICES ASSUME Init
               PROVE  KnowsInv
    OBVIOUS
  <2>1. op.pc = "done" /\ op.result = "none" /\ ~op.calm
    BY DEF Init, NoCommand, Command
  <2> QED
    BY <2>1 DEF KnowsInv, Knows, NotEnabled
<1>2. TypedInv /\ TypedInv' /\ KnowsInv /\ [Next]_vars => KnowsInv'
  <2> SUFFICES ASSUME TypedInv, TypedInv', KnowsInv, [Next]_vars
               PROVE  KnowsInv'
    OBVIOUS
  <2>1. CASE UNCHANGED vars
    BY <2>1 DEF vars, deviceVars, KnowsInv, Knows, NotEnabled, Looks, Enables, Tells
  <2> QED
    BY <2>1, BeginKnows, EnableKnows, SetSshKnows, ConfigureStepsKnow, ReachabilityKnows,
       SurroundingsKnow
    DEF Next, Host
<1> QED
  BY <1>1, <1>2, Typed, PTL DEF Spec

\* What set-ssh and the reachability check report of SSH is so when they report
\* it, and remains so until the next command or the next fault; "disabled" is so
\* whatever happened on the way (wait_for_tcp_port_state, result_from_checks).
THEOREM ReportsTrue == Spec => []ReportsAreTrue
<1>1. KnowsInv => ReportsAreTrue
  BY DEF KnowsInv, Knows, NotEnabled, Gone, Tells, Risen, ReportsAreTrue, Idle, Open, Accepts
<1> QED
  BY <1>1, KnowledgeLasts, PTL
=============================================================================
