------------------------- MODULE ManagerSambaProofs -------------------------
(***************************************************************************)
(* Proofs about ManagerSamba: what the manager remembers stays true to     *)
(* smb.conf and to the running smbd, for any number of runtimes, addresses *)
(* and names, whatever calls fail and whatever changes between two steps.  *)
(***************************************************************************)
EXTENDS ManagerSamba, TLAPS

-----------------------------------------------------------------------------
(* Type correctness.                                                       *)

\* The seconds left until a service is due never become negative.
LEMMA LaterIsNat ==
    ASSUME NEW n \in Nat
    PROVE  Later(n) \in Nat
BY ManagerSambaAssumption DEF Later

\* The history of failed calls forgets none.
LEMMA FailuresStay ==
    ASSUME HistoryType, [Next]_vars
    PROVE  HistoryType' /\ (smbdFailed => smbdFailed') /\ (stopFailed => stopFailed')
<1> USE DEF Fails, BothFail, Succeeds, failures, HistoryType
<1>1. CASE DiskStep
  <2>1. Succeeds \/ Fails("disk")
    BY <1>1 DEF DiskStep
  <2> QED
    BY <2>1
<1>2. CASE Identity
  <2>1. Succeeds \/ Fails("identity") \/ Fails("render") \/ Fails("reload")
    BY <1>2 DEF Identity
  <2> QED
    BY <2>1
<1>3. CASE NoPayload
  BY <1>3 DEF NoPayload, StopSmbd
<1>4. CASE Stage
  BY <1>4 DEF Stage, StageUnchanged, StageCopies, StageFails
<1>5. CASE Bind
  BY <1>5 DEF Bind, BindUnchanged, BindChanges, BindFails
<1>6. CASE Render
  BY <1>6 DEF Render, RenderUnchanged, RenderWrites, RenderFails
<1>7. CASE Apply
  BY <1>7 DEF Apply, ApplyRestart, ApplyReload, ApplyStart, StopSmbd
<1>8. CASE Start
  BY <1>8 DEF Start, AlreadyServing, StopUnbound, LaunchSmbd, StopSmbd
<1>9. CASE OtherServices
  <2>1. Succeeds \/ Fails("others")
    BY <1>9 DEF OtherServices
  <2> QED
    BY <2>1
<1>10. CASE Environment
  BY <1>10 DEF Environment, DiskChanges, AddressChanges, NameChanges, SmbdDies, SmbdLosesListeners, EnvStep
<1>11. CASE UNCHANGED vars
  BY <1>11 DEF vars, bounds
<1> QED
  BY <1>1, <1>2, <1>3, <1>4, <1>5, <1>6, <1>7, <1>8, <1>9, <1>10, <1>11 DEF Next, Manager

TypedInv == TypeOK /\ PayloadInv /\ InterfacesInv

\* Signatures are built only from a payload, interfaces and a name that the
\* manager has.
LEMMA Typed == Spec => []TypedInv
<1> USE ManagerSambaAssumption
<1>1. Init => TypedInv
  <2> USE DEF Init, OrNone
  <2>1. Init => WorldType
    BY DEF WorldType
  <2>h. Init => HistoryType
    BY DEF HistoryType
  <2>2. Init => PassType
    <3>1. Init => pc \in PCs /\ sambaStatus \in Statuses
      BY DEF PCs, Statuses
    <3>2. Init => serviceDue \in Nat /\ bindDue \in Nat
      OBVIOUS
    <3> QED
      BY <3>1, <3>2 DEF PassType
  <2>3. Init => ManagerType
    BY DEF ManagerType
  <2>4. Init => RuntimeType
    BY DEF RuntimeType
  <2>5. Init => PayloadInv /\ InterfacesInv
    BY DEF PayloadInv, InterfacesInv
  <2> QED
    BY <2>1, <2>h, <2>2, <2>3, <2>4, <2>5 DEF TypedInv, TypeOK
<1>2. TypedInv /\ [Next]_vars => TypedInv'
  <2> SUFFICES ASSUME TypedInv, [Next]_vars
               PROVE  TypedInv'
    OBVIOUS
  <2>h. HistoryType'
    BY FailuresStay DEF TypedInv, TypeOK
  <2> USE LaterIsNat DEF TypedInv, TypeOK, OrNone
  <2> USE DEF world, failures, bounds, schedule, status, identity, staging, flags, binding, smbd
  <2>1. CASE DiskStep
    <3>1. WorldType'
      BY <2>1 DEF DiskStep, Sleep, Fails, BothFail, Succeeds, WorldType
    <3>2. PassType'
      BY <2>1 DEF DiskStep, Sleep, PassType, PCs, Statuses
    <3>3. ManagerType'
      BY <2>1 DEF DiskStep, Sleep, ManagerType, RuntimeType, WorldType, Configs, PayloadInv,
          InterfacesInv
    <3>4. RuntimeType'
      BY <2>1 DEF DiskStep, Sleep, RuntimeType, ManagerType, WorldType, Configs, PayloadInv,
          InterfacesInv
    <3>5. PayloadInv'
      BY <2>1 DEF DiskStep, Sleep, PayloadInv
    <3>6. InterfacesInv'
      BY <2>1 DEF DiskStep, Sleep, InterfacesInv
    <3> QED
      BY <2>h, <3>1, <3>2, <3>3, <3>4, <3>5, <3>6
  <2>2. CASE Identity
    <3>1. WorldType'
      BY <2>2 DEF Identity, AfterIdentity, Signature, Fails, BothFail, Succeeds, WorldType
    <3>2. PassType'
      BY <2>2 DEF Identity, AfterIdentity, Signature, PassType, PCs, Statuses
    <3>3. ManagerType'
      BY <2>2 DEF Identity, AfterIdentity, Signature, ManagerType, RuntimeType, WorldType,
          Configs, PayloadInv, InterfacesInv
    <3>4. RuntimeType'
      BY <2>2 DEF Identity, AfterIdentity, Signature, RuntimeType, ManagerType, WorldType,
          Configs, PayloadInv, InterfacesInv
    <3>5. PayloadInv'
      BY <2>2 DEF Identity, AfterIdentity, Signature, PayloadInv
    <3>6. InterfacesInv'
      BY <2>2 DEF Identity, AfterIdentity, Signature, InterfacesInv
    <3> QED
      BY <2>h, <3>1, <3>2, <3>3, <3>4, <3>5, <3>6
  <2>3. CASE NoPayload
    <3>1. WorldType'
      BY <2>3 DEF NoPayload, StopSmbd, SmbdIsDown, Fails, BothFail, Succeeds, WorldType
    <3>2. PassType'
      BY <2>3 DEF NoPayload, StopSmbd, SmbdIsDown, PassType, PCs, Statuses
    <3>3. ManagerType'
      BY <2>3 DEF NoPayload, StopSmbd, SmbdIsDown, ManagerType, RuntimeType, WorldType,
          Configs, PayloadInv, InterfacesInv
    <3>4. RuntimeType'
      BY <2>3 DEF NoPayload, StopSmbd, SmbdIsDown, RuntimeType, ManagerType, WorldType,
          Configs, PayloadInv, InterfacesInv
    <3>5. PayloadInv'
      BY <2>3 DEF NoPayload, StopSmbd, SmbdIsDown, PayloadInv
    <3>6. InterfacesInv'
      BY <2>3 DEF NoPayload, StopSmbd, SmbdIsDown, InterfacesInv
    <3> QED
      BY <2>h, <3>1, <3>2, <3>3, <3>4, <3>5, <3>6
  <2>4. CASE Stage
    <3>1. WorldType'
      BY <2>4 DEF Stage, StageUnchanged, StageCopies, StageFails, SmbdIsDown, Fails,
          BothFail, Succeeds, WorldType
    <3>2. PassType'
      BY <2>4 DEF Stage, StageUnchanged, StageCopies, StageFails, SmbdIsDown, PassType, PCs,
          Statuses
    <3>3. ManagerType'
      BY <2>4 DEF Stage, StageUnchanged, StageCopies, StageFails, SmbdIsDown, ManagerType,
          RuntimeType, WorldType, Configs, PayloadInv, InterfacesInv
    <3>a. PayloadOf[runtime] \in Payloads
      BY <2>4 DEF Stage, PayloadInv, ManagerType
    <3>4. RuntimeType'
      BY <2>4, <3>a DEF Stage, StageUnchanged, StageCopies, StageFails, SmbdIsDown,
          RuntimeType, ManagerType
    <3>5. PayloadInv'
      BY <2>4 DEF Stage, StageUnchanged, StageCopies, StageFails, SmbdIsDown, PayloadInv
    <3>6. InterfacesInv'
      BY <2>4 DEF Stage, StageUnchanged, StageCopies, StageFails, SmbdIsDown, InterfacesInv
    <3> QED
      BY <2>h, <3>1, <3>2, <3>3, <3>4, <3>5, <3>6
  <2>5. CASE Bind
    <3>1. WorldType'
      BY <2>5 DEF Bind, BindUnchanged, BindChanges, BindFails, StepFails, Sleep, Fails,
          BothFail, Succeeds, WorldType
    <3>2. PassType'
      BY <2>5 DEF Bind, BindUnchanged, BindChanges, BindFails, StepFails, Sleep, PassType,
          PCs, Statuses
    <3>3. ManagerType'
      BY <2>5 DEF Bind, BindUnchanged, BindChanges, BindFails, StepFails, Sleep,
          ManagerType, RuntimeType, WorldType, Configs, PayloadInv, InterfacesInv
    <3>4. RuntimeType'
      BY <2>5 DEF Bind, BindUnchanged, BindChanges, BindFails, StepFails, Sleep,
          RuntimeType, ManagerType, WorldType, Configs, PayloadInv, InterfacesInv
    <3>5. PayloadInv'
      BY <2>5 DEF Bind, BindUnchanged, BindChanges, BindFails, StepFails, Sleep, PayloadInv
    <3>6. InterfacesInv'
      BY <2>5 DEF Bind, BindUnchanged, BindChanges, BindFails, StepFails, Sleep,
          InterfacesInv
    <3> QED
      BY <2>h, <3>1, <3>2, <3>3, <3>4, <3>5, <3>6
  <2>6. CASE Render
    <3>1. WorldType'
      BY <2>6 DEF Render, RenderUnchanged, RenderWrites, RenderFails, RenderNeeded,
          RestoreBind, StepFails, Sleep, Fails, BothFail, Succeeds, WorldType
    <3>2. PassType'
      BY <2>6 DEF Render, RenderUnchanged, RenderWrites, RenderFails, RenderNeeded,
          RestoreBind, StepFails, Sleep, PassType, PCs, Statuses
    <3>3. ManagerType'
      BY <2>6 DEF Render, RenderUnchanged, RenderWrites, RenderFails, RenderNeeded,
          RestoreBind, StepFails, Sleep, Wanted, Signature, ManagerType, RuntimeType,
          WorldType, Configs, PayloadInv, InterfacesInv
    <3>4. RuntimeType'
      BY <2>6 DEF Render, RenderUnchanged, RenderWrites, RenderFails, RenderNeeded,
          RestoreBind, StepFails, Sleep, Wanted, Signature, RuntimeType, ManagerType,
          WorldType, Configs, PayloadInv, InterfacesInv
    <3>5. PayloadInv'
      BY <2>6 DEF Render, RenderUnchanged, RenderWrites, RenderFails, RenderNeeded,
          RestoreBind, StepFails, Sleep, PayloadInv
    <3>6. InterfacesInv'
      BY <2>6 DEF Render, RenderUnchanged, RenderWrites, RenderFails, RenderNeeded,
          RestoreBind, StepFails, Sleep, InterfacesInv
    <3> QED
      BY <2>h, <3>1, <3>2, <3>3, <3>4, <3>5, <3>6
  <2>7. CASE Apply
    <3>1. WorldType'
      BY <2>7 DEF Apply, ApplyRestart, ApplyReload, ApplyStart, Commit, StepsDone,
          StepFails, Sleep, StopSmbd, SmbdIsDown, Fails, BothFail, Succeeds, WorldType
    <3>2. PassType'
      BY <2>7 DEF Apply, ApplyRestart, ApplyReload, ApplyStart, Commit, StepsDone,
          StepFails, Sleep, StopSmbd, SmbdIsDown, PassType, PCs, Statuses
    <3>3. ManagerType'
      BY <2>7 DEF Apply, ApplyRestart, ApplyReload, ApplyStart, Commit, StepsDone,
          StepFails, Sleep, StopSmbd, SmbdIsDown, ManagerType, RuntimeType, WorldType,
          Configs, PayloadInv, InterfacesInv
    <3>4. RuntimeType'
      BY <2>7 DEF Apply, ApplyRestart, ApplyReload, ApplyStart, Commit, StepsDone,
          StepFails, Sleep, StopSmbd, SmbdIsDown, RuntimeType, ManagerType, WorldType,
          Configs, PayloadInv, InterfacesInv
    <3>5. PayloadInv'
      BY <2>7 DEF Apply, ApplyRestart, ApplyReload, ApplyStart, Commit, StepsDone,
          StepFails, Sleep, StopSmbd, SmbdIsDown, PayloadInv
    <3>6. InterfacesInv'
      BY <2>7 DEF Apply, ApplyRestart, ApplyReload, ApplyStart, Commit, StepsDone,
          StepFails, Sleep, StopSmbd, SmbdIsDown, InterfacesInv
    <3> QED
      BY <2>h, <3>1, <3>2, <3>3, <3>4, <3>5, <3>6
  <2>8. CASE Start
    <3>1. WorldType'
      BY <2>8 DEF Start, AlreadyServing, StopUnbound, LaunchSmbd, Commit, StepsDone,
          StepFails, Sleep, StopSmbd, SmbdIsDown, Fails, BothFail, Succeeds, WorldType
    <3>2. PassType'
      BY <2>8 DEF Start, AlreadyServing, StopUnbound, LaunchSmbd, Commit, StepsDone,
          StepFails, Sleep, StopSmbd, SmbdIsDown, PassType, PCs, Statuses
    <3>3. ManagerType'
      BY <2>8 DEF Start, AlreadyServing, StopUnbound, LaunchSmbd, Commit, StepsDone,
          StepFails, Sleep, StopSmbd, SmbdIsDown, ManagerType, RuntimeType, WorldType,
          Configs, PayloadInv, InterfacesInv
    <3>4. RuntimeType'
      BY <2>8 DEF Start, AlreadyServing, StopUnbound, LaunchSmbd, Commit, StepsDone,
          StepFails, Sleep, StopSmbd, SmbdIsDown, RuntimeType, ManagerType, WorldType,
          Configs, PayloadInv, InterfacesInv
    <3>5. PayloadInv'
      BY <2>8 DEF Start, AlreadyServing, StopUnbound, LaunchSmbd, Commit, StepsDone,
          StepFails, Sleep, StopSmbd, SmbdIsDown, PayloadInv
    <3>6. InterfacesInv'
      BY <2>8 DEF Start, AlreadyServing, StopUnbound, LaunchSmbd, Commit, StepsDone,
          StepFails, Sleep, StopSmbd, SmbdIsDown, InterfacesInv
    <3> QED
      BY <2>h, <3>1, <3>2, <3>3, <3>4, <3>5, <3>6
  <2>9. CASE OtherServices
    <3>1. WorldType'
      BY <2>9 DEF OtherServices, Sleep, Fails, BothFail, Succeeds, WorldType
    <3>2. PassType'
      BY <2>9 DEF OtherServices, Sleep, PassType, PCs, Statuses
    <3>3. ManagerType'
      BY <2>9 DEF OtherServices, Sleep, ManagerType, RuntimeType, WorldType, Configs,
          PayloadInv, InterfacesInv
    <3>4. RuntimeType'
      BY <2>9 DEF OtherServices, Sleep, RuntimeType, ManagerType, WorldType, Configs,
          PayloadInv, InterfacesInv
    <3>5. PayloadInv'
      BY <2>9 DEF OtherServices, Sleep, PayloadInv
    <3>6. InterfacesInv'
      BY <2>9 DEF OtherServices, Sleep, InterfacesInv
    <3> QED
      BY <2>h, <3>1, <3>2, <3>3, <3>4, <3>5, <3>6
  <2>10. CASE Environment
    <3>1. WorldType'
      BY <2>10 DEF Environment, DiskChanges, AddressChanges, NameChanges, SmbdDies,
          SmbdLosesListeners, SmbdIsDown, EnvStep, WorldType
    <3>2. PassType'
      BY <2>10 DEF Environment, DiskChanges, AddressChanges, NameChanges, SmbdDies,
          SmbdLosesListeners, SmbdIsDown, EnvStep, PassType, PCs, Statuses
    <3>3. ManagerType'
      BY <2>10 DEF Environment, DiskChanges, AddressChanges, NameChanges, SmbdDies,
          SmbdLosesListeners, SmbdIsDown, EnvStep, ManagerType, RuntimeType, WorldType,
          Configs, PayloadInv, InterfacesInv
    <3>4. RuntimeType'
      BY <2>10 DEF Environment, DiskChanges, AddressChanges, NameChanges, SmbdDies,
          SmbdLosesListeners, SmbdIsDown, EnvStep, RuntimeType, ManagerType, WorldType,
          Configs, PayloadInv, InterfacesInv
    <3>5. PayloadInv'
      BY <2>10 DEF Environment, DiskChanges, AddressChanges, NameChanges, SmbdDies,
          SmbdLosesListeners, SmbdIsDown, EnvStep, PayloadInv
    <3>6. InterfacesInv'
      BY <2>10 DEF Environment, DiskChanges, AddressChanges, NameChanges, SmbdDies,
          SmbdLosesListeners, SmbdIsDown, EnvStep, InterfacesInv
    <3> QED
      BY <2>h, <3>1, <3>2, <3>3, <3>4, <3>5, <3>6
  <2>11. CASE UNCHANGED vars
    <3>1. WorldType'
      BY <2>11 DEF vars, WorldType
    <3>2. PassType'
      BY <2>11 DEF vars, PassType, PCs, Statuses
    <3>3. ManagerType'
      BY <2>11 DEF vars, ManagerType, RuntimeType, WorldType, Configs, PayloadInv,
          InterfacesInv
    <3>4. RuntimeType'
      BY <2>11 DEF vars, RuntimeType, ManagerType, WorldType, Configs, PayloadInv,
          InterfacesInv
    <3>5. PayloadInv'
      BY <2>11 DEF vars, PayloadInv
    <3>6. InterfacesInv'
      BY <2>11 DEF vars, InterfacesInv
    <3> QED
      BY <2>h, <3>1, <3>2, <3>3, <3>4, <3>5, <3>6
  <2> QED
    BY <2>1, <2>2, <2>3, <2>4, <2>5, <2>6, <2>7, <2>8, <2>9, <2>10, <2>11 DEF Next, Manager
<1> QED
  BY <1>1, <1>2, PTL DEF Spec

\* The manager's state keeps its types: no signature is ever built from a missing
\* payload or from missing interfaces.
THEOREM TypeCorrect == Spec => []TypeOK
<1>1. TypedInv => TypeOK
  BY DEF TypedInv
<1> QED
  BY <1>1, Typed, PTL

-----------------------------------------------------------------------------
(* Commits: a configuration is remembered as applied once smbd has it.     *)

\* From the rendering on, a pass holds exactly the configuration it wants.
LEMMA Pending == Spec => []PendingInv
<1>1. Init => PendingInv
  BY DEF Init, PendingInv
<1>2. TypedInv /\ PendingInv /\ [Next]_vars => PendingInv'
  <2> SUFFICES ASSUME TypedInv, PendingInv, [Next]_vars
               PROVE  PendingInv'
    OBVIOUS
  <2> USE DEF world, failures, bounds, schedule, status, identity, staging, flags, binding, smbd
  <2>1. CASE DiskStep
    BY <2>1 DEF DiskStep, Sleep, PendingInv, Wanted
  <2>2. CASE Identity
    BY <2>2 DEF Identity, AfterIdentity, Signature, PendingInv, Wanted
  <2>3. CASE NoPayload
    BY <2>3 DEF NoPayload, StopSmbd, SmbdIsDown, PendingInv, Wanted
  <2>4. CASE Stage
    BY <2>4 DEF Stage, StageUnchanged, StageCopies, StageFails, SmbdIsDown, PendingInv,
        Wanted
  <2>5. CASE Bind
    BY <2>5 DEF Bind, BindUnchanged, BindChanges, BindFails, StepFails, Sleep, PendingInv,
        Wanted
  <2>6. CASE Render
    <3>1. bind # None => Wanted \in Configs /\ Wanted # None
      BY <2>6, ManagerSambaAssumption DEF Render, TypedInv, TypeOK, ManagerType, PayloadInv,
          Wanted, Signature, Configs, OrNone
    <3> QED
      BY <3>1, <2>6 DEF Render, RenderUnchanged, RenderWrites, RenderFails, RenderNeeded,
        RestoreBind, StepFails, Sleep, PendingInv, Wanted
  <2>7. CASE Apply
    BY <2>7 DEF Apply, ApplyRestart, ApplyReload, ApplyStart, Commit, StepsDone, StepFails,
        Sleep, StopSmbd, SmbdIsDown, PendingInv, Wanted
  <2>8. CASE Start
    BY <2>8 DEF Start, AlreadyServing, StopUnbound, LaunchSmbd, Commit, StepsDone,
        StepFails, Sleep, StopSmbd, SmbdIsDown, PendingInv, Wanted
  <2>9. CASE OtherServices
    BY <2>9 DEF OtherServices, Sleep, PendingInv, Wanted
  <2>10. CASE Environment
    BY <2>10 DEF Environment, DiskChanges, AddressChanges, NameChanges, SmbdDies,
        SmbdLosesListeners, SmbdIsDown, EnvStep, PendingInv, Wanted
  <2>11. CASE UNCHANGED vars
    BY <2>11 DEF vars, PendingInv, Wanted
  <2> QED
    BY <2>1, <2>2, <2>3, <2>4, <2>5, <2>6, <2>7, <2>8, <2>9, <2>10, <2>11 DEF Next, Manager
<1> QED
  BY <1>1, <1>2, Typed, PTL DEF Spec

\* A pending configuration is committed only by the step that makes smbd load it.
LEMMA Load == Spec => []LoadInv
<1>1. Init => LoadInv
  BY DEF Init, LoadInv
<1>2. PendingInv /\ TypeOK /\ LoadInv /\ [Next]_vars => LoadInv'
  <2> SUFFICES ASSUME PendingInv, TypeOK, LoadInv, [Next]_vars
               PROVE  LoadInv'
    OBVIOUS
  <2> USE DEF world, failures, bounds, schedule, status, identity, staging, flags, binding, smbd
  <2> USE DEF TypeOK, PassType, RuntimeType
  <2>1. CASE DiskStep
    BY <2>1 DEF DiskStep, Sleep, LoadInv, PendingInv
  <2>2. CASE Identity
    BY <2>2 DEF Identity, AfterIdentity, Signature, LoadInv, PendingInv
  <2>3. CASE NoPayload
    BY <2>3 DEF NoPayload, StopSmbd, SmbdIsDown, LoadInv, PendingInv
  <2>4. CASE Stage
    BY <2>4 DEF Stage, StageUnchanged, StageCopies, StageFails, SmbdIsDown, LoadInv,
        PendingInv
  <2>5. CASE Bind
    BY <2>5 DEF Bind, BindUnchanged, BindChanges, BindFails, StepFails, Sleep, LoadInv,
        PendingInv
  <2>6. CASE Render
    BY <2>6 DEF Render, RenderUnchanged, RenderWrites, RenderFails, RenderNeeded,
        RestoreBind, StepFails, Sleep, LoadInv, PendingInv
  <2>7. CASE Apply
    BY <2>7 DEF Apply, ApplyRestart, ApplyReload, ApplyStart, Commit, StepsDone, StepFails,
        Sleep, StopSmbd, SmbdIsDown, LoadInv, PendingInv
  <2>8. CASE Start
    BY <2>8 DEF Start, AlreadyServing, StopUnbound, LaunchSmbd, Commit, StepsDone,
        StepFails, Sleep, StopSmbd, SmbdIsDown, LoadInv, PendingInv
  <2>9. CASE OtherServices
    BY <2>9 DEF OtherServices, Sleep, LoadInv, PendingInv
  <2>10. CASE Environment
    BY <2>10 DEF Environment, DiskChanges, AddressChanges, NameChanges, SmbdDies,
        SmbdLosesListeners, SmbdIsDown, EnvStep, LoadInv, PendingInv
  <2>11. CASE UNCHANGED vars
    BY <2>11 DEF vars, LoadInv, PendingInv
  <2> QED
    BY <2>1, <2>2, <2>3, <2>4, <2>5, <2>6, <2>7, <2>8, <2>9, <2>10, <2>11 DEF Next, Manager
<1> QED
  BY <1>1, <1>2, Pending, TypeCorrect, PTL DEF Spec

\* tc_manager_commit_smbd_runtime_apply and the identity step record a signature
\* only after a running smbd has loaded that very configuration, whatever fails.
THEOREM CommitsLoaded == Spec => CommitsAreLoaded
<1>1. PendingInv /\ LoadInv /\ [Next]_vars
        => [lastConfig' \notin {lastConfig, None} /\ up' => smbdConf' = lastConfig']_vars
  <2> SUFFICES ASSUME PendingInv, LoadInv, [Next]_vars,
                      lastConfig' \notin {lastConfig, None}, up'
               PROVE  smbdConf' = lastConfig'
    OBVIOUS
  <2> USE DEF world, failures, bounds, schedule, status, identity, staging, flags, binding, smbd
  <2>1. CASE DiskStep
    BY <2>1 DEF DiskStep, Sleep, PendingInv, LoadInv
  <2>2. CASE Identity
    BY <2>2 DEF Identity, AfterIdentity, Signature, PendingInv, LoadInv
  <2>3. CASE NoPayload
    BY <2>3 DEF NoPayload, StopSmbd, SmbdIsDown, PendingInv, LoadInv
  <2>4. CASE Stage
    BY <2>4 DEF Stage, StageUnchanged, StageCopies, StageFails, SmbdIsDown, PendingInv,
        LoadInv
  <2>5. CASE Bind
    BY <2>5 DEF Bind, BindUnchanged, BindChanges, BindFails, StepFails, Sleep, PendingInv,
        LoadInv
  <2>6. CASE Render
    BY <2>6 DEF Render, RenderUnchanged, RenderWrites, RenderFails, RenderNeeded,
        RestoreBind, StepFails, Sleep, PendingInv, LoadInv
  <2>7. CASE Apply
    BY <2>7 DEF Apply, ApplyRestart, ApplyReload, ApplyStart, Commit, StepsDone, StepFails,
        Sleep, StopSmbd, SmbdIsDown, PendingInv, LoadInv
  <2>8. CASE Start
    BY <2>8 DEF Start, AlreadyServing, StopUnbound, LaunchSmbd, Commit, StepsDone,
        StepFails, Sleep, StopSmbd, SmbdIsDown, PendingInv, LoadInv
  <2>9. CASE OtherServices
    BY <2>9 DEF OtherServices, Sleep, PendingInv, LoadInv
  <2>10. CASE Environment
    BY <2>10 DEF Environment, DiskChanges, AddressChanges, NameChanges, SmbdDies,
        SmbdLosesListeners, SmbdIsDown, EnvStep, PendingInv, LoadInv
  <2>11. CASE UNCHANGED vars
    BY <2>11 DEF vars, PendingInv, LoadInv
  <2> QED
    BY <2>1, <2>2, <2>3, <2>4, <2>5, <2>6, <2>7, <2>8, <2>9, <2>10, <2>11 DEF Next, Manager
<1> QED
  BY <1>1, Pending, Load, PTL DEF Spec, CommitsAreLoaded

-----------------------------------------------------------------------------
(* The interfaces.                                                         *)

\* RenderedInv, the strengthening of BindIsRendered, is inductive.
LEMMA Rendered == Spec => []RenderedInv
<1>1. Init => RenderedInv
  BY DEF Init, RenderedInv
<1>2. PendingInv /\ RenderedInv /\ [Next]_vars => RenderedInv'
  <2> SUFFICES ASSUME PendingInv, RenderedInv, [Next]_vars
               PROVE  RenderedInv'
    OBVIOUS
  <2> USE DEF world, failures, bounds, schedule, status, identity, staging, flags, binding, smbd
  <2>1. CASE DiskStep
    BY <2>1 DEF DiskStep, Sleep, RenderedInv, PendingInv, Wanted, Signature
  <2>2. CASE Identity
    BY <2>2 DEF Identity, AfterIdentity, Signature, RenderedInv, PendingInv, Wanted,
        Signature
  <2>3. CASE NoPayload
    BY <2>3 DEF NoPayload, StopSmbd, SmbdIsDown, RenderedInv, PendingInv, Wanted, Signature
  <2>4. CASE Stage
    BY <2>4 DEF Stage, StageUnchanged, StageCopies, StageFails, SmbdIsDown, RenderedInv,
        PendingInv, Wanted, Signature
  <2>5. CASE Bind
    BY <2>5 DEF Bind, BindUnchanged, BindChanges, BindFails, StepFails, Sleep, RenderedInv,
        PendingInv, Wanted, Signature
  <2>6. CASE Render
    <3>1. CASE RenderUnchanged
      BY <2>6, <3>1 DEF Render, RenderUnchanged, RenderNeeded, RenderedInv, Wanted, Signature
    <3>2. CASE RenderWrites
      BY <2>6, <3>2 DEF Render, RenderWrites, RenderedInv, Wanted, Signature
    <3>3. CASE RenderFails /\ bindChanged
      BY <2>6, <3>3 DEF Render, RenderFails, RestoreBind, StepFails, Sleep, RenderedInv
    <3>4. CASE RenderFails /\ ~bindChanged
      BY <2>6, <3>4 DEF Render, RenderFails, RestoreBind, StepFails, Sleep, RenderedInv
    <3> QED
      BY <2>6, <3>1, <3>2, <3>3, <3>4 DEF Render
  <2>7. CASE Apply
    BY <2>7 DEF Apply, ApplyRestart, ApplyReload, ApplyStart, Commit, StepsDone, StepFails,
        Sleep, StopSmbd, SmbdIsDown, RenderedInv, PendingInv, Wanted, Signature
  <2>8. CASE Start
    BY <2>8 DEF Start, AlreadyServing, StopUnbound, LaunchSmbd, Commit, StepsDone,
        StepFails, Sleep, StopSmbd, SmbdIsDown, RenderedInv, PendingInv, Wanted, Signature
  <2>9. CASE OtherServices
    BY <2>9 DEF OtherServices, Sleep, RenderedInv, PendingInv, Wanted, Signature
  <2>10. CASE Environment
    BY <2>10 DEF Environment, DiskChanges, AddressChanges, NameChanges, SmbdDies,
        SmbdLosesListeners, SmbdIsDown, EnvStep, RenderedInv, PendingInv, Wanted, Signature
  <2>11. CASE UNCHANGED vars
    BY <2>11 DEF vars, RenderedInv, PendingInv, Wanted, Signature
  <2> QED
    BY <2>1, <2>2, <2>3, <2>4, <2>5, <2>6, <2>7, <2>8, <2>9, <2>10, <2>11 DEF Next, Manager
<1> QED
  BY <1>1, <1>2, Pending, PTL DEF Spec

\* A bind change that was not rendered is given up again
\* (tc_manager_restore_smb_bind_after_config_failure), so that it is found again.
THEOREM BindRendered == Spec => []BindIsRendered
<1>1. RenderedInv => BindIsRendered
  BY DEF RenderedInv, BindIsRendered
<1> QED
  BY <1>1, Rendered, PTL

-----------------------------------------------------------------------------
(* What samba=ok in the pass summary means.                                *)

\* The status is ok only between the end of a pass and the next one, and nothing
\* in between touches what was applied.
LEMMA Ok == Spec => []OkInv
<1>1. Init => OkInv
  BY DEF Init, OkInv
<1>2. TypedInv /\ PendingInv /\ OkInv /\ [Next]_vars => OkInv'
  <2> SUFFICES ASSUME TypedInv, PendingInv, OkInv, [Next]_vars
               PROVE  OkInv'
    OBVIOUS
  <2> USE DEF world, failures, bounds, schedule, status, identity, staging, flags, binding, smbd
  <2>1. CASE DiskStep
    BY <2>1 DEF DiskStep, Sleep, OkInv, PendingInv, TypedInv, PayloadInv, Wanted
  <2>2. CASE Identity
    BY <2>2 DEF Identity, AfterIdentity, Signature, OkInv, PendingInv, TypedInv, PayloadInv, Wanted
  <2>3. CASE NoPayload
    BY <2>3 DEF NoPayload, StopSmbd, SmbdIsDown, OkInv, PendingInv, TypedInv, PayloadInv, Wanted
  <2>4. CASE Stage
    BY <2>4 DEF Stage, StageUnchanged, StageCopies, StageFails, SmbdIsDown, OkInv,
        PendingInv, TypedInv, PayloadInv, Wanted
  <2>5. CASE Bind
    BY <2>5 DEF Bind, BindUnchanged, BindChanges, BindFails, StepFails, Sleep, OkInv,
        PendingInv, TypedInv, PayloadInv, Wanted
  <2>6. CASE Render
    BY <2>6 DEF Render, RenderUnchanged, RenderWrites, RenderFails, RenderNeeded,
        RestoreBind, StepFails, Sleep, OkInv, PendingInv, TypedInv, PayloadInv, Wanted
  <2>7. CASE Apply
    BY <2>7 DEF Apply, ApplyRestart, ApplyReload, ApplyStart, Commit, StepsDone, StepFails,
        Sleep, StopSmbd, SmbdIsDown, OkInv, PendingInv, TypedInv, PayloadInv, Wanted
  <2>8. CASE Start
    BY <2>8 DEF Start, AlreadyServing, StopUnbound, LaunchSmbd, Commit, StepsDone,
        StepFails, Sleep, StopSmbd, SmbdIsDown, OkInv, PendingInv, TypedInv, PayloadInv, Wanted
  <2>9. CASE OtherServices
    BY <2>9 DEF OtherServices, Sleep, OkInv, PendingInv, TypedInv, PayloadInv, Wanted
  <2>10. CASE Environment
    BY <2>10 DEF Environment, DiskChanges, AddressChanges, NameChanges, SmbdDies,
        SmbdLosesListeners, SmbdIsDown, EnvStep, OkInv, PendingInv, TypedInv, PayloadInv, Wanted
  <2>11. CASE UNCHANGED vars
    BY <2>11 DEF vars, OkInv, PendingInv, TypedInv, PayloadInv, Wanted
  <2> QED
    BY <2>1, <2>2, <2>3, <2>4, <2>5, <2>6, <2>7, <2>8, <2>9, <2>10, <2>11 DEF Next, Manager
<1> QED
  BY <1>1, <1>2, Pending, Typed, PTL DEF Spec

\* After tc_manager_run_samba_full_step returned 0, the last applied signature is
\* that of the published runtime, the current interfaces and the current names.
THEOREM OkCommitted == Spec => []OkIsCommitted
<1>1. OkInv => OkIsCommitted
  BY DEF OkInv, OkIsCommitted
<1> QED
  BY <1>1, Ok, PTL

-----------------------------------------------------------------------------
(* What runs after samba=ok, and who is stopped.                           *)

\* When the calls that may fail are few, the others succeed.
LEMMA TheRestSucceed ==
    ASSUME RestartsGoThrough
    PROVE  /\ \A call \in {"stage", "reset", "probe", "validateBind", "validate", "render", "stop", "start"} :
                 ~Fails(call)
           /\ ~BothFail("stage", "reset") /\ ~BothFail("reload", "stop") /\ ~BothFail("start", "stop")
BY DEF RestartsGoThrough, Fails, BothFail

\* Signatures are configurations, told apart by their three parts.
LEMMA SignatureIs ==
    ASSUME NEW r, NEW b, NEW n
    PROVE  /\ Signature(r, b, n).runtime = r /\ Signature(r, b, n).bind = b /\ Signature(r, b, n).name = n
           /\ \A c \in Configs : c.runtime = r /\ c.bind = b /\ c.name = n => c = Signature(r, b, n)
BY DEF Signature, Configs

\* smb.conf is the configuration applied last, or rendered anew.
LEMMA KeepsConf ==
    ASSUME RestartsGoThrough, TypedInv, PendingInv, LoadInv, OkInv, ServedInv, [Next]_vars
    PROVE  ConfInv'
<1> USE DEF world, failures, bounds, schedule, status, identity, staging, flags, binding, smbd
<1>a. /\ ~Fails("stage") /\ ~Fails("reset") /\ ~Fails("probe") /\ ~Fails("validateBind") /\ ~Fails("validate")
      /\ ~Fails("render") /\ ~Fails("stop") /\ ~Fails("start")
      /\ ~BothFail("stage", "reset") /\ ~BothFail("reload", "stop") /\ ~BothFail("start", "stop")
  BY TheRestSucceed
<1>b. /\ conf \in OrNone(Configs) /\ lastConfig \in OrNone(Configs) /\ pending \in OrNone(Configs)
      /\ Wanted.runtime = runtime /\ Wanted.bind = bind /\ Wanted.name = name
  BY SignatureIs DEF TypedInv, TypeOK, ManagerType, RuntimeType, Wanted
<1> USE DEF ConfInv, ConfIsApplied, BinaryInv, SmbdInv, ServedInv, PendingInv, LoadInv, OkInv
<1>1. CASE DiskStep
  BY <1>a, <1>b, <1>1 DEF DiskStep, Sleep, SambaRuntimeReady, Wanted
<1>2. CASE Identity
  <2>1. /\ UNCHANGED <<full, bind, runtime, bindChanged>> /\ pc' \in {"noPayload", "stage"}
        /\ pc = "identity"
    BY <1>2 DEF Identity, AfterIdentity
  <2>2. CASE UNCHANGED <<conf, lastConfig>>
    BY <2>1, <2>2
  <2>3. CASE conf' = Signature(runtime, bind, sysName) /\ lastConfig' = conf'
    BY <2>1, <2>3, SignatureIs
  <2>4. CASE conf # None /\ name' = sysName /\ conf' = Signature(runtime, bind, sysName) /\ UNCHANGED lastConfig
    <3>1. lastConfig # None => lastConfig \in Configs /\ lastConfig.bind = bind
      BY <1>b, <2>1, <2>4 DEF OrNone
    <3>2. lastConfig # None => lastConfig = conf' \/ lastConfig.runtime # runtime \/ lastConfig.name # sysName
      BY <2>4, <3>1, SignatureIs
    <3>3. conf'.bind = bind
      BY <2>4, SignatureIs
    <3> QED
      BY <2>1, <2>4, <3>2, <3>3
  <2> QED
    BY <1>2, <2>2, <2>3, <2>4 DEF Identity
<1>3. CASE NoPayload
  BY <1>a, <1>b, <1>3 DEF NoPayload, StopSmbd, SmbdIsDown, Wanted
<1>4. CASE Stage
  <2>1. UNCHANGED <<full, runtime, name, bind, bindChanged>> /\ pc = "stage"
    BY <1>4 DEF Stage
  <2>2. UNCHANGED <<conf, lastConfig>> /\ pc' = "bind"
    BY <1>a, <1>4 DEF Stage, StageUnchanged, StageCopies, StageFails
  <2> QED
    BY <2>1, <2>2
<1>5. CASE Bind
  <2>1. UNCHANGED <<full, conf, lastConfig, runtime, name>> /\ pc = "bind" /\ pending = None
    BY <1>5 DEF Bind
  <2>2. CASE BindUnchanged
    <3>1. UNCHANGED <<bind, full>> /\ ~bindChanged' /\ ((full /\ pc' = "render") \/ (~full /\ pc' = "idle"))
      BY <1>5, <2>2 DEF BindUnchanged, Sleep, Bind
    <3> QED
      BY <2>1, <3>1
  <2>3. CASE BindChanges
    BY <2>1, <2>3 DEF BindChanges
  <2> QED
    BY <1>a, <1>5, <2>2, <2>3 DEF Bind, BindFails
<1>6. CASE Render
  <2>1. UNCHANGED <<lastConfig, runtime, name>> /\ pc = "render" /\ runtime # None
    BY <1>6 DEF Render, TypedInv, PayloadInv
  <2>2. CASE RenderUnchanged
    <3>1. conf = lastConfig /\ lastConfig = Wanted /\ conf # None /\ lastConfig # None
      <4>1. Wanted = lastConfig /\ conf # None /\ bind # None
        BY <2>2 DEF RenderUnchanged, RenderNeeded, TypedInv, InterfacesInv
      <4>2. Wanted \in Configs
        BY <2>1, <4>1 DEF Wanted, Signature, Configs, TypedInv, TypeOK, ManagerType, OrNone
      <4>3. lastConfig # None
        BY <4>1, <4>2, ManagerSambaAssumption
      <4> QED
        BY <1>b, <2>1, <4>1, <4>3
    <3>2. UNCHANGED <<conf, bind>> /\ pc' = "apply" /\ Wanted' = Wanted
      BY <2>1, <2>2 DEF RenderUnchanged, Wanted
    <3> QED
      BY <1>b, <3>1, <3>2
  <2>3. CASE RenderWrites
    BY <1>b, <2>1, <2>3 DEF RenderWrites, Wanted
  <2>4. CASE RenderFails
    <3>1. bind = None /\ conf = None
      BY <1>a, <2>4 DEF RenderFails, TypedInv, InterfacesInv
    <3> QED
      BY <2>1, <2>4, <3>1 DEF RenderFails, StepFails, Sleep
  <2> QED
    BY <1>6, <2>2, <2>3, <2>4 DEF Render
<1>7. CASE Apply
  BY <1>a, <1>b, <1>7 DEF Apply, ApplyRestart, ApplyReload, ApplyStart, Commit, StepsDone, StepFails, Sleep, StopSmbd, SmbdIsDown, Wanted
<1>8. CASE Start
  BY <1>a, <1>b, <1>8 DEF Start, AlreadyServing, StopUnbound, LaunchSmbd, Commit, StepsDone, StepFails, Sleep, StopSmbd, SmbdIsDown, Wanted
<1>9. CASE OtherServices
  BY <1>a, <1>b, <1>9 DEF OtherServices, Sleep, Wanted
<1>10. CASE Environment
  BY <1>a, <1>b, <1>10 DEF Environment, DiskChanges, AddressChanges, NameChanges, SmbdDies, SmbdLosesListeners, SmbdIsDown, EnvStep, Wanted
<1>11. CASE UNCHANGED vars
  BY <1>a, <1>b, <1>11 DEF vars, Wanted
<1> QED
  BY <1>1, <1>2, <1>3, <1>4, <1>5, <1>6, <1>7, <1>8, <1>9, <1>10, <1>11 DEF Next, Manager

\* The binary in RAM is the one the pass wants.
LEMMA KeepsBinary ==
    ASSUME RestartsGoThrough, TypedInv, PendingInv, LoadInv, OkInv, ServedInv, [Next]_vars
    PROVE  BinaryInv'
<1> USE DEF world, failures, bounds, schedule, status, identity, staging, flags, binding, smbd
<1>a. /\ ~Fails("stage") /\ ~Fails("reset") /\ ~Fails("probe") /\ ~Fails("validateBind") /\ ~Fails("validate")
      /\ ~Fails("render") /\ ~Fails("stop") /\ ~Fails("start")
      /\ ~BothFail("stage", "reset") /\ ~BothFail("reload", "stop") /\ ~BothFail("start", "stop")
  BY TheRestSucceed
<1>b. /\ conf \in OrNone(Configs) /\ lastConfig \in OrNone(Configs) /\ pending \in OrNone(Configs)
      /\ Wanted.runtime = runtime /\ Wanted.bind = bind /\ Wanted.name = name
  BY SignatureIs DEF TypedInv, TypeOK, ManagerType, RuntimeType, Wanted
<1> USE DEF ConfInv, ConfIsApplied, BinaryInv, SmbdInv, ServedInv, PendingInv, LoadInv, OkInv
<1>1. CASE DiskStep
  BY <1>a, <1>b, <1>1 DEF DiskStep, Sleep, SambaRuntimeReady, Wanted
<1>2. CASE Identity
  BY <1>a, <1>b, <1>2 DEF Identity, AfterIdentity, Wanted
<1>3. CASE NoPayload
  BY <1>a, <1>b, <1>3 DEF NoPayload, StopSmbd, SmbdIsDown, Wanted
<1>4. CASE Stage
  BY <1>a, <1>b, <1>4 DEF Stage, StageUnchanged, StageCopies, StageFails, StageNeeded, BinaryChanged, SmbdIsDown, Wanted
<1>5. CASE Bind
  BY <1>a, <1>b, <1>5 DEF Bind, BindUnchanged, BindChanges, BindFails, StepFails, Sleep, Wanted
<1>6. CASE Render
  BY <1>a, <1>b, <1>6 DEF Render, RenderUnchanged, RenderWrites, RenderFails, RenderNeeded, RestoreBind, StepFails, Sleep, Wanted
<1>7. CASE Apply
  BY <1>a, <1>b, <1>7 DEF Apply, ApplyRestart, ApplyReload, ApplyStart, Commit, StepsDone, StepFails, Sleep, StopSmbd, SmbdIsDown, Wanted
<1>8. CASE Start
  BY <1>a, <1>b, <1>8 DEF Start, AlreadyServing, StopUnbound, LaunchSmbd, Commit, StepsDone, StepFails, Sleep, StopSmbd, SmbdIsDown, Wanted
<1>9. CASE OtherServices
  BY <1>a, <1>b, <1>9 DEF OtherServices, Sleep, Wanted
<1>10. CASE Environment
  BY <1>a, <1>b, <1>10 DEF Environment, DiskChanges, AddressChanges, NameChanges, SmbdDies, SmbdLosesListeners, SmbdIsDown, EnvStep, Wanted
<1>11. CASE UNCHANGED vars
  BY <1>a, <1>b, <1>11 DEF vars, Wanted
<1> QED
  BY <1>1, <1>2, <1>3, <1>4, <1>5, <1>6, <1>7, <1>8, <1>9, <1>10, <1>11 DEF Next, Manager

\* A running smbd is what the manager wants, or its end or its signal is decided.
LEMMA KeepsSmbd ==
    ASSUME RestartsGoThrough, TypedInv, PendingInv, LoadInv, OkInv, ServedInv, [Next]_vars
    PROVE  SmbdInv'
<1> USE DEF world, failures, bounds, schedule, status, identity, staging, flags, binding, smbd
<1>a. /\ ~Fails("stage") /\ ~Fails("reset") /\ ~Fails("probe") /\ ~Fails("validateBind") /\ ~Fails("validate")
      /\ ~Fails("render") /\ ~Fails("stop") /\ ~Fails("start")
      /\ ~BothFail("stage", "reset") /\ ~BothFail("reload", "stop") /\ ~BothFail("start", "stop")
  BY TheRestSucceed
<1>b. /\ conf \in OrNone(Configs) /\ lastConfig \in OrNone(Configs) /\ pending \in OrNone(Configs)
      /\ Wanted.runtime = runtime /\ Wanted.bind = bind /\ Wanted.name = name
  BY SignatureIs DEF TypedInv, TypeOK, ManagerType, RuntimeType, Wanted
<1> USE DEF ConfInv, ConfIsApplied, BinaryInv, SmbdInv, ServedInv, PendingInv, LoadInv, OkInv
<1>c. /\ conf # None /\ runtime # None => Signature(runtime, bind, sysName) # None
      /\ bind # None /\ runtime # None => Wanted # None
  <2>1. /\ conf # None => bind # None
        /\ bind \in OrNone(Addresses) /\ runtime \in OrNone(Runtimes) /\ name \in Names /\ sysName \in Names
    BY DEF TypedInv, TypeOK, WorldType, ManagerType, InterfacesInv
  <2>2. \A n \in Names : bind # None /\ runtime # None => Signature(runtime, bind, n) \in Configs
    BY <2>1 DEF OrNone, Signature, Configs
  <2> QED
    BY <2>1, <2>2, ManagerSambaAssumption DEF Wanted
<1>1. CASE DiskStep
  BY <1>a, <1>b, <1>1 DEF DiskStep, Sleep, SambaRuntimeReady, Wanted
<1>2. CASE Identity
  <2>1. /\ UNCHANGED <<full, bind, runtime, staged, binary, restart, pending, up, bound, smbdBinary, smbdBind>>
        /\ pc = "identity" /\ pc' \in {"noPayload", "stage"}
        /\ pc' = "noPayload" => runtime = None
    BY <1>2 DEF Identity, AfterIdentity
  <2>2. CASE UNCHANGED <<conf, lastConfig, smbdConf>>
    BY <2>1, <2>2
  <2>3. CASE /\ conf # None /\ runtime # None /\ conf' = Signature(runtime, bind, sysName)
             /\ lastConfig' = conf' /\ smbdConf' = IF up THEN conf' ELSE smbdConf
    <3>1. conf' # None
      BY <1>c, <2>3
    <3> QED
      BY <2>1, <2>3, <3>1
  <2>4. CASE /\ conf # None /\ runtime # None /\ conf' = Signature(runtime, bind, sysName)
             /\ UNCHANGED <<lastConfig, smbdConf>>
    <3>1. conf' # None
      BY <1>c, <2>4
    <3>2. up => smbdConf = lastConfig
      BY <2>1
    <3> QED
      BY <2>1, <2>4, <3>1, <3>2
  <2> QED
    BY <1>2, <1>a, <2>2, <2>3, <2>4 DEF Identity
<1>3. CASE NoPayload
  BY <1>a, <1>b, <1>3 DEF NoPayload, StopSmbd, SmbdIsDown, Wanted
<1>4. CASE Stage
  <2>1. UNCHANGED <<full, runtime, name, bind, conf, lastConfig, smbd>> /\ pc = "stage" /\ pc' = "bind"
    BY <1>a, <1>4 DEF Stage, StageUnchanged, StageCopies, StageFails
  <2>2. CASE StageUnchanged
    BY <2>1, <2>2 DEF StageUnchanged, StageNeeded
  <2>3. CASE StageCopies
    <3>1. up => staged /\ smbdBinary = binary /\ binary = lastBinary
      BY <2>1
    <3>2. /\ binary' = PayloadOf[runtime] /\ staged' /\ restart' = (up /\ BinaryChanged)
      BY <2>3 DEF StageCopies
    <3>3. up => (restart' <=> smbdBinary # binary')
      BY <3>1, <3>2 DEF BinaryChanged
    <3> QED
      BY <2>1, <3>2, <3>3
  <2> QED
    BY <1>4, <1>a, <2>2, <2>3 DEF Stage, StageFails
<1>5. CASE Bind
  <2>1. /\ UNCHANGED <<full, runtime, name, staged, binary, pending, conf, lastConfig, smbd>>
        /\ pc = "bind"
    BY <1>5 DEF Bind
  <2>2. CASE BindUnchanged
    <3>1. UNCHANGED <<bind, restart>> /\ ((full /\ pc' = "render") \/ (~full /\ pc' = "idle"))
      BY <1>5, <2>2 DEF BindUnchanged, Sleep, Bind
    <3> QED
      BY <2>1, <3>1
  <2>3. CASE BindChanges
    <3>1. bind' # bind /\ restart' /\ pc' = "render"
      BY <2>3 DEF BindChanges
    <3> QED
      BY <2>1, <3>1
  <2> QED
    BY <1>a, <1>5, <2>2, <2>3 DEF Bind, BindFails
<1>6. CASE Render
  <2>1. /\ UNCHANGED <<full, runtime, name, staged, binary, lastConfig, smbd>>
        /\ pc = "render"
    BY <1>6 DEF Render
  <2>2. CASE RenderUnchanged
    <3>1. UNCHANGED <<bind, restart, conf>> /\ pc' = "apply" /\ lastConfig = Wanted
      BY <2>2 DEF RenderUnchanged, RenderNeeded
    <3>2. up => conf = lastConfig
      BY <1>b, <2>1, <3>1
    <3> QED
      BY <2>1, <3>1, <3>2
  <2>3. CASE RenderWrites
    <3>1. /\ UNCHANGED <<bind, restart>> /\ pc' = "apply"
          /\ conf' = Wanted /\ pending' = Wanted /\ Wanted # None
      <4>1. runtime # None
        BY <2>1 DEF TypedInv, PayloadInv
      <4> QED
        BY <1>c, <2>3, <4>1 DEF RenderWrites
    <3> QED
      BY <2>1, <3>1
  <2>4. CASE RenderFails
    <3>1. conf = None /\ UNCHANGED conf /\ ~up /\ pc' \in {"idle", "others"}
      BY <1>a, <2>4 DEF RenderFails, StepFails, Sleep, TypedInv, InterfacesInv
    <3> QED
      BY <2>1, <2>4, <3>1
  <2> QED
    BY <1>6, <2>2, <2>3, <2>4 DEF Render
<1>7. CASE Apply
  BY <1>a, <1>b, <1>7 DEF Apply, ApplyRestart, ApplyReload, ApplyStart, Commit, StepsDone, StepFails, Sleep, StopSmbd, SmbdIsDown, Wanted
<1>8. CASE Start
  <2>1. UNCHANGED <<full, runtime, staged, binary, bind, conf>> /\ pc = "start"
    BY <1>8 DEF Start
  <2>2. CASE AlreadyServing
    BY <2>1, <2>2 DEF AlreadyServing, Commit, StepsDone, Sleep
  <2>3. CASE StopUnbound
    BY <1>a, <2>1, <2>3 DEF StopUnbound, StopSmbd, SmbdIsDown
  <2>4. CASE LaunchSmbd
    <3>1. /\ ~up /\ up' /\ smbdBinary' = binary /\ smbdBind' = conf.bind /\ smbdConf' = conf
          /\ conf # None /\ lastConfig' = IF pending = None THEN lastConfig ELSE pending
      BY <1>a, <2>4 DEF LaunchSmbd, Commit
    <3>2. pc' \in {"idle", "others"} /\ ~restart'
      BY <1>a, <2>4 DEF LaunchSmbd, Commit, StepsDone, Sleep
    <3>3. smbdBind' = bind /\ staged /\ lastConfig' # None
      BY <2>1, <3>1
    <3> QED
      BY <2>1, <3>1, <3>2, <3>3
  <2> QED
    BY <1>8, <2>2, <2>3, <2>4 DEF Start
<1>9. CASE OtherServices
  BY <1>a, <1>b, <1>9 DEF OtherServices, Sleep, Wanted
<1>10. CASE Environment
  BY <1>a, <1>b, <1>10 DEF Environment, DiskChanges, AddressChanges, NameChanges, SmbdDies, SmbdLosesListeners, SmbdIsDown, EnvStep, Wanted
<1>11. CASE UNCHANGED vars
  BY <1>a, <1>b, <1>11 DEF vars, Wanted
<1> QED
  BY <1>1, <1>2, <1>3, <1>4, <1>5, <1>6, <1>7, <1>8, <1>9, <1>10, <1>11 DEF Next, Manager

\* ServedInv is inductive when nothing fails once a restart is required.
LEMMA Served ==
    ASSUME RestartsGoThrough
    PROVE  Spec => []ServedInv
<1>1. Init => ServedInv
  BY DEF Init, ServedInv, ConfInv, ConfIsApplied, BinaryInv, SmbdInv
<1>2. TypedInv /\ PendingInv /\ LoadInv /\ OkInv /\ ServedInv /\ [Next]_vars => ServedInv'
  BY RestartsGoThrough, KeepsConf, KeepsBinary, KeepsSmbd DEF ServedInv
<1> QED
  BY <1>1, <1>2, Typed, Pending, Load, Ok, PTL DEF Spec

\* smb.conf is the configuration applied last, on the interfaces in use before
\* this pass; where it is rendered anew, smbd is told before the pass ends.
LEMMA KeepsConfigServed ==
    ASSUME ~smbdFailed', TypedInv, PendingInv, LoadInv, ConfigServedInv, [Next]_vars
    PROVE  ConfigServedInv'
<1> USE DEF world, failures, bounds, schedule, status, identity, staging, flags, binding, smbd
<1>a. /\ ~Fails("validate") /\ ~Fails("stop") /\ ~Fails("start") /\ ~Fails("reload")
      /\ ~BothFail("reload", "stop") /\ ~BothFail("start", "stop")
  BY DEF Fails, BothFail, SmbdCalls
<1>b. /\ conf \in OrNone(Configs) /\ lastConfig \in OrNone(Configs) /\ pending \in OrNone(Configs)
      /\ Wanted.runtime = runtime /\ Wanted.bind = bind /\ Wanted.name = name
  BY SignatureIs DEF TypedInv, TypeOK, ManagerType, RuntimeType, Wanted
<1>c. /\ conf # None /\ runtime # None => Signature(runtime, bind, sysName) # None
      /\ bind # None /\ runtime # None => Wanted # None
  <2>1. /\ conf # None => bind # None
        /\ bind \in OrNone(Addresses) /\ runtime \in OrNone(Runtimes) /\ name \in Names /\ sysName \in Names
    BY DEF TypedInv, TypeOK, WorldType, ManagerType, InterfacesInv
  <2>2. \A n \in Names : bind # None /\ runtime # None => Signature(runtime, bind, n) \in Configs
    BY <2>1 DEF OrNone, Signature, Configs
  <2> QED
    BY <2>1, <2>2, ManagerSambaAssumption DEF Wanted
<1> USE DEF ConfigServedInv, ConfIsApplied, KeptBind
<1>1. CASE DiskStep
  <2>1. /\ UNCHANGED <<conf, lastConfig, binding, smbd>>
        /\ pc = "idle" /\ pc' \in {"idle", "identity", "bind"}
    BY <1>1 DEF DiskStep, Sleep
  <2> QED
    BY <2>1
<1>2. CASE Identity
  <2>1. /\ UNCHANGED <<binding, runtime, up, bound, smbdBind>> /\ pc' \in {"noPayload", "stage"}
        /\ pc = "identity"
    BY <1>2 DEF Identity, AfterIdentity
  <2>2. CASE UNCHANGED <<conf, lastConfig, smbdConf>>
    BY <2>1, <2>2
  <2>3. CASE /\ conf # None /\ runtime # None /\ conf' = Signature(runtime, bind, sysName)
             /\ lastConfig' = conf' /\ smbdConf' = IF up THEN conf' ELSE smbdConf
    BY <1>c, <2>1, <2>3, SignatureIs
  <2> QED
    BY <1>2, <1>a, <2>2, <2>3 DEF Identity
<1>3. CASE NoPayload
  BY <1>a, <1>3 DEF NoPayload, StopSmbd, SmbdIsDown
<1>4. CASE Stage
  <2>1. /\ UNCHANGED binding /\ pc = "stage" /\ pc' \in {"bind", "others"}
        /\ UNCHANGED <<up, smbdBind, smbdConf>> \/ ~up'
        /\ UNCHANGED conf \/ (conf' = None /\ ~up')
        /\ UNCHANGED lastConfig \/ lastConfig' = None
    BY <1>4 DEF Stage, StageUnchanged, StageCopies, StageFails, SmbdIsDown
  <2> QED
    BY <2>1
<1>5. CASE Bind
  <2>1. UNCHANGED <<conf, lastConfig, smbd>> /\ pc = "bind" /\ pending = None
    BY <1>5 DEF Bind, PendingInv
  <2>2. CASE BindUnchanged \/ BindFails
    <3>1. UNCHANGED bind /\ ~bindChanged' /\ pc' \in {"idle", "others", "render"}
      BY <1>5, <2>2 DEF BindUnchanged, BindFails, StepFails, Sleep
    <3> QED
      BY <2>1, <3>1
  <2>3. CASE BindChanges
    BY <2>1, <2>3 DEF BindChanges
  <2> QED
    BY <1>5, <2>2, <2>3 DEF Bind
<1>6. CASE Render
  <2>1. UNCHANGED <<lastConfig, runtime, name, smbd>> /\ pc = "render" /\ runtime # None /\ pending = None
    BY <1>6 DEF Render, TypedInv, PayloadInv, PendingInv
  <2>2. CASE RenderUnchanged
    <3>1. Wanted = lastConfig /\ conf # None /\ bind # None
      BY <2>2 DEF RenderUnchanged, RenderNeeded, TypedInv, InterfacesInv
    <3>2. conf = lastConfig /\ lastConfig # None
      BY <1>c, <2>1, <3>1
    <3>3. UNCHANGED <<conf, bind, restart>> /\ pc' = "apply" /\ Wanted' = Wanted
      BY <2>1, <2>2 DEF RenderUnchanged, Wanted
    <3> QED
      BY <1>b, <2>1, <3>1, <3>2, <3>3
  <2>3. CASE RenderWrites
    <3>1. conf' = Wanted /\ pending' = Wanted /\ UNCHANGED <<bind, restart>> /\ pc' = "apply" /\ Wanted' = Wanted
          /\ Wanted # None
      BY <1>c, <2>1, <2>3 DEF RenderWrites, Wanted
    <3> QED
      BY <1>b, <2>1, <3>1
  <2>4. CASE RenderFails
    <3>1. UNCHANGED conf /\ bind' = KeptBind /\ pc' \in {"idle", "others"}
      BY <2>1, <2>4 DEF RenderFails, RestoreBind, StepFails, Sleep
    <3> QED
      BY <2>1, <3>1
  <2> QED
    BY <1>6, <2>2, <2>3, <2>4 DEF Render
<1>7. CASE Apply
  <2>1. UNCHANGED <<runtime, name, conf, binding>> /\ pc = "apply" /\ Wanted' = Wanted
    BY <1>7 DEF Apply, Wanted
  <2>2. CASE ApplyRestart
    BY <1>a, <1>b, <2>1, <2>2 DEF ApplyRestart, StopSmbd, SmbdIsDown
  <2>3. CASE ApplyReload
    <3>1. UNCHANGED <<up, bound, smbdBinary, smbdBind>> /\ smbdConf' = conf /\ ~restart
          /\ lastConfig' = (IF pending = None THEN lastConfig ELSE pending) /\ pc' \in {"idle", "others"}
      BY <1>a, <2>3 DEF ApplyReload, Commit, StepsDone, Sleep
    <3> QED
      BY <1>b, <2>1, <3>1 DEF PendingInv
  <2>4. CASE ApplyStart
    BY <1>a, <1>b, <2>1, <2>4 DEF ApplyStart, LoadInv
  <2> QED
    BY <1>7, <2>2, <2>3, <2>4 DEF Apply
<1>8. CASE Start
  <2>1. UNCHANGED <<runtime, conf, binding>> /\ pc = "start"
    BY <1>8 DEF Start
  <2>2. CASE AlreadyServing
    <3>1. /\ lastConfig' = (IF pending = None THEN lastConfig ELSE pending) /\ pc' \in {"idle", "others"}
          /\ UNCHANGED smbd /\ (up => bound)
      BY <2>2 DEF AlreadyServing, Commit, StepsDone, Sleep
    <3> QED
      BY <1>b, <2>1, <3>1 DEF PendingInv
  <2>3. CASE StopUnbound
    <3>1. UNCHANGED <<pc, name, pending, lastConfig>> /\ ~up'
      BY <1>a, <2>3 DEF StopUnbound, StopSmbd, SmbdIsDown
    <3> QED
      BY <2>1, <3>1 DEF Wanted
  <2>4. CASE LaunchSmbd
    <3>1. /\ smbdBind' = conf.bind /\ smbdConf' = conf /\ conf # None /\ pc' \in {"idle", "others"}
          /\ lastConfig' = IF pending = None THEN lastConfig ELSE pending
      BY <1>a, <2>4 DEF LaunchSmbd, Commit, StepsDone, Sleep
    <3> QED
      BY <1>b, <2>1, <3>1 DEF PendingInv
  <2> QED
    BY <1>8, <2>2, <2>3, <2>4 DEF Start
<1>9. CASE OtherServices
  BY <1>9 DEF OtherServices, Sleep
<1>10. CASE Environment
  <2>1. UNCHANGED <<pc, conf, lastConfig, runtime, name, binding, pending, restart>>
    BY <1>10 DEF Environment, DiskChanges, AddressChanges, NameChanges, SmbdDies, SmbdLosesListeners, EnvStep
  <2>2. \/ UNCHANGED <<up, smbdBind, smbdConf>> /\ (bound' => bound)
        \/ ~up'
    BY <1>10 DEF Environment, DiskChanges, AddressChanges, NameChanges, SmbdDies, SmbdLosesListeners, SmbdIsDown
  <2>3. up \in BOOLEAN /\ bound \in BOOLEAN
    BY DEF TypedInv, TypeOK, RuntimeType
  <2>4. bound' \in BOOLEAN
    BY <1>10, <2>3 DEF Environment, DiskChanges, AddressChanges, NameChanges, SmbdDies, SmbdLosesListeners, SmbdIsDown
  <2> QED
    BY <2>1, <2>2, <2>3, <2>4 DEF Wanted
<1>11. CASE UNCHANGED vars
  BY <1>11 DEF vars, Wanted
<1> QED
  BY <1>1, <1>2, <1>3, <1>4, <1>5, <1>6, <1>7, <1>8, <1>9, <1>10, <1>11 DEF Next, Manager

\* After tc_manager_run_samba_full_step returned 0, an smbd that runs listens on
\* the manager's interfaces with the wanted smb.conf loaded, whatever disk pass,
\* staging, probe or rendering failed so far: a bind change that was not rendered
\* is given up and found again (manager.sh, restore_smb_bind_after_config_failure).
\* Once smbd could not be validated, signalled, stopped or started it may not be so.
THEOREM ConfigServed == Spec => []OkServesConfig
<1> DEFINE Holds == smbdFailed \/ ConfigServedInv
<1>1. Init => Holds
  BY DEF Init, ConfigServedInv, ConfIsApplied
<1>2. TypedInv /\ PendingInv /\ LoadInv /\ Holds /\ [Next]_vars => Holds'
  BY KeepsConfigServed, FailuresStay DEF TypedInv, TypeOK
<1>3. TypedInv /\ OkInv /\ Holds => OkServesConfig
  <2> SUFFICES ASSUME TypedInv, OkInv, ConfigServedInv, sambaStatus = "ok", up, ~smbdFailed
               PROVE  smbdConf = Wanted /\ smbdBind = bind
    BY DEF OkServesConfig
  <2>1. pc \in {"others", "idle"} /\ lastConfig = Wanted /\ conf # None
    BY DEF OkInv, ConfigServedInv
  <2>2. smbdConf = conf /\ smbdBind = bind
    BY <2>1 DEF ConfigServedInv, KeptBind
  <2>3. conf = lastConfig \/ lastConfig = None
    BY <2>1 DEF ConfigServedInv, ConfIsApplied
  <2>4. Wanted \in Configs
    BY <2>1 DEF OkInv, TypedInv, TypeOK, ManagerType, InterfacesInv, OrNone, Wanted, Signature, Configs
  <2> QED
    BY <2>1, <2>2, <2>3, <2>4, ManagerSambaAssumption
<1> QED
  BY <1>1, <1>2, <1>3, Typed, Pending, Load, Ok, PTL DEF Spec

\* A pass that staged another binary stops the smbd that runs the old one.
LEMMA KeepsBinaryServed ==
    ASSUME ~stopFailed', TypedInv, OkInv, BinaryServedInv, [Next]_vars
    PROVE  BinaryServedInv'
<1> USE DEF world, failures, bounds, schedule, status, identity, staging, flags, binding, smbd
<1>a. /\ ~Fails("reset") /\ ~Fails("probe") /\ ~Fails("validateBind") /\ ~Fails("render") /\ ~Fails("stop")
      /\ ~BothFail("stage", "reset") /\ ~BothFail("reload", "stop") /\ ~BothFail("start", "stop")
  BY DEF Fails, BothFail, BeforeStopCalls
<1> USE DEF BinaryServedInv, BinaryInv, OkInv
<1>1. CASE DiskStep
  BY <1>1 DEF DiskStep, Sleep, SambaRuntimeReady
<1>2. CASE Identity
  <2>1. /\ UNCHANGED <<full, runtime, staging, flags, up, smbdBinary, sambaStatus>>
        /\ pc = "identity" /\ pc' \in {"noPayload", "stage"}
    BY <1>2 DEF Identity, AfterIdentity
  <2>2. conf # None => conf' # None
    <3>1. conf # None => bind # None
      BY DEF TypedInv, InterfacesInv
    <3>2. conf # None /\ runtime # None => Signature(runtime, bind, sysName) \in Configs
      BY <3>1 DEF TypedInv, TypeOK, WorldType, ManagerType, OrNone, Signature, Configs
    <3> QED
      BY <1>2, <3>2, ManagerSambaAssumption DEF Identity
  <2> QED
    BY <2>1, <2>2
<1>3. CASE NoPayload
  BY <1>a, <1>3 DEF NoPayload, StopSmbd, SmbdIsDown
<1>4. CASE Stage
  <2>1. UNCHANGED <<full, runtime>> /\ pc = "stage"
    BY <1>4 DEF Stage
  <2>2. CASE StageUnchanged
    BY <2>1, <2>2 DEF StageUnchanged, StageNeeded
  <2>3. CASE StageCopies
    <3>1. up => staged /\ smbdBinary = binary /\ binary = lastBinary
      BY <2>1
    <3>2. /\ binary' = PayloadOf[runtime] /\ lastBinary' = PayloadOf[runtime] /\ staged'
          /\ restart' = (up /\ BinaryChanged) /\ UNCHANGED <<conf, smbd, sambaStatus>> /\ pc' = "bind"
      BY <2>3 DEF StageCopies
    <3>3. up => (restart' <=> smbdBinary # binary')
      BY <3>1, <3>2 DEF BinaryChanged
    <3> QED
      BY <2>1, <3>2, <3>3
  <2>4. CASE StageFails
    BY <1>a, <2>1, <2>4 DEF StageFails, SmbdIsDown
  <2> QED
    BY <1>4, <2>2, <2>3, <2>4 DEF Stage
<1>5. CASE Bind
  BY <1>a, <1>5 DEF Bind, BindUnchanged, BindChanges, BindFails, StepFails, Sleep
<1>6. CASE Render
  <2>1. UNCHANGED <<full, runtime, staging, smbd>> /\ pc = "render" /\ runtime # None
    BY <1>6 DEF Render, TypedInv, PayloadInv
  <2>2. CASE RenderUnchanged
    BY <2>1, <2>2 DEF RenderUnchanged
  <2>3. CASE RenderWrites
    <3>1. Wanted \in Configs
      BY <2>1, <2>3 DEF RenderWrites, TypedInv, TypeOK, ManagerType, OrNone, Wanted, Signature, Configs
    <3> QED
      BY <2>1, <2>3, <3>1, ManagerSambaAssumption DEF RenderWrites
  <2>4. CASE RenderFails
    <3>1. ~up /\ UNCHANGED conf /\ pc' \in {"idle", "others"} /\ sambaStatus' \in {sambaStatus, "failed"}
      BY <1>a, <2>4 DEF RenderFails, StepFails, Sleep, TypedInv, InterfacesInv
    <3> QED
      BY <2>1, <3>1
  <2> QED
    BY <1>6, <2>2, <2>3, <2>4 DEF Render
<1>7. CASE Apply
  BY <1>a, <1>7 DEF Apply, ApplyRestart, ApplyReload, ApplyStart, Commit, StepsDone, StepFails, Sleep,
      StopSmbd, SmbdIsDown
<1>8. CASE Start
  BY <1>a, <1>8 DEF Start, AlreadyServing, StopUnbound, LaunchSmbd, Commit, StepsDone, StepFails, Sleep,
      StopSmbd, SmbdIsDown
<1>9. CASE OtherServices
  BY <1>9 DEF OtherServices, Sleep
<1>10. CASE Environment
  BY <1>10 DEF Environment, DiskChanges, AddressChanges, NameChanges, SmbdDies, SmbdLosesListeners,
      SmbdIsDown, EnvStep
<1>11. CASE UNCHANGED vars
  BY <1>11 DEF vars
<1> QED
  BY <1>1, <1>2, <1>3, <1>4, <1>5, <1>6, <1>7, <1>8, <1>9, <1>10, <1>11 DEF Next, Manager

\* And it runs the published payload's binary, also when copying, validating,
\* signalling or starting it failed before: the pass that records a new binary
\* in TC_MANAGER_LAST_BINARY_SIGNATURE stops the old smbd in the end.  Once such a
\* pass returned before that (RestartsForBinary) it may not be so.
THEOREM BinaryServed == Spec => []OkServesBinary
<1> DEFINE Holds == stopFailed \/ BinaryServedInv
<1>1. Init => Holds
  BY DEF Init, BinaryServedInv, BinaryInv
<1>2. TypedInv /\ OkInv /\ Holds /\ [Next]_vars => Holds'
  BY KeepsBinaryServed, FailuresStay DEF TypedInv, TypeOK
<1>3. OkInv /\ Holds => OkServesBinary
  BY DEF OkInv, BinaryServedInv, BinaryInv, OkServesBinary
<1> QED
  BY <1>1, <1>2, <1>3, Typed, Ok, PTL DEF Spec

\* tc_manager_apply_smbd_runtime_changes stops a listening smbd only because its
\* binary or its interfaces are no longer the wanted ones: a change of names or
\* share rows reaches it as a signal, and its sessions go on.
THEOREM SessionsKept ==
    ASSUME RestartsGoThrough
    PROVE  Spec => SessionsSurvive
<1> DEFINE Kept == up /\ bound /\ ~up' /\ env' = env /\ faults' = faults /\ runtime # None
                     => smbdBinary # PayloadOf[runtime] \/ smbdBind # bind
<1>1. TypedInv /\ ServedInv /\ [Next]_vars => [Kept]_vars
  <2> SUFFICES ASSUME TypedInv, ServedInv, [Next]_vars, up, bound, ~up', env' = env, faults' = faults,
                      runtime # None
               PROVE  smbdBinary # PayloadOf[runtime] \/ smbdBind # bind
    OBVIOUS
  <2> USE DEF world, failures, bounds, schedule, status, identity, staging, flags, binding, smbd
  <2>1. faults \in Nat /\ env \in Nat
    BY ManagerSambaAssumption DEF TypedInv, TypeOK, WorldType
  <2>2. (\A call \in Calls : ~Fails(call)) /\ (\A first, second \in Calls : ~BothFail(first, second))
    BY <2>1 DEF Fails, BothFail
  <2>3. CASE DiskStep
    BY <2>3 DEF DiskStep
  <2>4. CASE Identity
    BY <2>4 DEF Identity
  <2>5. CASE NoPayload
    BY <2>5 DEF NoPayload, TypedInv, PayloadInv
  <2>6. CASE Stage
    BY <2>2, <2>6 DEF Calls, Stage, StageUnchanged, StageCopies, StageFails
  <2>7. CASE Bind
    BY <2>7 DEF Bind
  <2>8. CASE Render
    BY <2>8 DEF Render
  <2>9. CASE Apply
    BY <2>2, <2>9 DEF Calls, Apply, ApplyRestart, ApplyReload, ApplyStart, ServedInv, SmbdInv
  <2>10. CASE Start
    BY <2>10 DEF Start, AlreadyServing, StopUnbound, LaunchSmbd
  <2>11. CASE OtherServices
    BY <2>11 DEF OtherServices
  <2>12. CASE Environment
    <3>1. env' = env + 1
      BY <2>12 DEF Environment, DiskChanges, AddressChanges, NameChanges, SmbdDies,
          SmbdLosesListeners, EnvStep
    <3> QED
      BY <2>1, <3>1
  <2>13. CASE UNCHANGED vars
    BY <2>13 DEF vars
  <2> QED
    BY <2>3, <2>4, <2>5, <2>6, <2>7, <2>8, <2>9, <2>10, <2>11, <2>12, <2>13 DEF Next, Manager
<1> QED
  BY <1>1, Typed, Served, PTL DEF Spec, SessionsSurvive

=============================================================================
