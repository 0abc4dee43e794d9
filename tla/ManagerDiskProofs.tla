------------------------- MODULE ManagerDiskProofs -------------------------
(***************************************************************************)
(* Invariance proofs for ManagerDisk, for every set of volumes and every   *)
(* bound on disk changes and failed calls.  Each theorem has one case per  *)
(* step of the manager and of the disks; the inductive invariants are      *)
(* defined at the end of ManagerDisk.                                      *)
(***************************************************************************)
EXTENDS ManagerDisk, TLAPS

-----------------------------------------------------------------------------
(* Type correctness.                                                       *)

\* The manager's state keeps its types through every pass; in particular nothing
\* is claimed that is not mounted, and nothing mounted that MaSt does not list.
THEOREM TypeCorrect == Spec => []TypeOK
<1> USE ManagerDiskAssumption DEF TypeOK
<1>1. Init => TypeOK
  <2>1. Init => DisksType
    BY DEF Init, ManagerInit, DisksType
  <2>2. Init => BoundsType
    BY DEF Init, ManagerInit, BoundsType
  <2>3. Init => PassType
    BY DEF Init, ManagerInit, PassType, PCs, Reasons
  <2>4. Init => RowsType
    BY DEF Init, ManagerInit, RowsType
  <2> QED
    BY <2>1, <2>2, <2>3, <2>4
<1>2. TypeOK /\ [Next]_vars => TypeOK'
  <2> SUFFICES ASSUME TypeOK, [Next]_vars
               PROVE  TypeOK'
    OBVIOUS
  <2> USE DEF disks, signature, published, xattrs, adverts, snapshot, topology
  <2>1. CASE ReadMast
    <3>1. DisksType'
      BY <2>1 DEF ReadMast, ApplyRuntime, Fails, Succeeds, DisksType, RowsType
    <3>2. BoundsType'
      BY <2>1 DEF ReadMast, ApplyRuntime, Fails, Succeeds, BoundsType
    <3>3. PassType'
      BY <2>1 DEF ReadMast, ApplyRuntime, Fails, Succeeds, PassType, PCs, Reasons
    <3>4. RowsType'
      BY <2>1 DEF ReadMast, ApplyRuntime, Fails, Succeeds, RowsType, DisksType
    <3> QED
      BY <3>1, <3>2, <3>3, <3>4
  <2>2. CASE CheckActiveMastUsers
    <3>1. DisksType'
      BY <2>2 DEF CheckActiveMastUsers, UseVolumes, ApplyRuntime, Fails, Succeeds,
          DisksType, RowsType
    <3>2. BoundsType'
      BY <2>2 DEF CheckActiveMastUsers, UseVolumes, ApplyRuntime, Fails, Succeeds,
          BoundsType
    <3>3. PassType'
      BY <2>2 DEF CheckActiveMastUsers, UseVolumes, ApplyRuntime, Fails, Succeeds, PassType,
          PCs, Reasons
    <3>4. RowsType'
      BY <2>2 DEF CheckActiveMastUsers, UseVolumes, ApplyRuntime, Fails, Succeeds, RowsType,
          DisksType
    <3> QED
      BY <3>1, <3>2, <3>3, <3>4
  <2>3. CASE Debounce
    <3>1. DisksType'
      BY <2>3 DEF Debounce, ApplyRuntime, Fails, Succeeds, DisksType, RowsType
    <3>2. BoundsType'
      BY <2>3 DEF Debounce, ApplyRuntime, Fails, Succeeds, BoundsType
    <3>3. PassType'
      BY <2>3 DEF Debounce, ApplyRuntime, Fails, Succeeds, PassType, PCs, Reasons
    <3>4. RowsType'
      BY <2>3 DEF Debounce, ApplyRuntime, Fails, Succeeds, RowsType, DisksType
    <3> QED
      BY <3>1, <3>2, <3>3, <3>4
  <2>4. CASE ActivateTopology
    <3>1. DisksType'
      BY <2>4 DEF ActivateTopology, UseVolumes, ApplyDisklessState, ClearPayloadState,
          RecordSignature, Fails, Succeeds, DisksType, RowsType
    <3>2. BoundsType'
      BY <2>4 DEF ActivateTopology, UseVolumes, ApplyDisklessState, ClearPayloadState,
          RecordSignature, Fails, Succeeds, BoundsType
    <3>3. PassType'
      BY <2>4 DEF ActivateTopology, UseVolumes, ApplyDisklessState, ClearPayloadState,
          RecordSignature, Fails, Succeeds, PassType, PCs, Reasons
    <3>4. RowsType'
      BY <2>4 DEF ActivateTopology, UseVolumes, ApplyDisklessState, ClearPayloadState,
          RecordSignature, Fails, Succeeds, RowsType, DisksType
    <3> QED
      BY <3>1, <3>2, <3>3, <3>4
  <2>5. CASE ResolvePayload
    <3>1. DisksType'
      BY <2>5 DEF ResolvePayload, Candidates, ApplyDisklessState, ClearPayloadState,
          RecordSignature, DisksType, RowsType
    <3>2. BoundsType'
      BY <2>5 DEF ResolvePayload, Candidates, ApplyDisklessState, ClearPayloadState,
          RecordSignature, BoundsType
    <3>3. PassType'
      BY <2>5 DEF ResolvePayload, Candidates, ApplyDisklessState, ClearPayloadState,
          RecordSignature, PassType, PCs, Reasons
    <3>4. RowsType'
      BY <2>5 DEF ResolvePayload, Candidates, ApplyDisklessState, ClearPayloadState,
          RecordSignature, RowsType, DisksType
    <3> QED
      BY <3>1, <3>2, <3>3, <3>4
  <2>6. CASE SelectMigration
    <3>1. DisksType'
      BY <2>6 DEF SelectMigration, KnownMigrated, RecordWithoutTdb, RecordBeforeCopy,
          DisksType, RowsType
    <3>2. BoundsType'
      BY <2>6 DEF SelectMigration, KnownMigrated, RecordWithoutTdb, RecordBeforeCopy,
          BoundsType
    <3>3. PassType'
      BY <2>6 DEF SelectMigration, KnownMigrated, RecordWithoutTdb, RecordBeforeCopy,
          PassType, PCs, Reasons
    <3>4. RowsType'
      BY <2>6 DEF SelectMigration, KnownMigrated, RecordWithoutTdb, RecordBeforeCopy,
          RowsType, DisksType
    <3> QED
      BY <3>1, <3>2, <3>3, <3>4
  <2>7. CASE MigrateCopy
    <3>1. DisksType'
      BY <2>7 DEF MigrateCopy, MigrationFailed, ClearPayloadState, Fails, Succeeds,
          DisksType, RowsType
    <3>2. BoundsType'
      BY <2>7 DEF MigrateCopy, MigrationFailed, ClearPayloadState, Fails, Succeeds,
          BoundsType
    <3>3. PassType'
      BY <2>7 DEF MigrateCopy, MigrationFailed, ClearPayloadState, Fails, Succeeds,
          PassType, PCs, Reasons
    <3>4. RowsType'
      BY <2>7 DEF MigrateCopy, MigrationFailed, ClearPayloadState, Fails, Succeeds,
          RowsType, DisksType
    <3> QED
      BY <3>1, <3>2, <3>3, <3>4
  <2>8. CASE MigrateCleanup
    <3>1. DisksType'
      BY <2>8 DEF MigrateCleanup, MigrationFailed, ClearPayloadState, Fails, Succeeds,
          DisksType, RowsType
    <3>2. BoundsType'
      BY <2>8 DEF MigrateCleanup, MigrationFailed, ClearPayloadState, Fails, Succeeds,
          BoundsType
    <3>3. PassType'
      BY <2>8 DEF MigrateCleanup, MigrationFailed, ClearPayloadState, Fails, Succeeds,
          PassType, PCs, Reasons
    <3>4. RowsType'
      BY <2>8 DEF MigrateCleanup, MigrationFailed, ClearPayloadState, Fails, Succeeds,
          RowsType, DisksType
    <3> QED
      BY <3>1, <3>2, <3>3, <3>4
  <2>9. CASE BuildShareState
    <3>1. DisksType'
      BY <2>9 DEF BuildShareState, SetPayloadState, ApplyDisklessState, ClearPayloadState,
          RecordSignature, Fails, Succeeds, DisksType, RowsType
    <3>2. BoundsType'
      BY <2>9 DEF BuildShareState, SetPayloadState, ApplyDisklessState, ClearPayloadState,
          RecordSignature, Fails, Succeeds, BoundsType
    <3>3. PassType'
      BY <2>9 DEF BuildShareState, SetPayloadState, ApplyDisklessState, ClearPayloadState,
          RecordSignature, Fails, Succeeds, PassType, PCs, Reasons
    <3>4. RowsType'
      BY <2>9 DEF BuildShareState, SetPayloadState, ApplyDisklessState, ClearPayloadState,
          RecordSignature, Fails, Succeeds, RowsType, DisksType
    <3> QED
      BY <3>1, <3>2, <3>3, <3>4
  <2>10. CASE RunServices
    <3>1. DisksType'
      BY <2>10 DEF RunServices, LaunchMdns, Fails, Succeeds, DisksType, RowsType
    <3>2. BoundsType'
      BY <2>10 DEF RunServices, LaunchMdns, Fails, Succeeds, BoundsType
    <3>3. PassType'
      BY <2>10 DEF RunServices, LaunchMdns, Fails, Succeeds, PassType, PCs, Reasons
    <3>4. RowsType'
      BY <2>10 DEF RunServices, LaunchMdns, Fails, Succeeds, RowsType, DisksType
    <3> QED
      BY <3>1, <3>2, <3>3, <3>4
  <2>11. CASE \E v \in Volumes : Plug(v) \/ Unplug(v) \/ Mount(v) \/ Unmount(v) \/ DropClaim(v)
    <3>1. DisksType'
      BY <2>11 DEF Plug, Unplug, Mount, Unmount, DropClaim, EnvStep, DisksType, RowsType
    <3>2. BoundsType'
      BY <2>11 DEF Plug, Unplug, Mount, Unmount, DropClaim, EnvStep, BoundsType
    <3>3. PassType'
      BY <2>11 DEF Plug, Unplug, Mount, Unmount, DropClaim, EnvStep, PassType, PCs, Reasons
    <3>4. RowsType'
      BY <2>11 DEF Plug, Unplug, Mount, Unmount, DropClaim, EnvStep, RowsType, DisksType
    <3> QED
      BY <3>1, <3>2, <3>3, <3>4
  <2>12. CASE MdnsDies
    <3>1. DisksType'
      BY <2>12 DEF MdnsDies, EnvStep, DisksType, RowsType
    <3>2. BoundsType'
      BY <2>12 DEF MdnsDies, EnvStep, BoundsType
    <3>3. PassType'
      BY <2>12 DEF MdnsDies, EnvStep, PassType, PCs, Reasons
    <3>4. RowsType'
      BY <2>12 DEF MdnsDies, EnvStep, RowsType, DisksType
    <3> QED
      BY <3>1, <3>2, <3>3, <3>4
  <2>13. CASE Restart
    <3>1. DisksType'
      BY <2>13 DEF Restart, DisksType, RowsType
    <3>2. BoundsType'
      BY <2>13 DEF Restart, BoundsType
    <3>3. PassType'
      BY <2>13 DEF Restart, PassType, PCs, Reasons
    <3>4. RowsType'
      BY <2>13 DEF Restart, RowsType, DisksType
    <3> QED
      BY <3>1, <3>2, <3>3, <3>4
  <2>14. CASE UNCHANGED vars
    <3>1. DisksType'
      BY <2>14 DEF vars, DisksType, RowsType
    <3>2. BoundsType'
      BY <2>14 DEF vars, BoundsType
    <3>3. PassType'
      BY <2>14 DEF vars, PassType, PCs, Reasons
    <3>4. RowsType'
      BY <2>14 DEF vars, RowsType, DisksType
    <3> QED
      BY <3>1, <3>2, <3>3, <3>4
  <2> QED
    BY <2>1, <2>2, <2>3, <2>4, <2>5, <2>6, <2>7, <2>8, <2>9, <2>10, <2>11, <2>12, <2>13,
        <2>14 DEF Next, Manager, Environment
<1> QED
  BY <1>1, <1>2, PTL DEF Spec

-----------------------------------------------------------------------------
(* The published state is whole between passes.                            *)

\* The inductive form: while a rebuild runs, the shares on the network belong to
\* the topology that a failed migration would put back.
LEMMA WholeInvariant == Spec => []WholeInv
<1>1. Init => WholeInv
  BY ManagerDiskAssumption DEF Init, ManagerInit, WholeInv, WholeIn, Resting, Migrating
<1>2. TypeOK /\ WholeInv /\ [Next]_vars => WholeInv'
  <2> SUFFICES ASSUME TypeOK, WholeInv, [Next]_vars
               PROVE  WholeInv'
    OBVIOUS
  <2> USE ManagerDiskAssumption DEF TypeOK, PassType, RowsType, DisksType,
          disks, signature, published, xattrs, adverts, snapshot, topology
  <2>1. CASE ReadMast
    BY <2>1 DEF ReadMast, ApplyRuntime, WholeInv, WholeIn, Resting, Migrating, PCs, Reasons
  <2>2. CASE CheckActiveMastUsers
    BY <2>2 DEF CheckActiveMastUsers, UseVolumes, ApplyRuntime, WholeInv, WholeIn, Resting,
        Migrating, PCs, Reasons
  <2>3. CASE Debounce
    BY <2>3 DEF Debounce, ApplyRuntime, WholeInv, WholeIn, Resting, Migrating, PCs, Reasons
  <2>4. CASE ActivateTopology
    BY <2>4 DEF ActivateTopology, UseVolumes, ApplyDisklessState, ClearPayloadState,
        RecordSignature, WholeInv, WholeIn, Resting, Migrating, PCs, Reasons
  <2>5. CASE ResolvePayload
    BY <2>5 DEF ResolvePayload, Candidates, ApplyDisklessState, ClearPayloadState,
        RecordSignature, WholeInv, WholeIn, Resting, Migrating, PCs, Reasons
  <2>6. CASE SelectMigration
    BY <2>6 DEF SelectMigration, KnownMigrated, RecordWithoutTdb, RecordBeforeCopy,
        WholeInv, WholeIn, Resting, Migrating, PCs, Reasons
  <2>7. CASE MigrateCopy
    BY <2>7 DEF MigrateCopy, MigrationFailed, ClearPayloadState, WholeInv, WholeIn, Resting,
        Migrating, PCs, Reasons
  <2>8. CASE MigrateCleanup
    BY <2>8 DEF MigrateCleanup, MigrationFailed, ClearPayloadState, WholeInv, WholeIn,
        Resting, Migrating, PCs, Reasons
  <2>9. CASE BuildShareState
    BY <2>9 DEF BuildShareState, SetPayloadState, ApplyDisklessState, ClearPayloadState,
        RecordSignature, WholeInv, WholeIn, Resting, Migrating, PCs, Reasons
  <2>10. CASE RunServices
    BY <2>10 DEF RunServices, LaunchMdns, WholeInv, WholeIn, Resting, Migrating, PCs,
        Reasons
  <2>11. CASE \E v \in Volumes : Plug(v) \/ Unplug(v) \/ Mount(v) \/ Unmount(v) \/ DropClaim(v)
    BY <2>11 DEF Plug, Unplug, Mount, Unmount, DropClaim, EnvStep, WholeInv, WholeIn,
        Resting, Migrating, PCs, Reasons
  <2>12. CASE MdnsDies
    BY <2>12 DEF MdnsDies, EnvStep, WholeInv, WholeIn, Resting, Migrating, PCs, Reasons
  <2>13. CASE Restart
    BY <2>13 DEF Restart, WholeInv, WholeIn, Resting, Migrating, PCs, Reasons
  <2>14. CASE UNCHANGED vars
    BY <2>14 DEF vars, WholeInv, WholeIn, Resting, Migrating, PCs, Reasons
  <2> QED
    BY <2>1, <2>2, <2>3, <2>4, <2>5, <2>6, <2>7, <2>8, <2>9, <2>10, <2>11, <2>12, <2>13,
        <2>14 DEF Next, Manager, Environment
<1> QED
  BY <1>1, <1>2, TypeCorrect, PTL DEF Spec

\* Between two passes there are share rows exactly when there is a payload, and
\* they and the payload belong to the topology the manager believes in.
THEOREM PublishedWhole == Spec => []PublishedIsWhole
<1>1. WholeInv => PublishedIsWhole
  BY DEF WholeInv, WholeIn, Resting, PublishedIsWhole
<1> QED
  BY <1>1, WholeInvariant, PTL

-----------------------------------------------------------------------------
(* What is published was built from the confirmed topology.                *)

\* The inductive form, if the write of adisk.tsv never fails: a failed write leaves
\* the rebuilt shares behind without the signature.
LEMMA ConfirmedInvariant ==
  ASSUME "adisk" \notin MayFail
  PROVE  Spec => []ConfirmedInv
<1>1. Init => ConfirmedInv
  BY ManagerDiskAssumption DEF Init, ManagerInit, ConfirmedInv, Resting
<1>2. TypeOK /\ WholeInv /\ ConfirmedInv /\ [Next]_vars => ConfirmedInv'
  <2> SUFFICES ASSUME TypeOK, WholeInv, ConfirmedInv, [Next]_vars
               PROVE  ConfirmedInv'
    OBVIOUS
  <2> USE ManagerDiskAssumption DEF TypeOK, PassType, RowsType, DisksType,
          disks, signature, published, xattrs, adverts, snapshot, topology
  <2>1. CASE ReadMast
    BY <2>1 DEF ReadMast, ApplyRuntime, ConfirmedInv, Resting
  <2>2. CASE CheckActiveMastUsers
    BY <2>2 DEF CheckActiveMastUsers, UseVolumes, ApplyRuntime, ConfirmedInv, Resting
  <2>3. CASE Debounce
    BY <2>3 DEF Debounce, ApplyRuntime, ConfirmedInv, Resting
  <2>4. CASE ActivateTopology
    BY <2>4 DEF ActivateTopology, UseVolumes, ApplyDisklessState, ClearPayloadState,
        RecordSignature, ConfirmedInv, Resting
  <2>5. CASE ResolvePayload
    BY <2>5 DEF ResolvePayload, Candidates, ApplyDisklessState, ClearPayloadState,
        RecordSignature, ConfirmedInv, Resting
  <2>6. CASE SelectMigration
    BY <2>6 DEF SelectMigration, KnownMigrated, RecordWithoutTdb, RecordBeforeCopy,
        ConfirmedInv, Resting
  <2>7. CASE MigrateCopy
    BY <2>7 DEF MigrateCopy, MigrationFailed, ClearPayloadState, ConfirmedInv, Resting
  <2>8. CASE MigrateCleanup
    BY <2>8 DEF MigrateCleanup, MigrationFailed, ClearPayloadState, ConfirmedInv, Resting
  <2>9. CASE BuildShareState
    BY <2>9 DEF BuildShareState, SetPayloadState, ApplyDisklessState, ClearPayloadState,
        RecordSignature, Fails, Succeeds, ConfirmedInv, Resting, WholeInv
  <2>10. CASE RunServices
    BY <2>10 DEF RunServices, LaunchMdns, ConfirmedInv, Resting
  <2>11. CASE \E v \in Volumes : Plug(v) \/ Unplug(v) \/ Mount(v) \/ Unmount(v) \/ DropClaim(v)
    BY <2>11 DEF Plug, Unplug, Mount, Unmount, DropClaim, EnvStep, ConfirmedInv, Resting
  <2>12. CASE MdnsDies
    BY <2>12 DEF MdnsDies, EnvStep, ConfirmedInv, Resting
  <2>13. CASE Restart
    BY <2>13 DEF Restart, ConfirmedInv, Resting
  <2>14. CASE UNCHANGED vars
    BY <2>14 DEF vars, ConfirmedInv, Resting
  <2> QED
    BY <2>1, <2>2, <2>3, <2>4, <2>5, <2>6, <2>7, <2>8, <2>9, <2>10, <2>11, <2>12, <2>13,
        <2>14 DEF Next, Manager, Environment
<1> QED
  BY <1>1, <1>2, TypeCorrect, WholeInvariant, PTL DEF Spec

\* Between passes a published payload was built from the confirmed MaSt signature,
\* so an unchanged signature may indeed skip the rebuild.
THEOREM PublishedConfirmed ==
  ASSUME "adisk" \notin MayFail
  PROVE  Spec => []PublishedIsConfirmed
<1>1. ConfirmedInv => PublishedIsConfirmed
  BY DEF ConfirmedInv, Resting, PublishedIsConfirmed
<1> QED
  BY <1>1, ConfirmedInvariant, PTL

-----------------------------------------------------------------------------
(* The advertiser announces what is published.                             *)

\* The inductive form: shares that differ from the announced ones come with
\* TC_MANAGER_DISK_STATE_CHANGED, until the pass's services have run.
LEMMA AdvertsInvariant ==
  ASSUME MayFail \cap {"adisk", "mdnsStop"} = {}
  PROVE  Spec => []AdvertsInv
<1>1. Init => AdvertsInv
  BY ManagerDiskAssumption DEF Init, ManagerInit, AdvertsInv
<1>2. TypeOK /\ WholeInv /\ ConfirmedInv /\ AdvertsInv /\ [Next]_vars => AdvertsInv'
  <2> SUFFICES ASSUME TypeOK, WholeInv, ConfirmedInv, AdvertsInv, [Next]_vars
               PROVE  AdvertsInv'
    OBVIOUS
  <2> USE ManagerDiskAssumption DEF TypeOK, PassType, RowsType, DisksType,
          disks, signature, published, xattrs, adverts, snapshot, topology
  <2>1. CASE ReadMast
    BY <2>1 DEF ReadMast, ApplyRuntime, Fails, Succeeds, AdvertsInv
  <2>2. CASE CheckActiveMastUsers
    BY <2>2 DEF CheckActiveMastUsers, UseVolumes, ApplyRuntime, Fails, Succeeds, AdvertsInv
  <2>3. CASE Debounce
    BY <2>3 DEF Debounce, ApplyRuntime, Fails, Succeeds, AdvertsInv
  <2>4. CASE ActivateTopology
    BY <2>4 DEF ActivateTopology, UseVolumes, ApplyDisklessState, ClearPayloadState,
        RecordSignature, Fails, Succeeds, AdvertsInv
  <2>5. CASE ResolvePayload
    BY <2>5 DEF ResolvePayload, Candidates, ApplyDisklessState, ClearPayloadState,
        RecordSignature, AdvertsInv
  <2>6. CASE SelectMigration
    BY <2>6 DEF SelectMigration, KnownMigrated, RecordWithoutTdb, RecordBeforeCopy,
        AdvertsInv
  <2>7. CASE MigrateCopy
    BY <2>7 DEF MigrateCopy, MigrationFailed, ClearPayloadState, Fails, Succeeds,
        AdvertsInv, ConfirmedInv, WholeInv, WholeIn, Resting
  <2>8. CASE MigrateCleanup
    BY <2>8 DEF MigrateCleanup, MigrationFailed, ClearPayloadState, Fails, Succeeds,
        AdvertsInv, ConfirmedInv, WholeInv, WholeIn, Resting
  <2>9. CASE BuildShareState
    BY <2>9 DEF BuildShareState, SetPayloadState, ApplyDisklessState, ClearPayloadState,
        RecordSignature, Fails, Succeeds, AdvertsInv
  <2>10. CASE RunServices
    BY <2>10 DEF RunServices, LaunchMdns, Fails, Succeeds, AdvertsInv
  <2>11. CASE \E v \in Volumes : Plug(v) \/ Unplug(v) \/ Mount(v) \/ Unmount(v) \/ DropClaim(v)
    BY <2>11 DEF Plug, Unplug, Mount, Unmount, DropClaim, EnvStep, AdvertsInv
  <2>12. CASE MdnsDies
    BY <2>12 DEF MdnsDies, EnvStep, AdvertsInv
  <2>13. CASE Restart
    BY <2>13 DEF Restart, AdvertsInv
  <2>14. CASE UNCHANGED vars
    BY <2>14 DEF vars, AdvertsInv
  <2> QED
    BY <2>1, <2>2, <2>3, <2>4, <2>5, <2>6, <2>7, <2>8, <2>9, <2>10, <2>11, <2>12, <2>13,
        <2>14 DEF Next, Manager, Environment
<1>3. Spec => []ConfirmedInv
  BY ConfirmedInvariant
<1> QED
  BY <1>1, <1>2, TypeCorrect, WholeInvariant, <1>3, PTL DEF Spec

\* Between passes a running advertiser announces exactly the published shares, as
\* long as adisk.tsv can be written and a stopped advertiser does stop.
THEOREM AdvertisedPublished ==
  ASSUME MayFail \cap {"adisk", "mdnsStop"} = {}
  PROVE  Spec => []AdvertisedIsPublished
<1>1. AdvertsInv => AdvertisedIsPublished
  BY DEF AdvertsInv, AdvertisedIsPublished
<1> QED
  BY <1>1, AdvertsInvariant, PTL

-----------------------------------------------------------------------------
(* The memory of migrated volumes.                                         *)

\* The inductive form, if the payload volume is not lost between being resolved and
\* the lookup of its TDB: a lost one looks like one without a TDB.
LEMMA MigratedInvariant ==
  ASSUME "select" \notin EnvAt
  PROVE  Spec => []MigratedInv
<1>1. Init => MigratedInv
  BY ManagerDiskAssumption DEF Init, ManagerInit, MigratedInv, MigratedIsTrue, Migrating
<1>2. TypeOK /\ WholeInv /\ MigratedInv /\ [Next]_vars => MigratedInv'
  <2> SUFFICES ASSUME TypeOK, WholeInv, MigratedInv, [Next]_vars
               PROVE  MigratedInv'
    OBVIOUS
  <2> USE ManagerDiskAssumption DEF TypeOK, PassType, RowsType, DisksType,
          disks, signature, published, xattrs, adverts, snapshot, topology
  <2>1. CASE ReadMast
    BY <2>1 DEF ReadMast, ApplyRuntime, MigratedInv, MigratedIsTrue, Migrating
  <2>2. CASE CheckActiveMastUsers
    BY <2>2 DEF CheckActiveMastUsers, UseVolumes, ApplyRuntime, MigratedInv, MigratedIsTrue,
        Migrating
  <2>3. CASE Debounce
    BY <2>3 DEF Debounce, ApplyRuntime, MigratedInv, MigratedIsTrue, Migrating
  <2>4. CASE ActivateTopology
    BY <2>4 DEF ActivateTopology, UseVolumes, ApplyDisklessState, ClearPayloadState,
        RecordSignature, MigratedInv, MigratedIsTrue, Migrating
  <2>5. CASE ResolvePayload
    BY <2>5 DEF ResolvePayload, Candidates, ApplyDisklessState, ClearPayloadState,
        RecordSignature, MigratedInv, MigratedIsTrue, Migrating
  <2>6. CASE SelectMigration
    BY <2>6 DEF SelectMigration, KnownMigrated, RecordWithoutTdb, RecordBeforeCopy,
        LegacyTdb, MigratedInv, MigratedIsTrue, Migrating
  <2>7. CASE MigrateCopy
    BY <2>7 DEF MigrateCopy, MigrationFailed, ClearPayloadState, MigratedInv,
        MigratedIsTrue, Migrating
  <2>8. CASE MigrateCleanup
    BY <2>8 DEF MigrateCleanup, MigrationFailed, ClearPayloadState, MigratedInv,
        MigratedIsTrue, Migrating, WholeInv
  <2>9. CASE BuildShareState
    BY <2>9 DEF BuildShareState, SetPayloadState, ApplyDisklessState, ClearPayloadState,
        RecordSignature, MigratedInv, MigratedIsTrue, Migrating
  <2>10. CASE RunServices
    BY <2>10 DEF RunServices, LaunchMdns, MigratedInv, MigratedIsTrue, Migrating
  <2>11. CASE \E v \in Volumes : Plug(v) \/ Unplug(v) \/ Mount(v) \/ Unmount(v) \/ DropClaim(v)
    BY <2>11 DEF Plug, Unplug, Mount, Unmount, DropClaim, EnvStep, MigratedInv,
        MigratedIsTrue, Migrating
  <2>12. CASE MdnsDies
    BY <2>12 DEF MdnsDies, EnvStep, MigratedInv, MigratedIsTrue, Migrating
  <2>13. CASE Restart
    BY <2>13 DEF Restart, MigratedInv, MigratedIsTrue, Migrating
  <2>14. CASE UNCHANGED vars
    BY <2>14 DEF vars, MigratedInv, MigratedIsTrue, Migrating
  <2> QED
    BY <2>1, <2>2, <2>3, <2>4, <2>5, <2>6, <2>7, <2>8, <2>9, <2>10, <2>11, <2>12, <2>13,
        <2>14 DEF Next, Manager, Environment
<1> QED
  BY <1>1, <1>2, TypeCorrect, WholeInvariant, PTL DEF Spec

\* A volume the manager remembers as migrated has no record left to migrate in the
\* TDB that memory is about, whatever fails, restarts or is unplugged on the way.
THEOREM MigratedTrue ==
  ASSUME "select" \notin EnvAt
  PROVE  Spec => []MigratedIsTrue
<1>1. MigratedInv => MigratedIsTrue
  BY DEF MigratedInv
<1> QED
  BY <1>1, MigratedInvariant, PTL

\* The inductive form: outside the building of the share rows, a list that speaks of
\* another TDB than that of the payload in use is empty.
LEMMA PendingInvariant ==
  ASSUME "select" \notin EnvAt
  PROVE  Spec => []PendingInv
<1>1. Init => PendingInv
  BY ManagerDiskAssumption DEF Init, ManagerInit, PendingInv
<1>2. TypeOK /\ MigratedInv /\ PendingInv /\ [Next]_vars => PendingInv'
  <2> SUFFICES ASSUME TypeOK, MigratedInv, PendingInv, [Next]_vars
               PROVE  PendingInv'
    OBVIOUS
  <2> USE ManagerDiskAssumption DEF published, xattrs, PendingInv
  <2>1. CASE ReadMast
    BY <2>1 DEF ReadMast, ApplyRuntime
  <2>2. CASE CheckActiveMastUsers
    BY <2>2 DEF CheckActiveMastUsers, ApplyRuntime
  <2>3. CASE Debounce
    BY <2>3 DEF Debounce, ApplyRuntime
  <2>4. CASE ActivateTopology
    BY <2>4 DEF ActivateTopology, ApplyDisklessState, ClearPayloadState
  <2>5. CASE ResolvePayload
    BY <2>5 DEF ResolvePayload, ApplyDisklessState, ClearPayloadState
  <2>6. CASE SelectMigration
    BY <2>6 DEF SelectMigration, KnownMigrated, RecordBeforeCopy
  <2>7. CASE MigrateCopy
    BY <2>7 DEF MigrateCopy, MigrationFailed, ClearPayloadState
  <2>8. CASE MigrateCleanup
    BY <2>8 DEF MigrateCleanup, MigrationFailed, ClearPayloadState, MigratedInv, Migrating
  <2>9. CASE BuildShareState
    BY <2>9 DEF BuildShareState, SetPayloadState, ApplyDisklessState,
        ClearPayloadState, MigratedInv
  <2>10. CASE RunServices
    BY <2>10 DEF RunServices
  <2>11. CASE \E v \in Volumes : Plug(v) \/ Unplug(v) \/ Mount(v) \/ Unmount(v) \/ DropClaim(v)
    BY <2>11 DEF Plug, Unplug, Mount, Unmount, DropClaim, EnvStep
  <2>12. CASE MdnsDies
    BY <2>12 DEF MdnsDies, EnvStep
  <2>13. CASE Restart
    BY <2>13 DEF Restart
  <2>14. CASE UNCHANGED vars
    BY <2>14 DEF vars
  <2> QED
    BY <2>1, <2>2, <2>3, <2>4, <2>5, <2>6, <2>7, <2>8, <2>9, <2>10, <2>11, <2>12, <2>13,
        <2>14 DEF Next, Manager, Environment
<1>3. Spec => []MigratedInv
  BY MigratedInvariant
<1> QED
  BY <1>1, <1>2, TypeCorrect, <1>3, PTL DEF Spec

\* A share whose metadata is still in the TDB of the payload in use is never
\* remembered as migrated, also when the payload moved to another volume and back,
\* a migration failed half way or the manager was restarted.
THEOREM SharedPending ==
  ASSUME "select" \notin EnvAt
  PROVE  Spec => []SharedStayPending
<1>1. MigratedInv /\ PendingInv => SharedStayPending
  BY DEF MigratedInv, MigratedIsTrue, PendingInv, SharedStayPending
<1>2. Spec => []MigratedInv
  BY MigratedInvariant
<1>3. Spec => []PendingInv
  BY PendingInvariant
<1> QED
  BY <1>1, <1>2, <1>3, PTL

=============================================================================
