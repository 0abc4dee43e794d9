--------------------------- MODULE MCManagerDisk ---------------------------
(***************************************************************************)
(* Instances of ManagerDisk for TLC: dk2 is the internal disk, dk3 an      *)
(* external one.                                                           *)
(***************************************************************************)
EXTENDS ManagerDisk

MCVolumes == {2, 3}
MCInternal == {2}
MCBothPayloads == {2, 3}
MCInternalPayload == {2}

MCQuietCalls == Calls \ {"adisk", "mdnsStop"}

\* The disks hold still between resolving the payload and looking up its TDB.
MCNotAtSelect == PCs \ {"select"}
=============================================================================
