--------------------------- MODULE MCManagerSamba ---------------------------
(***************************************************************************)
(* Instances of ManagerSamba for TLC: two payload directories, one of them *)
(* with two sets of share rows, on a network with two addresses.           *)
(***************************************************************************)
EXTENDS ManagerSamba

CONSTANTS home, homePlus, spare, dk2, dk3, lan, wan, atlas, iris

MCPayloadOf == [r \in Runtimes |-> IF r = spare THEN dk3 ELSE dk2]

MCAllCalls == Calls
\* No call fails between requiring a restart and starting smbd.
MCReloadCalls == {"disk", "identity", "reload", "others"}

MCAnywhere == PCs
MCBetweenPasses == {"idle"}
=============================================================================
