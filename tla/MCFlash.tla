------------------------------- MODULE MCFlash -------------------------------
(* Two Apple versions of one length and release; the newer one's patched   *)
(* image does not compress into its place.                                 *)
EXTENDS FlashBanks, TLC

MCCatalog == <<"v2", "v1">>
MCRelease == [v1 |-> "r", v2 |-> "r"]
MCSize == [v1 |-> 1, v2 |-> 1]
MCDirs == Permutations(Dirs)
MCShipped == {[primary |-> Stock("v1"), secondary |-> Stock("v1")],
              [primary |-> Stock("v2"), secondary |-> Stock("v1")],
              [primary |-> [v |-> "v1", login |-> "other"], secondary |-> Stock("v2")]}
=============================================================================
