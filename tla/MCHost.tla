-------------------------------- MODULE MCHost --------------------------------
(* Model-checking instance of Host: one internal and one external volume.  *)
EXTENDS Host

CONSTANTS v1, v2
=============================================================================
