------------------------------- MODULE MCAccess -------------------------------
(* Model-checking instance of Access: two devices, two passwords.          *)
EXTENDS Access

CONSTANTS h1, h2, p1, p2

(* Two devices with one password: SSH is off on the first, or the second is *)
(* of another kind.                                                        *)
Found(flag, supported) ==
    [phase |-> "up", open |-> IF flag THEN {"ssh", "acp", "smb"} ELSE {"acp", "smb"},
     flag |-> flag, owes |-> FALSE, secret |-> p1, supported |-> supported]
MCFleet == {[h \in Hosts |-> IF h = h1 THEN Found(FALSE, TRUE) ELSE Found(TRUE, TRUE)],
            [h \in Hosts |-> IF h = h1 THEN Found(TRUE, TRUE) ELSE Found(TRUE, FALSE)]}

(* The second is legal only where the first was not asked for before.      *)
MCChanges == {[on |-> {"any_protocol"}, off |-> {"require_smb_encryption"}],
              [on |-> {"require_smb_encryption"}, off |-> {}]}
=============================================================================
