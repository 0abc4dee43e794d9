----------------------------- MODULE AccessDevice -----------------------------
(***************************************************************************)
(* The devices as configure, set-ssh and the reachability check meet them: *)
(* which TCP ports answer, the persisted dbug flag that makes a boot start *)
(* sshd, and the AirPort admin password that ACP and SSH both ask for.     *)
(*                                                                         *)
(* All of it is outside src/: an accepted reboot begins some time later,   *)
(* the ports close one by one and open one by one, and a running sshd      *)
(* keeps running when the flag is removed.  Commands of the host run in    *)
(* between, each remote call a step of its own.                            *)
(***************************************************************************)
EXTENDS Naturals, FiniteSets

CONSTANTS Hosts,        \* the devices on the network, by SSH target
          Passwords,    \* AirPort admin passwords
          Fleet,        \* the states in which the devices may be found
          MaxFaults     \* bound on power cuts, password changes and failed calls

VARIABLES dev,          \* the state of each device
          faults,       \* faults so far
          rekeyed       \* devices whose password was changed meanwhile

deviceVars == <<dev, faults, rekeyed>>

Ports == {"ssh", "acp", "smb"}

Device == [phase: {"up", "stopping", "booting"}, open: SUBSET Ports, flag: BOOLEAN,
           owes: BOOLEAN, secret: Passwords, supported: BOOLEAN]

(* Ports that answer once the device has booted with this flag.            *)
Served(d) == IF d.flag THEN Ports ELSE Ports \ {"ssh"}

(* Nothing is under way: the device runs what its flag says.               *)
Settled(d) == d.phase = "up" /\ ~d.owes /\ d.open = Served(d)

(* A reboot asked for during a shutdown is that shutdown.                  *)
Asked(d) == [d EXCEPT !.owes = d.phase # "stopping"]

ASSUME FleetAssumption == Fleet \subseteq [Hosts -> {d \in Device : Settled(d)}]
ASSUME FaultsAssumption == MaxFaults \in Nat

Open(h, p) == p \in dev[h].open
Accepts(h, password) == dev[h].secret = password

BeginStop(h) ==
    /\ dev[h].owes /\ dev[h].phase = "up"
    /\ dev' = [dev EXCEPT ![h].phase = "stopping", ![h].owes = FALSE]

ClosePort(h, p) ==
    /\ dev[h].phase = "stopping" /\ Open(h, p)
    /\ dev' = [dev EXCEPT ![h].open = @ \ {p},
                          ![h].phase = IF dev[h].open = {p} THEN "booting" ELSE @]

OpenPort(h, p) ==
    /\ dev[h].phase = "booting" /\ p \in Served(dev[h]) /\ ~Open(h, p)
    /\ dev' = [dev EXCEPT ![h].open = @ \cup {p},
                          ![h].phase = IF Served(dev[h]) \subseteq dev[h].open \cup {p}
                                       THEN "up" ELSE @]

DeviceRuns ==
    /\ \E h \in Hosts : \/ BeginStop(h)
                        \/ \E p \in Ports : ClosePort(h, p) \/ OpenPort(h, p)
    /\ UNCHANGED <<faults, rekeyed>>

(* Faults of the surroundings, and of one call of the host.                *)
Fault == faults < MaxFaults /\ faults' = faults + 1

PowerCut(h) ==
    /\ Fault
    /\ dev' = [dev EXCEPT ![h].phase = "booting", ![h].open = {}, ![h].owes = FALSE]
    /\ UNCHANGED rekeyed

ChangePassword(h) ==
    /\ Fault /\ dev[h].phase = "up"
    /\ \E p \in Passwords \ {dev[h].secret} : dev' = [dev EXCEPT ![h].secret = p]
    /\ rekeyed' = rekeyed \cup {h}
=============================================================================
