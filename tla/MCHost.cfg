\* Two volumes, three kinds of device, one chore among the deploys, one fault, a user who keeps deploying.
SPECIFICATION FairSpec
CONSTANTS
    v1 = v1
    v2 = v2
    Volumes = {v1, v2}
    Builtin = v1
    Firmwares = {"nb6", "nb4", "nb4auto"}
    ConfigMode = "netatalk"
    ModeFlags = {"netatalk", "stream"}
    MaxFaults = 1
    MaxChores = 1
PROPERTIES
    DeployGetsThrough
    WritesAreQuiet
    RecordsSurviveDeploys
INVARIANTS
    TypeOK
    DeployedIsWhole
    UninstalledStaysDown
