\* A volume mounted between its migration being decided and the share rows.
SPECIFICATION Spec
CONSTANTS
    Volumes <- MCVolumes
    Internal <- MCInternal
    PayloadVolumes <- MCInternalPayload
    NoVolume = 0
    MayFail = {}
    MaxFaults = 0
    MaxEnv = 3
    EnvAt <- MCNotAtSelect
INVARIANT
    PublishedAreMigrated
