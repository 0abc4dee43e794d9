\* Two disks that change at every step of the pass but one, one failed call, a manager that keeps running.
SPECIFICATION FairSpec
CONSTANTS
    Volumes <- MCVolumes
    Internal <- MCInternal
    PayloadVolumes <- MCBothPayloads
    NoVolume = 0
    MayFail <- MCQuietCalls
    MaxFaults = 1
    MaxEnv = 3
    EnvAt <- MCNotAtSelect
PROPERTIES
    PendingIsMigrated
    RefreshesEnd
INVARIANTS
    TypeOK
    PublishedIsWhole
    PublishedIsConfirmed
    AdvertisedIsPublished
    SharedStayPending
