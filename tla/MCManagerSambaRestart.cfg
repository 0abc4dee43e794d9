\* One failed rendering while the payload moves to another disk.
SPECIFICATION FairSpec
CONSTANTS
    home = home
    homePlus = homePlus
    spare = spare
    dk2 = dk2
    dk3 = dk3
    lan = lan
    wan = wan
    atlas = atlas
    iris = iris
    Runtimes = {home, spare}
    Payloads = {dk2, dk3}
    PayloadOf <- MCPayloadOf
    Addresses = {lan}
    Names = {atlas}
    None = None
    DiskPoll = 10
    BindPoll = 10
    ServicePoll = 20
    MayFail = {"render"}
    MaxFaults = 1
    MaxEnv = 1
    EnvAt <- MCBetweenPasses
PROPERTIES
    RestartsForBinary
