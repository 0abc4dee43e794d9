\* Finitely many changes and failures; nothing fails once a restart is required.
SPECIFICATION FairSpec
CONSTANTS
    home = home
    homePlus = homePlus
    spare = spare
    dk2 = dk2
    dk3 = dk3
    lan = lan
    wan = wan
    atlas = atlas
    iris = iris
    Runtimes = {home, homePlus, spare}
    Payloads = {dk2, dk3}
    PayloadOf <- MCPayloadOf
    Addresses = {lan, wan}
    Names = {atlas, iris}
    None = None
    DiskPoll = 10
    BindPoll = 10
    ServicePoll = 20
    MayFail <- MCReloadCalls
    MaxFaults = 2
    MaxEnv = 3
    EnvAt <- MCAnywhere
PROPERTIES
    ServesEventually
    SessionsSurvive
