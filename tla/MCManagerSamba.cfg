\* Any call may fail, and the surroundings change before every step.
SPECIFICATION Spec
CONSTANTS
    home = home
    homePlus = homePlus
    spare = spare
    dk2 = dk2
    dk3 = dk3
    lan = lan
    wan = wan
    atlas = atlas
    iris = iris
    Runtimes = {home, homePlus, spare}
    Payloads = {dk2, dk3}
    PayloadOf <- MCPayloadOf
    Addresses = {lan, wan}
    Names = {atlas, iris}
    None = None
    DiskPoll = 10
    BindPoll = 10
    ServicePoll = 20
    MayFail <- MCAllCalls
    MaxFaults = 2
    MaxEnv = 3
    EnvAt <- MCAnywhere
INVARIANTS
    TypeOK
    BindIsRendered
    OkIsCommitted
    OkServesConfig
    OkServesBinary
PROPERTIES
    CommitsAreLoaded
