\* Two devices, two passwords, two commands, one fault, one prompt.
SPECIFICATION Spec
CONSTANTS
    h1 = h1
    h2 = h2
    p1 = p1
    p2 = p2
    NoHost = NoHost
    NoPassword = NoPassword
    Hosts = {h1, h2}
    Passwords = {p1, p2}
    Fleet <- MCFleet
    Changes <- MCChanges
    MaxFaults = 1
    MaxCommands = 2
    MaxPrompts = 1
INVARIANTS TypeOK SavedTargetWorks ReportsAreTrue
PROPERTIES RebootsAreAgreed SettingsAreKept
CHECK_DEADLOCK FALSE
