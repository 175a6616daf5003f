SPECIFICATION FairSpec
CONSTANTS
    Addresses = {a1, a2}
    Connections = {c1, c2}
    Pins = {p1}
    Wrong = Wrong
    MaxGuesses = 2
    Tasks = {t1}
    Servers = {s1, s2}
    Https = TRUE
    PortTaken = TRUE
    Page = Page
    None = None
CHECK_DEADLOCK FALSE
INVARIANTS TypeOK PromptsAreLive PageShowsShare
PROPERTIES ServedWithConsent OneServer LeavingRestarts
