SPECIFICATION FairSpec
CONSTANTS
    Tabs = {t1, t2}
    Accounts = {ann, bob}
    Allowed = {ann}
    Empty = empty
    Owner = ann
    Home = home
    Slugs = {bare, x, dot, dots}
    Asked = {home, x}
    Bare = bare
    Dot = dot
    Dots = dots
    States = {s1, s2, s3, s4, s5, s6}
    Faults = {"google_error", "db_error", "expiry", "rename"}
    MaxMishaps = 1
    None = None
INVARIANTS
    TypeOK
    JourneysArrive
    OnlyInterferenceRefuses
    OwnersAreServed
PROPERTIES
    RedirectsRunOut
    JourneysEnd
