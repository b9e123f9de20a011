SPECIFICATION Spec
CONSTANTS
    b1 = b1
    a1 = a1
    a2 = a2
    t1 = t1
    p1 = p1
    p2 = p2
    Tabs = {r1, r2}
    Browsers = {b1}
    BrowserOf <- OneBrowser
    SessionIds = {s1, s2, s3}
    Tokens = {t1}
    AgentOf <- OneAgent
    Agents = {a1}
    Primary = a1
    Passwords = {p1}
    Configured = p1
    Offered <- TabsOnly
    MaxMinted = 4
    Unissued = Unissued
    Deleted = Deleted
    NoSession = NoSession
SYMMETRY Symmetry
INVARIANTS TypeOK EndedSessionsDoNothing CsrfStaysKnown
PROPERTIES LogoutIsFinal
