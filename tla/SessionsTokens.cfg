SPECIFICATION Spec
CONSTANTS
    b1 = b1
    a1 = a1
    a2 = a2
    t1 = t1
    p1 = p1
    p2 = p2
    Tabs = {r1, r2}
    Browsers = {b1}
    BrowserOf <- OneBrowser
    SessionIds = {s1, s2}
    Tokens = {t1, t2}
    AgentOf <- OneAgent
    Agents = {a1, a2}
    Primary = a1
    Passwords = {p1, p2}
    Configured = p1
    Offered <- Admin
    MaxMinted = 2
    Unissued = Unissued
    Deleted = Deleted
    NoSession = NoSession
SYMMETRY Symmetry
INVARIANTS StaleSecretsOpenNothing RotationLeavesOneToken
