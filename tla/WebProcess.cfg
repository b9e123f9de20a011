SPECIFICATION Spec
CONSTANTS
    c1 = c1
    c2 = c2
    NoRow = NoRow
    Conns = {c1, c2}
    Mixes <- MCMixes
    Order <- MCOrder
    WordsOf <- MCWordsOf
    Durations = {"retention"}
    Limits = {"retention", "limit"}
    Default <- MCDefault
    Payloads <- MCPayloads
    Hour = 3
    Width = 4
    Files = {1, 2, 3}
    Age <- MCAge
    DefaultLimit = 3
    Images = {1, 2}
    Vulnerable = {1}
    Deployed = {{1, 2}}
    Cap = 1
    MaxStarts = 2
INVARIANTS TypeOK SettingsAgree ScansStored LogsKept
PROPERTIES ConnectionsEnd
