SPECIFICATION Spec
CONSTANTS
    Requests = {r1, r2}
    Flows = {f1, f2, f3}
    Credentials = {c1, c2}
    NoFlow = NoFlow
    NoCredential = NoCredential
SYMMETRY Symmetry
INVARIANTS TypeOK OneOutcomePerFlow DeletedPasskeyOpensNothing
PROPERTIES DeletedPasskeyStaysDeleted
