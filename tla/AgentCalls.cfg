SPECIFICATION Spec
CONSTANTS
    c1 = c1
    c2 = c2
    Calls = {c1, c2}
    Mixes <- MCMixes
    Files = {f1, f2}
    Last = 2
    Containers = 2
    None = None
INVARIANTS TypeOK AnswersAreTrue RepeatedOnlyByFallback BundleIsWhole FeedersLeakOnlyForPods
PROPERTIES HandlersEnd
CHECK_DEADLOCK FALSE
