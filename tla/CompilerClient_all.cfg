SPECIFICATION FairSpec
CONSTANTS
    demo = demo
    t1 = t1
    None = None
    Texts = {demo, t1}
    Demo = demo
    MaxRevision = 2
    MaxCalls = 1
    MaxFailures = 1
CHECK_DEADLOCK FALSE
INVARIANTS TypeOK ResultsMatchText
PROPERTIES AnswersMatchText AppliedOverPreviewed Synchronizes
