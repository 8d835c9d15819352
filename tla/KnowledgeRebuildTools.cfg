\* Two builds, which may overlap, beside two tools that write.
SPECIFICATION Spec
CONSTANTS
    b1 = b1  b2 = b2  t1 = t1  t2 = t2  k1 = k1  k2 = k2
    None = None
    Builders = {b1, b2}
    Tools = {t1, t2}
    Keys = {k1}
    MaxFiles = 3
SYMMETRY Interchangeable
INVARIANTS
    PublishedIsComplete
    CommittedRowsSurvive
    ReadableUnlessReplacedBeneath
PROPERTY OnlyPublishingReplaces
CHECK_DEADLOCK FALSE
