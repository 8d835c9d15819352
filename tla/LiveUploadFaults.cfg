\* One upload of every package, with a fault or a kill at any call.
SPECIFICATION Spec
CONSTANTS
    a = a  b = b  v = v  c = c  spaced = spaced  f = f  g = g
    None = None
    Names = {a, b, v, c, spaced}
    Spelling <- SpellingOf
    Fields = {f, g}
    Packages <- Delivered
INVARIANTS
    LeftoversAreExcused
    NothingDangles
    AppliedIsWhole
    SoundPackagesApply
CHECK_DEADLOCK FALSE
