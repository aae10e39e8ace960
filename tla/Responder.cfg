SPECIFICATION Spec
CONSTANTS
    Srv = {s1, s2, s3}
    Type = {t1, t2}
    Instance = {i1, i2}
    Host = {h1}
    Self = Self
    None = None
    MaxServices = 2
    MaxCalls = 4
    MaxPackets = 2
SYMMETRY Symmetric
CHECK_DEADLOCK FALSE
INVARIANTS OnlyLiveAreScheduled ProbedBeforeAnswering AnnouncedWhenQuiet
