SPECIFICATION Spec
CONSTANTS
    jd1 = jd1 jd2 = jd2 jd3 = jd3
    v1 = v1 v2 = v2 v3 = v3
    e1 = e1 e2 = e2
    c1 = c1 c2 = c2
    VersionRequests <- VersionsMC
    VerdictRequests <- VerdictsMC
    ExportRequests <- ExportsMC
    CreateRequests <- CreatesMC
    PersistAttempts <- AttemptsMC
    Mixes <- TwoVersions
    Earlier = Earlier
    NoVerdict = NoVerdict
CHECK_DEADLOCK FALSE
INVARIANTS
    OneActiveVersion
