SPECIFICATION Spec
CONSTANTS
    pa = pa
    pb = pb
    pc = pc
    Proxies <- TwoProxies
    First = pa
    Builds <- AsBuilt
    Limits <- Seventy
    Caller = Caller
    Callee = Callee
    Scscf = Scscf
    AppServer = AppServer
    Odi = Odi
    NatBox = NatBox
    Nowhere = Nowhere
    NoUri = NoUri
    Via = Via
    Route = Route
    RecordRoute = RecordRoute
    Identity = Identity
    CallId = CallId
    Length = Length
    Fragment = Fragment
    None = None
INVARIANTS OthersStay
CHECK_DEADLOCK FALSE
