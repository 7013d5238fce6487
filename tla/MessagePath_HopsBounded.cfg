SPECIFICATION Spec
CONSTANTS
    pa = pa
    pb = pb
    pc = pc
    Proxies <- ThreeProxies
    First = pa
    Builds <- AsBuilt
    Limits <- Two
    Caller = Caller
    Callee = Callee
    Scscf = Scscf
    AppServer = AppServer
    Odi = Odi
    NatBox = NatBox
    Nowhere = Nowhere
    NoUri = NoUri
    Via = Via
    Route = Route
    RecordRoute = RecordRoute
    Identity = Identity
    CallId = CallId
    Length = Length
    Fragment = Fragment
    None = None
INVARIANTS HopsBounded
CHECK_DEADLOCK FALSE
