SPECIFICATION NumberedSpec
CONSTANTS
    None = None
    web = web
    mcp = mcp
    user = user
    r1 = r1
    write = write
    gatedRead = gatedRead
    gatedWrite = gatedWrite
    c1 = c1
    c2 = c2
    c3 = c3
    a1 = a1
    a2 = a2
    a3 = a3
    Call = {c1, c2, c3}
    Approval = {a1, a2, a3}
    Ingress = {web, mcp}
    Principal = {user}
    PrincipalOf <- MCPrincipalOf
    RequestId = {r1}
    Operation = {write, gatedRead, gatedWrite}
    Mutating = {write, gatedWrite}
    NeedsApproval = {gatedRead, gatedWrite}
    Request <- SafetyRequests
INVARIANTS
    TypeOK
    AtMostOnceEffect
    ApprovalGuardsEffect
    SingleUseApproval
    FaithfulReplay
    ClaimApprovalAgreement
PROPERTIES
    NoResurrection
    ImplementsLedger
    EveryCallReturns
CHECK_DEADLOCK FALSE
