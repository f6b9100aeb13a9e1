SPECIFICATION Spec
CONSTANTS
    c1 = c1
    c2 = c2
    u1 = u1
    u2 = u2
    e1 = e1
    e2 = e2
    b1 = b1
    b2 = b2
    r1 = r1
    r2 = r2
    s1 = s1
    s2 = s2
    p = p
    q = q
    Key <- Keys
    Uri = {u1, u2}
    Event = {e1, e2}
    Body = {b1, b2}
    Receipt = {r1, r2}
    Signature = {s1, s2}
    Operation <- Operations
    Client = {p, q}
    maxMutationAttempts = 2
    MaxLog = 4
SYMMETRY Clients
INVARIANTS LogStaysReadable
PROPERTY ImplementsTranscriptStore
