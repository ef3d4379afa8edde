SPECIFICATION Spec
CONSTANTS
    x1 = x1
    x2 = x2
    h1 = h1
    h2 = h2
    k1 = k1
    k2 = k2
    Clients = {x1}
    Hosts = {h1, h2}
    HostKeySet = {k1, k2}
    None = None
    MaxRekeys = 0
INVARIANT TrustIsPersistent
