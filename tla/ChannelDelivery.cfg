SPECIFICATION Spec
CONSTANTS
    u1 = u1
    u2 = u2
    k1 = k1
    k2 = k2
    k3 = k3
    b1 = b1
    Users = {u1, u2}
    Sockets = {k1, k2, k3}
    Owner <- TwoConnections
    Busy = {u2}
    Mentioned = {u2}
    Casts = {b1}
SYMMETRY Symmetry
INVARIANTS
    RegistryExact
    NoStranger
    ReachesUntilDisturbed
