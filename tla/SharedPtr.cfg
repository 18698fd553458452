SPECIFICATION Spec
CONSTANTS
    t1 = t1
    t2 = t2
    a1 = a1
    a2 = a2
    b1 = b1
    b2 = b2
    g = g
    Tasks = {t1, t2}
    Handles = {a1, a2, b1, b2, g}
    Blocks = {k1, k2, k3}
    Owner <- TestOwner
    Common = Common
    None = None
SYMMETRY BlockSymmetry
INVARIANTS CountIsExact 
