\* At the bound (every dialCall used) callers may all be idle for good.
CHECK_DEADLOCK FALSE
CONSTANTS
    Callers = {g1, g2, g3}
    Services = {"user", "order"}
    Calls = {k1, k2, k3}
    Nil = Nil
SPECIFICATION Spec
INVARIANTS SingleFlight NoLeakedConn
PROPERTIES ClosedIsFinal ConnReturns
