\* Two callers, two ports, the wildcard address and one specific address:
\* fixed and dynamic bindings collide through the wildcard, and a call of two
\* bindings can fail at its second one while the other caller is half way.
CONSTANTS
    Proto = {tcp}
    HostIP = {any, lo}
    Wildcard = {any}
    Port = {1, 2}
    Caller = {g1, g2}
    MaxBindings = 2
SYMMETRY Symmetry
SPECIFICATION PSpec
INVARIANTS Accounted ExclusiveClaims
