\* Two networks, two subnets, one container; three requests in flight out of
\* six, and one crash.
CONSTANTS
    Net = {bridge, n2}
    Default = bridge
    Con = {c1}
    Thread = {t1, t2, t3}
    NSubnets = 2
    MaxRequests = 6
    MaxCrashes = 1
CHECK_DEADLOCK FALSE
SYMMETRY Symmetry
SPECIFICATION NSpec
INVARIANTS SubnetsFresh AttachedNetworksStay
PROPERTY ExclusiveCreate
