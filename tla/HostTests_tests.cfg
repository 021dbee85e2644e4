\* The tests of the driver and a mutual ping; one frame may be lost.
\* Tests that are done stop, and so do those that wait for a lost frame.
SPECIFICATION FairSpec
CONSTANTS
    alice = alice
    bob = bob
    alice_ip = alice_ip
    bob_ip = bob_ip
    Hosts = {alice, bob}
    Gateway = Gateway
    Ips = {alice_ip, bob_ip}
    Address <- MCAddress
    NoIp = NoIp
    Tests <- MCTests
    Identifiers = {1, 2}
    MaxLosses = 1
CHECK_DEADLOCK FALSE
INVARIANTS
    TypeOK
    AddressesAgree
    CachesTruthful
    RepliesCurrent
    DhcpSocketSafe
PROPERTIES
    TestsEnd
