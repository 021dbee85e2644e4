\* The messages of all tests; after a read beyond a frame the process may be gone.
SPECIFICATION Spec
CONSTANTS
    alice = alice
    bob = bob
    Hosts = {alice, bob}
    Gateway = Gateway
    MacOf <- MCMacOf
    gw_ip <- MCGatewayIp
    PortOf <- MCPortOf
    Fill = {0, 67, 68, 65535}
    Beyond = {0, 68}
    Numbers <- MCNumbers
    Payloads <- MCPayloads
    NoIp = NoIp
    Nothing = Nothing
CHECK_DEADLOCK FALSE
INVARIANTS
    TypeOK
    ReadAsMeant
    OnlyArpOverread
    AnswersFit
    PrintoutTrue
