CONSTANTS
    Eth0 = Eth0
    macX = macX
    macEth0 = macEth0
    IfNames = {Eth0}
    ValidIfNames = {Eth0}
    IfMac <- MC_ExampleIfMac
    Fds = {4}
    CtrlFd = 3
    TicksPerSec = 1
    IpArgs = {}
    RequestMacArgs <- MC_ExampleArgs
    Hosts <- MC_ExampleHosts
    IPs <- MC_ExampleIPs
    MaxQueue = 1

SPECIFICATION ExampleSpec

PROPERTY LookupRefinement
