CONSTANTS
    e1 = e1
    e2 = e2
    bad = bad
    ipA = ipA
    ipB = ipB
    macH = macH
    macH2 = macH2
    macE1 = macE1
    macE2 = macE2
    IfMac <- MC_IfMac
    IfNames = {e1, bad}
    ValidIfNames = {e1}
    Fds <- MC_Fds
    CtrlFd = 3
    TicksPerSec = 1
    IpArgs <- MC_IpArgs
    RequestMacArgs <- MC_RequestMacArgs
    Hosts <- MC_Hosts
    IPs <- MC_IPs
    MaxQueue = 1

SPECIFICATION Spec

INVARIANT NoPrematureNotFound
