CONSTANTS
    Servers <- MCServers
    srvA = srvA
    srvB = srvB
    Default <- MCDefault
    MaxPages = 1
    Posts = {1, 2}
    Sessions = {101, 102}
    Messages <- MCMessages
    Modes = {"stdio", "listen", "single", "relay"}
    Listed <- MCListed
    Changed <- MCChanged
    Surprises <- MCSurprises
    Mortal <- MCMortal
    Pages <- MCPages
    Fickle = {2}
    MaxFaults = 1
SPECIFICATION Spec
INVARIANTS  IdsStayPaired OneToolPerName NoneStranded
CHECK_DEADLOCK FALSE
