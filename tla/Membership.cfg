SPECIFICATION FairSpec
CONSTANTS
    Agents = {"old", "new"}
    Servers = {1, 2}
    Home <- MCHome
    MaxEvents = 4
CHECK_DEADLOCK FALSE
PROPERTY Reattaches
INVARIANT OneHolderOneTunnel
PROPERTY NodeIsKept
