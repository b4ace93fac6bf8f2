SPECIFICATION Spec
CONSTANTS
    f1 = f1
    f2 = f2
    c1 = c1
    c2 = c2
    c3 = c3
    Server = Server
    None = None
    Blank = Blank
    Servers <- MCServers
    Clients <- MCClients
    Others <- MCOthers
    Writers <- MCWriters
    Procs <- MCProcs
    Stoppers <- MCStoppers
    Mesg <- MCMesg
    Pid <- MCPid
    Source <- MCSource
    Old <- MCOld
    ScenesOf <- MCScenesOf
    Value = 10
    ChildCount = 10
    MaxConn = 2
    Backlog = 2
    MaxOrders = 2
    MaxResults = 2
    MaxFds = 3
    Cap = 2
    Room = 1
    Lines = 2
    LINELEN = 3
    Orders = 2
    Lives = 2
    BUFFER_SIZE = 2
    BLOCKSIZE = 2
\* programs end and servers wait
CHECK_DEADLOCK FALSE
INVARIANT SameContent
