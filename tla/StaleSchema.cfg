CONSTANTS
    Null = Null
    NoTool = NoTool
    NoCall = NoCall
    t1 = t1
    t2 = t2
    s1 = s1
    s2 = s2
    v = v
    Scalars <- MCScalars
    BadNames = {"_p"}
    Threads <- MCThreads
    Tools <- MCTools
    Builtins <- MCBuiltins
    Devices <- MCDevices
    DeviceOf <- MCDeviceOf
    Schemas <- MCSchemas
    Offers <- MCOffers
    Sessions <- MCSessions
    Requests <- MCRequests
    Objects <- MCObjects
    Innermost <- MCInnermost
    MaxChanges = 2
SPECIFICATION Spec
INVARIANTS
    CallsMatchDevice
CHECK_DEADLOCK FALSE
