\* One connection whose SYN is retransmitted, so that two half-open PCBs may
\* exist; with equal initial sequence numbers only their ids tell them apart.
\* The system may stop: nobody has to connect again.
SPECIFICATION Spec
CONSTANTS
    Client = client
    Server = server
    TCP_WND = 4
    TCP_MAXRTX = 2
    TCP_SYNMAXRTX = 1
    SYN_RCVD_TIMEOUT = 1
    FIN_WAIT_TIMEOUT = 1
    TWO_MSL = 1
    KEEP_IDLE = 0
    KEEP_INTVL = 1
    KEEP_DUR = 1
    IssSteps = {0}
    MaxConnects = 1
    MaxAccepts = 2
    MaxUnderWay = 2
INVARIANT
    NoMatchSurvived
CHECK_DEADLOCK FALSE
