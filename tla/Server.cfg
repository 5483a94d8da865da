SPECIFICATION FairSpec
CONSTANTS
    N = 2
    Conns = {1, 2}
    StopCall = Stop
    TcpStops = {t}
INVARIANTS LoopsEnd CloseAsked
PROPERTIES StopReturns SecondStopIsHarmless
CHECK_DEADLOCK FALSE
