SPECIFICATION FairSpec
CONSTANTS
    Go2rtc = go2rtc
    Bridge = bridge
PROPERTIES StopEnds
CHECK_DEADLOCK FALSE
