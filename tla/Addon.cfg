SPECIFICATION FairSpec
CONSTANTS
    Go2rtc = go2rtc
    Bridge = bridge
INVARIANTS OrderlyEnd TruthfulCode
PROPERTIES Ends
CHECK_DEADLOCK FALSE
