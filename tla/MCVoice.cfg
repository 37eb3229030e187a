SPECIFICATION VoiceSpec
CONSTANTS
    NoDictation = NoDictation
    MaxTaps = 6
CHECK_DEADLOCK FALSE
INVARIANTS
    QuietWhenOff
    OneListenerPerStart
PROPERTIES
    ListensAgain
