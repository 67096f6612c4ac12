SPECIFICATION NetworkSpec
CONSTANTS
    Window = 3
    MaxSeq = 5
    MaxTime = 1
    Size = 3
    IdxWrap = 6
    NoAddr = NoAddr
    RxCount = 4
    MaxFrames = 4
    Caps <- MCCaps
    Objects <- MCObjects
    SubOptions <- MCOptions
    Limits <- MCLimits
    Predicates <- MCPredicates
    Revocable = {2}
    MAX_EVENT_LOG = 4
    Unlimited = Unlimited
    MaxPublishes = 5
    MaxListeners = 1
    MaxEpoch = 1
    Paths = {p, q, r}
    FirstPath = p
    NoChallenge = NoChallenge
    MaxStream = 1
INVARIANTS AcceptedOnce RefusedOnlyIfSeenOrOld FramesInOrder NoBufferLost NoSilentGap InOrderOnce
PROPERTIES FramesReceived PathValidated
CHECK_DEADLOCK FALSE
