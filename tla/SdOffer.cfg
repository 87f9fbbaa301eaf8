CONSTANTS
    RepetitionsMax = 1
    MaxInfos = 2
    MaxSuspends = 1
    MaxInFlight = 2
SPECIFICATION FairSpec
INVARIANTS
    PhasesAgree
    StopReachesRemote
PROPERTIES
    OfferAnnounced
