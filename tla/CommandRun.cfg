SPECIFICATION Spec
CONSTANTS
    NoProfile = NoProfile
    NoPolicy = NoPolicy
    BadPolicy = BadPolicy
    CommandLines <- MCCommandLines
    Outcomes <- MCOutcomes
    MaxProject = 2
    MaxFiles = 1
    MaxTroubles = 2
INVARIANTS
    TypeOK
    ExitZeroMeansClean
    StrictGateHolds
    NoSilentFallback
    StricterSettingsSurvive
    ExplicitContractsAreTheScope
    FailedPassesAreListed
    CapabilitiesAreDelivered
CHECK_DEADLOCK FALSE
