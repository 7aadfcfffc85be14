SPECIFICATION FairSpec
CONSTANTS
    Names = {web}
    Specs <- MCSpecs
    SuccessThreshold = 1
    FailureThreshold = 2
    MaxEvents = 3
INVARIANT ReadyWasProbed
PROPERTY Settles
INVARIANT RunsOnceOnItsVolume
PROPERTY NeverGoesBack
