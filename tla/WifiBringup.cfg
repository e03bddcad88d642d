SPECIFICATION FairSpec
CONSTANTS
    home = home
    office = office
    Forms = {home, office}
    MaxBoots = 2
    StartFaults = TRUE
    NvsFaults = TRUE
    None = None
INVARIANT StatusTogether
INVARIANT ApHasPortal
INVARIANT NeverStranded
INVARIANT ForgetSticks
INVARIANT CredentialsMatch
PROPERTY ConnectingEnds
